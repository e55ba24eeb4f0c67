--------------------------- MODULE TestRunnerProofs ---------------------------
(***************************************************************************)
(* Proofs about TestRunner, for any texts, tests and iterations: getValue  *)
(* finds the field of the line it is meant to find, and a test answers     *)
(* what it means.                                                          *)
(***************************************************************************)
EXTENDS TestRunner, SequenceTheorems, FiniteSetTheorems, WellFoundedInduction, TLAPS

-----------------------------------------------------------------------------
(* Sets of numbers.                                                        *)

LEMMA MinIs ==
    ASSUME NEW S, NEW x \in S, S \subseteq Int, \A y \in S : x <= y
    PROVE  Min(S) = x
  <1>1. Min(S) \in S /\ \A y \in S : Min(S) <= y
    BY Zenon DEF Min
  <1>2. Min(S) \in Int /\ x \in Int /\ Min(S) <= x /\ x <= Min(S)
    BY <1>1, Zenon
  <1> QED BY <1>2, SMT

LEMMA MaxIs ==
    ASSUME NEW S, NEW x \in S, S \subseteq Int, \A y \in S : x >= y
    PROVE  Max(S) = x
  <1>1. Max(S) \in S /\ \A y \in S : Max(S) >= y
    BY Zenon DEF Max
  <1>2. Max(S) \in Int /\ x \in Int /\ Max(S) >= x /\ x >= Max(S)
    BY <1>1, Zenon
  <1> QED BY <1>2, SMT

LEMMA Least ==
    ASSUME NEW S, S \subseteq Nat, S # {}
    PROVE  \E x \in S : \A y \in S : x <= y
  <1> DEFINE R == OpToRel(<, Nat)
  <1>1. \A x, y \in Nat : <<x, y>> \in R <=> x < y
    BY DEF OpToRel
  <1>2. IsWellFoundedOn(R, Nat)
    BY NatLessThanWellFounded
  <1> HIDE DEF R
  <1>3. PICK x \in S : \A y \in S : <<y, x>> \notin R
    BY <1>2, WFMin
  <1>4. ASSUME NEW y \in S PROVE x <= y
    <2>1. x \in Nat /\ y \in Nat
      BY Zenon
    <2>2. ~(y < x)
      BY <1>1, <1>3, <2>1, Zenon
    <2> QED BY <2>1, <2>2, SMT
  <1> QED BY <1>4

LEMMA Greatest ==
    ASSUME NEW n \in Nat, NEW S, S \subseteq 1..n, S # {}
    PROVE  \E x \in S : \A y \in S : x >= y
  <1> DEFINE T == {n - y : y \in S}
  <1>1. T \subseteq Nat /\ T # {}
    <2>1. \A y \in S : n - y \in Nat
      <3>1. \A y \in 1..n : n - y \in Nat
        OBVIOUS
      <3> QED BY <3>1, Zenon
    <2>2. PICK y \in S : TRUE
      BY Zenon
    <2>3. n - y \in T
      BY Zenon
    <2> QED BY <2>1, <2>3, Zenon
  <1>2. PICK z \in T : \A y \in T : z <= y
    <2> HIDE DEF T
    <2> QED BY <1>1, Least
  <1>3. PICK x \in S : z = n - x
    BY Zenon
  <1>4. \A y \in S : n - x <= n - y
    BY <1>2, <1>3, Zenon
  <1>5. ASSUME NEW y \in S PROVE x >= y
    <2>1. x \in 1..n /\ y \in 1..n /\ n - x <= n - y
      BY <1>4, Zenon
    <2> QED BY <2>1, SMT
  <1> QED BY <1>5

\* What holds at 0, and at a number because it holds at the one before, holds at all:
\* what does not hold would begin somewhere.
LEMMA NoFirst ==
    ASSUME NEW n \in Nat, NEW Good \in SUBSET Nat, 0 \in Good,
           \A k \in 0..(n - 1) : k \in Good => k + 1 \in Good
    PROVE  0..n \subseteq Good
  <1> SUFFICES ASSUME ~(0..n \subseteq Good) PROVE FALSE
    OBVIOUS
  <1> DEFINE Bad == {k \in 0..n : k \notin Good}
  <1>1. Bad \subseteq Nat /\ Bad # {}
    OBVIOUS
  <1>2. PICK k \in Bad : \A j \in Bad : k <= j
    <2> HIDE DEF Bad
    <2> QED BY <1>1, Least
  <1>3. k # 0 /\ k \in 1..n
    OBVIOUS
  <1>4. k - 1 \notin Bad /\ k - 1 \in 0..(n - 1)
    BY <1>2, <1>3
  <1>5. k - 1 \in Good /\ (k - 1) + 1 = k
    BY <1>3, <1>4
  <1> QED BY <1>4, <1>5

LEMMA MinOf ==
    ASSUME NEW S, S \subseteq Nat, S # {}
    PROVE  Min(S) \in S /\ \A y \in S : Min(S) <= y
  <1>1. PICK x \in S : \A y \in S : x <= y
    BY Least
  <1>2. S \subseteq Int
    OBVIOUS
  <1>3. Min(S) = x
    BY <1>1, <1>2, MinIs
  <1> QED BY <1>1, <1>3, Zenon

LEMMA MaxOf ==
    ASSUME NEW n \in Nat, NEW S, S \subseteq 0..n, S # {}
    PROVE  Max(S) \in S /\ \A y \in S : Max(S) >= y
  <1> DEFINE T == {n - y : y \in S}
  <1>1. \A y \in S : n - y \in Nat /\ y \in Int
    OBVIOUS
  <1>2. T \subseteq Nat /\ T # {}
    BY <1>1
  <1>3. PICK z \in T : \A y \in T : z <= y
    <2> HIDE DEF T
    <2> QED BY <1>2, Least
  <1>4. PICK x \in S : z = n - x
    BY Zenon
  <1>5. \A y \in S : n - x <= n - y
    BY <1>3, <1>4, Zenon
  <1>6. ASSUME NEW y \in S PROVE x >= y
    <2>1. x \in 0..n /\ y \in 0..n /\ n - x <= n - y
      BY <1>5, Zenon
    <2> QED BY <2>1, SMT
  <1>7. S \subseteq Int
    OBVIOUS
  <1>8. Max(S) = x
    BY <1>6, <1>7, MaxIs
  <1> QED BY <1>6, <1>8

-----------------------------------------------------------------------------
(* Lines.                                                                  *)

Ends(b, i) == {p \in 1..i : b[p] = NL}

LEMMA EndsFinite ==
    ASSUME NEW b, NEW i \in Nat
    PROVE  IsFiniteSet(Ends(b, i)) /\ LineOf(b, i) = Cardinality(Ends(b, i)) /\ LineOf(b, i) \in Nat
  <1>1. IsFiniteSet(1..i) /\ Ends(b, i) \in SUBSET (1..i)
    BY FS_Interval DEF Ends
  <1>2. IsFiniteSet(Ends(b, i))
    BY <1>1, FS_Subset
  <1>3. LineOf(b, i) = Cardinality(Ends(b, i))
    BY DEF LineOf, Ends
  <1> QED BY <1>2, <1>3, FS_CardinalityType

\* No line ends from i + 1 to j.
Unbroken(b, i, j) == \A p \in (i + 1)..j : b[p] # NL

LEMMA LineOfSame ==
    ASSUME NEW b, NEW i \in Nat, NEW j \in Nat, i <= j
    PROVE  /\ LineOf(b, i) <= LineOf(b, j)
           /\ LineOf(b, i) = LineOf(b, j) <=> Unbroken(b, i, j)
  <1>1. /\ IsFiniteSet(Ends(b, j)) /\ LineOf(b, j) = Cardinality(Ends(b, j))
        /\ LineOf(b, i) = Cardinality(Ends(b, i))
    BY EndsFinite
  <1>2. Ends(b, i) \in SUBSET Ends(b, j)
    BY DEF Ends
  <1>3. /\ Cardinality(Ends(b, i)) <= Cardinality(Ends(b, j))
        /\ Cardinality(Ends(b, j)) = Cardinality(Ends(b, i)) => Ends(b, j) = Ends(b, i)
    BY <1>1, <1>2, FS_Subset
  <1>4. Ends(b, j) = Ends(b, i) <=> Unbroken(b, i, j)
    <2>1. ASSUME Unbroken(b, i, j) PROVE Ends(b, j) = Ends(b, i)
      <3>1. \A p \in 1..j : p \in 1..i \/ p \in (i + 1)..j
        OBVIOUS
      <3> QED BY <1>2, <2>1, <3>1 DEF Ends, Unbroken
    <2>2. ASSUME Ends(b, j) = Ends(b, i), NEW p \in (i + 1)..j PROVE b[p] # NL
      <3>1. p \in 1..j /\ p \notin 1..i
        OBVIOUS
      <3> QED BY <2>2, <3>1 DEF Ends
    <2> QED BY <2>1, <2>2 DEF Unbroken
  <1> QED BY <1>1, <1>3, <1>4

LEMMA LineOfEnd ==
    ASSUME NEW b, NEW i \in Nat \ {0}, b[i] = NL
    PROVE  LineOf(b, i) = LineOf(b, i - 1) + 1
  <1>1. /\ IsFiniteSet(Ends(b, i - 1)) /\ LineOf(b, i - 1) = Cardinality(Ends(b, i - 1))
        /\ LineOf(b, i) = Cardinality(Ends(b, i))
    BY EndsFinite
  <1>2. Ends(b, i) = Ends(b, i - 1) \cup {i} /\ i \notin Ends(b, i - 1)
    BY DEF Ends
  <1> QED BY <1>1, <1>2, FS_AddElement

Begins(b, st) == st = 0 \/ b[st] = NL
Stops(b, en)  == en = Len(b) \/ b[en + 1] = NL

\* The positions st + 1 to en make up a line.
IsLine(b, st, en) ==
    /\ st \in Nat /\ en \in Nat /\ st <= en /\ en <= Len(b)
    /\ Begins(b, st) /\ Unbroken(b, st, en) /\ Stops(b, en)

LEMMA LineIs ==
    ASSUME NEW b \in Seq(Chars), NEW st, NEW en, IsLine(b, st, en)
    PROVE  Line(b, LineOf(b, st)) = (st + 1)..en
  <1>1. /\ Len(b) \in Nat /\ DOMAIN b = 1..Len(b)
        /\ st \in Nat /\ en \in Nat /\ st <= en /\ en <= Len(b)
        /\ Begins(b, st) /\ Unbroken(b, st, en) /\ Stops(b, en)
    BY LenProperties DEF IsLine
  <1>2. ASSUME NEW p \in (st + 1)..en PROVE p \in Line(b, LineOf(b, st))
    <2>1. p \in DOMAIN b /\ p \in Nat /\ st <= p
      BY <1>1
    <2>2. Unbroken(b, st, p) /\ b[p] # NL
      <3>1. (st + 1)..p \subseteq (st + 1)..en
        BY <1>1
      <3> QED BY <1>1, <3>1 DEF Unbroken
    <2>3. LineOf(b, p) = LineOf(b, st)
      BY <1>1, <2>1, <2>2, LineOfSame
    <2> QED BY <2>1, <2>2, <2>3 DEF Line
  <1>3. ASSUME NEW p \in Line(b, LineOf(b, st)) PROVE p \in (st + 1)..en
    <2>1. p \in 1..Len(b) /\ b[p] # NL /\ LineOf(b, p) = LineOf(b, st)
      BY <1>1 DEF Line
    <2>2. CASE p < st
      <3>1. p \in Nat /\ p <= st
        BY <1>1, <2>1, <2>2
      <3>2. Unbroken(b, p, st)
        BY <1>1, <2>1, <3>1, LineOfSame
      <3>3. st \in (p + 1)..st /\ st # 0
        BY <1>1, <2>1, <2>2
      <3> QED BY <1>1, <3>2, <3>3 DEF Unbroken, Begins
    <2>3. CASE p = st
      <3>1. st # 0
        BY <1>1, <2>1, <2>3
      <3> QED BY <1>1, <2>1, <2>3, <3>1 DEF Begins
    <2>4. CASE p > en
      <3>1. p \in Nat /\ st <= p
        BY <1>1, <2>1, <2>4
      <3>2. Unbroken(b, st, p)
        BY <1>1, <2>1, <3>1, LineOfSame
      <3>3. p <= Len(b) /\ en < p
        BY <1>1, <2>1, <2>4
      <3>4. en + 1 \in (st + 1)..p
        BY <1>1, <3>1, <3>3
      <3>5. en # Len(b)
        <4>1. \A l, e \in Nat : p <= l /\ e < p => e # l
          BY <3>1
        <4> QED BY <1>1, <3>3, <4>1
      <3> QED BY <1>1, <3>2, <3>4, <3>5 DEF Unbroken, Stops
    <2> QED BY <1>1, <2>1, <2>2, <2>3, <2>4
  <1> QED BY <1>2, <1>3

LEMMA EndOfLineIs ==
    ASSUME NEW b \in Seq(Chars), NEW i \in 0..Len(b)
    PROVE  /\ EndOfLine(b, i) \in i..Len(b)
           /\ Unbroken(b, i, EndOfLine(b, i)) /\ Stops(b, EndOfLine(b, i))
  <1> DEFINE S == {p \in i..Len(b) : p = Len(b) \/ b[p + 1] = NL}
             en == EndOfLine(b, i)
  <1>1. Len(b) \in Nat
    BY LenProperties
  <1>2. S \subseteq Nat /\ Len(b) \in S
    BY <1>1
  <1>3. en = Min(S)
    BY DEF EndOfLine
  <1>4. en \in S /\ \A y \in S : en <= y
    <2> HIDE DEF S, en
    <2> QED BY <1>2, <1>3, MinOf
  <1> HIDE DEF en
  <1>5. ASSUME NEW p \in (i + 1)..en PROVE b[p] # NL
    <2>1. p - 1 \in i..Len(b) /\ ~(en <= p - 1) /\ p - 1 + 1 = p
      BY <1>1, <1>4
    <2>2. p - 1 \notin S
      BY <1>4, <2>1
    <2> QED BY <2>1, <2>2
  <1> QED BY <1>4, <1>5 DEF Unbroken, Stops, en

LEMMA StartOfLineIs ==
    ASSUME NEW b, NEW n \in Nat
    PROVE  /\ StartOfLine(b, n) \in 0..n
           /\ Begins(b, StartOfLine(b, n)) /\ Unbroken(b, StartOfLine(b, n), n)
  <1> DEFINE S == {p \in 0..n : p = 0 \/ b[p] = NL}
             st == StartOfLine(b, n)
  <1>1. S \subseteq 0..n /\ 0 \in S
    OBVIOUS
  <1>2. st = Max(S)
    BY DEF StartOfLine
  <1>3. st \in S /\ \A y \in S : st >= y
    <2> HIDE DEF S, st
    <2> QED BY <1>1, <1>2, MaxOf
  <1> HIDE DEF st
  <1>4. ASSUME NEW p \in (st + 1)..n PROVE b[p] # NL
    <2>1. p \in 0..n /\ ~(st >= p)
      BY <1>3
    <2>2. p \notin S
      BY <1>3, <2>1
    <2> QED BY <2>1, <2>2
  <1> QED BY <1>3, <1>4 DEF Unbroken, Begins, st

-----------------------------------------------------------------------------
(* Runs of separators, and the pieces between them.                        *)

\* A stretch of a text: what stands behind position o, up to position e.
LEMMA Window ==
    ASSUME NEW b \in Seq(Chars), NEW o \in Nat, NEW e \in Nat, o <= e, e <= Len(b)
    PROVE  /\ SubSeq(b, o + 1, e) \in Seq(Chars) /\ Len(SubSeq(b, o + 1, e)) = e - o
           /\ \A x \in 1..(e - o) : SubSeq(b, o + 1, e)[x] = b[o + x]
  <1> DEFINE w == SubSeq(b, o + 1, e)
  <1>1. \A x \in (o + 1)..e : b[x] \in Chars
    <2>1. \A x \in (o + 1)..e : x \in 1..Len(b)
      BY LenProperties
    <2> QED BY <2>1, ElementOfSeq
  <1>2. /\ w \in Seq(Chars) /\ Len(w) = IF o + 1 <= e THEN e - (o + 1) + 1 ELSE 0
        /\ \A x \in 1..(e - (o + 1) + 1) : w[x] = b[o + 1 + x - 1]
    BY <1>1, SubSeqProperties
  <1> HIDE DEF w
  <1>3. e - (o + 1) + 1 = e - o /\ (o + 1 <= e \/ e - o = 0)
    OBVIOUS
  <1>4. Len(w) = e - o
    BY <1>2, <1>3
  <1>5. ASSUME NEW x \in 1..(e - o) PROVE w[x] = b[o + x]
    <2>1. w[x] = b[o + 1 + x - 1]
      BY <1>2, <1>3
    <2>2. o + 1 + x - 1 = o + x
      OBVIOUS
    <2> QED BY <2>1, <2>2
  <1> QED BY <1>2, <1>4, <1>5 DEF w

\* A stretch that one more character is appended to is the longer stretch.
LEMMA WindowGrows ==
    ASSUME NEW b \in Seq(Chars), NEW o \in Nat, NEW e \in Nat, o <= e, e + 1 <= Len(b)
    PROVE  Append(SubSeq(b, o + 1, e), b[e + 1]) = SubSeq(b, o + 1, e + 1)
  <1> DEFINE w == SubSeq(b, o + 1, e)
             v == SubSeq(b, o + 1, e + 1)
             a == Append(w, b[e + 1])
  <1>0. Len(b) \in Nat /\ e + 1 \in 1..Len(b) /\ e + 1 \in Nat /\ e <= Len(b) /\ o <= e + 1
    BY LenProperties
  <1>1. b[e + 1] \in Chars
    BY <1>0, ElementOfSeq
  <1>2. w \in Seq(Chars) /\ Len(w) = e - o /\ \A x \in 1..(e - o) : w[x] = b[o + x]
    BY <1>0, Window
  <1>3. v \in Seq(Chars) /\ Len(v) = e + 1 - o /\ \A x \in 1..(e + 1 - o) : v[x] = b[o + x]
    BY <1>0, Window
  <1> HIDE DEF w, v
  <1>4. /\ a \in Seq(Chars) /\ Len(a) = e - o + 1
        /\ \A x \in 1..(e - o) : a[x] = w[x]
        /\ a[e - o + 1] = b[e + 1]
    BY <1>1, <1>2, AppendProperties
  <1> HIDE DEF a
  <1>5. ASSUME NEW x \in 1..(e + 1 - o) PROVE a[x] = v[x]
    <2>1. v[x] = b[o + x]
      BY <1>3
    <2>2. CASE x \in 1..(e - o)
      BY <1>2, <1>4, <2>1, <2>2
    <2>3. CASE x = e - o + 1
      <3>1. o + x = e + 1
        BY <2>3
      <3> QED BY <1>4, <2>1, <2>3, <3>1
    <2>4. x \in 1..(e - o) \/ x = e - o + 1
      OBVIOUS
    <2> QED BY <2>2, <2>3, <2>4
  <1>6. Len(a) = Len(v) /\ Len(a) = e + 1 - o
    BY <1>3, <1>4
  <1>7. a = v
    BY <1>3, <1>4, <1>5, <1>6, SeqEqual
  <1> QED BY <1>7 DEF a, v, w

\* A stretch of a stretch.
LEMMA WindowIn ==
    ASSUME NEW b \in Seq(Chars), NEW o \in Nat, NEW e \in Nat, o <= e, e <= Len(b),
           NEW m \in 1..(e - o), NEW k \in m..(e - o)
    PROVE  SubSeq(SubSeq(b, o + 1, e), m, k) = SubSeq(b, o + m, o + k)
  <1> DEFINE w == SubSeq(b, o + 1, e)
             v == SubSeq(w, m, k)
             u == SubSeq(b, o + m, o + k)
  <1>1. w \in Seq(Chars) /\ Len(w) = e - o /\ \A x \in 1..(e - o) : w[x] = b[o + x]
    BY Window
  <1> HIDE DEF w
  <1>2. m - 1 \in Nat /\ k \in Nat /\ m - 1 <= k /\ k <= Len(w) /\ m - 1 + 1 = m
    BY <1>1
  <1>3. /\ v \in Seq(Chars) /\ Len(v) = k - (m - 1)
        /\ \A x \in 1..(k - (m - 1)) : v[x] = w[m - 1 + x]
    BY <1>1, <1>2, Window
  <1>4. /\ o + m - 1 \in Nat /\ o + k \in Nat /\ o + m - 1 <= o + k /\ o + k <= Len(b)
        /\ o + m - 1 + 1 = o + m /\ o + k - (o + m - 1) = k - (m - 1)
    BY LenProperties
  <1>5. /\ u \in Seq(Chars) /\ Len(u) = k - (m - 1)
        /\ \A x \in 1..(k - (m - 1)) : u[x] = b[o + m - 1 + x]
    BY <1>4, Window
  <1> HIDE DEF v, u
  <1>6. ASSUME NEW x \in 1..(k - (m - 1)) PROVE v[x] = u[x]
    <2>1. m - 1 + x \in 1..(e - o) /\ o + (m - 1 + x) = o + m - 1 + x
      BY <1>2
    <2>2. w[m - 1 + x] = b[o + (m - 1 + x)]
      BY <1>1, <2>1
    <2> QED BY <1>3, <1>5, <2>1, <2>2
  <1>7. v = u
    BY <1>3, <1>5, <1>6, SeqEqual
  <1> QED BY <1>7 DEF u, v, w

\* The separators that open a run, of those behind position st.
Opens(b, st, p) == {q \in (st + 1)..p : b[q] = Sep /\ (q > st + 1 => b[q - 1] # Sep)}
OpensUpTo(b, st, p) == Cardinality(Opens(b, st, p))

LEMMA OpensFinite ==
    ASSUME NEW b, NEW st \in Nat, NEW p \in Nat
    PROVE  IsFiniteSet(Opens(b, st, p)) /\ OpensUpTo(b, st, p) \in Nat
  <1>1. IsFiniteSet((st + 1)..p) /\ Opens(b, st, p) \in SUBSET ((st + 1)..p)
    BY FS_Interval DEF Opens
  <1>2. IsFiniteSet(Opens(b, st, p))
    BY <1>1, FS_Subset
  <1> QED BY <1>2, FS_CardinalityType DEF OpensUpTo

LEMMA OpensGrow ==
    ASSUME NEW b, NEW st \in Nat, NEW p \in Nat, NEW q \in Nat, p <= q
    PROVE  OpensUpTo(b, st, p) <= OpensUpTo(b, st, q)
  <1>1. Opens(b, st, p) \in SUBSET Opens(b, st, q)
    BY DEF Opens
  <1> QED BY <1>1, OpensFinite, FS_Subset DEF OpensUpTo

LEMMA OpensNone ==
    ASSUME NEW b, NEW st \in Nat
    PROVE  OpensUpTo(b, st, st) = 0
  <1>1. Opens(b, st, st) = {}
    BY DEF Opens
  <1> QED BY <1>1, FS_EmptySet DEF OpensUpTo

LEMMA OpensSame ==
    ASSUME NEW b, NEW st \in Nat, NEW j \in Nat, st <= j,
           b[j + 1] # Sep \/ (j > st /\ b[j] = Sep)
    PROVE  OpensUpTo(b, st, j + 1) = OpensUpTo(b, st, j)
  <1>1. ASSUME NEW q \in (st + 1)..(j + 1), b[q] = Sep, q > st + 1 => b[q - 1] # Sep
        PROVE  q \in (st + 1)..j
    <2>1. CASE q = j + 1
      <3>1. q - 1 = j /\ (j > st => q > st + 1)
        BY <2>1
      <3> QED BY <1>1, <2>1, <3>1
    <2> QED BY <2>1
  <1>2. \A q \in (st + 1)..j : q \in (st + 1)..(j + 1)
    OBVIOUS
  <1>3. Opens(b, st, j + 1) = Opens(b, st, j)
    BY <1>1, <1>2, Zenon DEF Opens
  <1> QED BY <1>3 DEF OpensUpTo

LEMMA OpensMore ==
    ASSUME NEW b, NEW st \in Nat, NEW j \in Nat, st <= j,
           b[j + 1] = Sep, j = st \/ b[j] # Sep
    PROVE  OpensUpTo(b, st, j + 1) = OpensUpTo(b, st, j) + 1
  <1>1. j + 1 > st + 1 => b[j + 1 - 1] # Sep
    <2>1. j + 1 - 1 = j /\ (j + 1 > st + 1 => j # st)
      OBVIOUS
    <2> QED BY <2>1
  <1>2. \A q : q \in (st + 1)..(j + 1) <=> q \in (st + 1)..j \/ q = j + 1
    OBVIOUS
  <1>3. Opens(b, st, j + 1) = Opens(b, st, j) \cup {j + 1}
    <2>1. ASSUME NEW q \in Opens(b, st, j + 1) PROVE q \in Opens(b, st, j) \cup {j + 1}
      BY <1>2, <2>1, Zenon DEF Opens
    <2>2. ASSUME NEW q \in Opens(b, st, j) PROVE q \in Opens(b, st, j + 1)
      BY <1>2, <2>2, Zenon DEF Opens
    <2>3. j + 1 \in Opens(b, st, j + 1)
      <3>1. j + 1 \in (st + 1)..(j + 1)
        OBVIOUS
      <3> QED BY <1>1, <3>1 DEF Opens
    <2> QED BY <2>1, <2>2, <2>3
  <1>4. j + 1 \notin Opens(b, st, j)
    BY DEF Opens
  <1> QED BY <1>3, <1>4, OpensFinite, FS_AddElement DEF OpensUpTo

\* One step of Split, which looks at character i of s.
SplitStep(s, i, parts) ==
    IF s[i] # Sep THEN [parts EXCEPT ![Len(parts)] = Append(@, s[i])]
    ELSE IF i > 1 /\ s[i - 1] = Sep THEN parts
    ELSE Append(parts, <<>>)

LEMMA SplitIs ==
    ASSUME NEW s, Len(s) \in Nat
    PROVE  \E parts : /\ parts[0] = << <<>> >>
                      /\ \A i \in 1..Len(s) : parts[i] = SplitStep(s, i, parts[i - 1])
                      /\ Split(s) = parts[Len(s)]
  <1> DEFINE N == Len(s)
             Step(f, i) == IF i = 0 THEN << <<>> >>
                           ELSE IF s[i] # Sep
                                THEN [f[i - 1] EXCEPT ![Len(f[i - 1])] = Append(@, s[i])]
                           ELSE IF i > 1 /\ s[i - 1] = Sep THEN f[i - 1]
                           ELSE Append(f[i - 1], <<>>)
             Good == {k \in Nat : \E f : f = [i \in 0..k |-> Step(f, i)]}
  <1>0. \A f, g, i : (i = 0 \/ f[i - 1] = g[i - 1]) => Step(f, i) = Step(g, i)
    OBVIOUS
  <1>1. 0 \in Good
    <2> DEFINE f == [i \in 0..0 |-> << <<>> >>]
    <2>1. f = [i \in 0..0 |-> Step(f, i)]
      OBVIOUS
    <2> QED BY <2>1
  <1>2. ASSUME NEW k \in Nat, k \in Good PROVE k + 1 \in Good
    <2>1. PICK f : f = [i \in 0..k |-> Step(f, i)]
      BY <1>2
    <2>2. \A i \in 0..k : f[i] = Step(f, i)
      <3> HIDE DEF Step
      <3> QED BY <2>1
    <2> DEFINE g == [i \in 0..(k + 1) |-> IF i = k + 1 THEN Step(f, k + 1) ELSE f[i]]
    <2>3. \A i \in 0..(k + 1) : g[i] = Step(f, i)
      <3> HIDE DEF Step
      <3> QED BY <2>2
    <2>4. \A i \in 0..(k + 1) : Step(g, i) = Step(f, i)
      <3>1. \A i \in 0..k : g[i] = f[i]
        <4> HIDE DEF Step
        <4> QED BY <2>2
      <3>2. \A i \in 0..(k + 1) : i = 0 \/ i - 1 \in 0..k
        OBVIOUS
      <3> HIDE DEF g, Step
      <3> QED BY <1>0, <3>1, <3>2
    <2>5. g = [i \in 0..(k + 1) |-> Step(g, i)]
      <3>1. g = [i \in 0..(k + 1) |-> g[i]]
        <4> HIDE DEF Step
        <4> QED OBVIOUS
      <3> HIDE DEF g, Step
      <3> QED BY <2>3, <2>4, <3>1
    <2> HIDE DEF g, Step
    <2> QED BY <2>5
  <1>3. N \in Good
    <2>1. Good \in SUBSET Nat /\ N \in Nat
      OBVIOUS
    <2> HIDE DEF Good, N
    <2>2. \A k \in 0..(N - 1) : k \in Good => k + 1 \in Good
      BY <1>2, <2>1
    <2>3. 0..N \subseteq Good
      BY <1>1, <2>1, <2>2, NoFirst
    <2> QED BY <2>1, <2>3
  <1> DEFINE parts == CHOOSE f : f = [i \in 0..N |-> Step(f, i)]
  <1>4. parts = [i \in 0..N |-> Step(parts, i)]
    <2> HIDE DEF Step
    <2> QED BY <1>3
  <1>5. Split(s) = parts[N]
    BY DEF Split
  <1> HIDE DEF parts
  <1>6. \A i \in 0..N : parts[i] = Step(parts, i)
    <2> HIDE DEF Step
    <2> QED BY <1>4
  <1>7. \A i : Step(parts, i) = IF i = 0 THEN << <<>> >> ELSE SplitStep(s, i, parts[i - 1])
    BY Zenon DEF SplitStep
  <1> HIDE DEF Step
  <1>8. parts[0] = << <<>> >>
    <2>1. 0 \in 0..N
      OBVIOUS
    <2> QED BY <1>6, <1>7, <2>1
  <1>9. \A i \in 1..N : parts[i] = SplitStep(s, i, parts[i - 1])
    <2>1. \A i \in 1..N : i \in 0..N /\ i # 0
      OBVIOUS
    <2> QED BY <1>6, <1>7, <2>1
  <1> QED BY <1>5, <1>8, <1>9

\* The positions behind st, up to j, of the characters of piece n.
Solid(b, st, j, n) == {p \in (st + 1)..j : b[p] # Sep /\ OpensUpTo(b, st, p) = n}

\* Piece n of the stretch behind st up to j is w; the last one reaches up to j.
IsPiece(b, st, j, n, w) ==
    \E o \in st..j : \E e \in o..j :
        /\ w = SubSeq(b, o + 1, e) /\ Solid(b, st, j, n) = (o + 1)..e
        /\ n = OpensUpTo(b, st, j) => e = j

IsSplit(b, st, j, parts) ==
    /\ parts \in Seq(Seq(Chars)) /\ Len(parts) = OpensUpTo(b, st, j) + 1
    /\ \A n \in 0..OpensUpTo(b, st, j) : IsPiece(b, st, j, n, parts[n + 1])

LEMMA SplitEmpty ==
    ASSUME NEW b \in Seq(Chars), NEW st \in Nat, st <= Len(b)
    PROVE  IsSplit(b, st, st, << <<>> >>)
  <1>1. OpensUpTo(b, st, st) = 0
    BY OpensNone
  <1>2. << <<>> >> \in Seq(Seq(Chars)) /\ Len(<< <<>> >>) = 1 /\ << <<>> >>[1] = <<>>
    BY EmptySeq
  <1>3. SubSeq(b, st + 1, st) = <<>> /\ Solid(b, st, st, 0) = (st + 1)..st
    <2>1. SubSeq(b, st + 1, st) = <<>>
      BY SubSeqEmpty
    <2> QED BY <2>1 DEF Solid
  <1>4. st \in st..st
    OBVIOUS
  <1>5. IsPiece(b, st, st, 0, <<>>)
    BY <1>3, <1>4 DEF IsPiece
  <1>6. \A n \in 0..0 : n = 0 /\ n + 1 = 1
    OBVIOUS
  <1> QED BY <1>1, <1>2, <1>5, <1>6 DEF IsSplit

Joined(parts, c) == [parts EXCEPT ![Len(parts)] = Append(@, c)]

\* A character that is not a separator joins the last piece.
LEMMA SplitJoins ==
    ASSUME NEW b \in Seq(Chars), NEW st \in Nat, NEW j \in Nat, st <= j, j + 1 <= Len(b),
           b[j + 1] # Sep, NEW parts, IsSplit(b, st, j, parts)
    PROVE  IsSplit(b, st, j + 1, Joined(parts, b[j + 1]))
  <1> DEFINE c == OpensUpTo(b, st, j)
             more == [parts EXCEPT ![Len(parts)] = Append(@, b[j + 1])]
  <1>1. c \in Nat /\ OpensUpTo(b, st, j + 1) = c
    BY OpensFinite, OpensSame
  <1>2. parts \in Seq(Seq(Chars)) /\ Len(parts) = c + 1
    BY DEF IsSplit
  <1>3. \A n \in 0..c : IsPiece(b, st, j, n, parts[n + 1])
    BY DEF IsSplit
  <1>4. b[j + 1] \in Chars
    <2>1. j + 1 \in 1..Len(b)
      BY LenProperties
    <2> QED BY <2>1, ElementOfSeq
  <1>5. c + 1 \in 1..Len(parts) /\ parts[c + 1] \in Seq(Chars)
    <2>1. c + 1 \in 1..Len(parts)
      BY <1>1, <1>2
    <2> QED BY <1>2, <2>1, ElementOfSeq
  <1>6. Append(parts[c + 1], b[j + 1]) \in Seq(Chars)
    BY <1>4, <1>5, AppendProperties
  <1>7. /\ more \in Seq(Seq(Chars)) /\ Len(more) = c + 1
        /\ more[c + 1] = Append(parts[c + 1], b[j + 1])
        /\ \A n \in 0..c : n # c => more[n + 1] = parts[n + 1]
    <2> DEFINE e == Append(parts[c + 1], b[j + 1])
    <2>1. more = [parts EXCEPT ![c + 1] = e]
      BY <1>2
    <2> HIDE DEF e, more
    <2>2. /\ more \in Seq(Seq(Chars)) /\ Len(more) = Len(parts)
          /\ \A x \in 1..Len(parts) : more[x] = IF x = c + 1 THEN e ELSE parts[x]
      BY <1>2, <1>5, <1>6, <2>1, ExceptSeq DEF e
    <2>3. \A n \in 0..c : n + 1 \in 1..(c + 1) /\ (n # c => n + 1 # c + 1)
      BY <1>1
    <2> QED BY <1>2, <1>5, <2>2, <2>3 DEF e
  <1>8. \A n \in 0..c : Solid(b, st, j + 1, n) = Solid(b, st, j, n) \cup (IF n = c THEN {j + 1} ELSE {})
    <2>1. \A p : p \in (st + 1)..(j + 1) <=> p \in (st + 1)..j \/ p = j + 1
      OBVIOUS
    <2>2. OpensUpTo(b, st, j + 1) = c
      BY <1>1
    <2> HIDE DEF c
    <2> QED BY <2>1, <2>2 DEF Solid
  <1> HIDE DEF more
  <1>9. ASSUME NEW n \in 0..c PROVE IsPiece(b, st, j + 1, n, more[n + 1])
    <2>0. PICK o \in st..j : \E e \in o..j :
              /\ parts[n + 1] = SubSeq(b, o + 1, e) /\ Solid(b, st, j, n) = (o + 1)..e
              /\ n = c => e = j
      BY <1>3 DEF IsPiece
    <2>1. PICK e \in o..j :
              /\ parts[n + 1] = SubSeq(b, o + 1, e) /\ Solid(b, st, j, n) = (o + 1)..e
              /\ n = c => e = j
      BY <2>0
    <2>2. o \in st..(j + 1)
      OBVIOUS
    <2>3. CASE n # c
      <3>1. more[n + 1] = SubSeq(b, o + 1, e) /\ Solid(b, st, j + 1, n) = (o + 1)..e
        BY <1>7, <1>8, <2>1, <2>3
      <3>2. e \in o..(j + 1)
        OBVIOUS
      <3> QED BY <1>1, <2>2, <2>3, <3>1, <3>2 DEF IsPiece
    <2>4. CASE n = c
      <3>1. e = j /\ o \in Nat /\ o <= j
        BY <2>1, <2>4
      <3>2. more[n + 1] = SubSeq(b, o + 1, j + 1)
        BY <1>7, <2>1, <2>4, <3>1, WindowGrows
      <3>3. Solid(b, st, j + 1, n) = (o + 1)..(j + 1)
        <4>1. Solid(b, st, j + 1, n) = (o + 1)..j \cup {j + 1}
          BY <1>8, <2>1, <2>4, <3>1
        <4>2. (o + 1)..j \cup {j + 1} = (o + 1)..(j + 1)
          BY <3>1
        <4> QED BY <4>1, <4>2
      <3>4. j + 1 \in o..(j + 1)
        BY <3>1
      <3> QED BY <2>2, <3>2, <3>3, <3>4 DEF IsPiece
    <2> QED BY <2>3, <2>4
  <1>10. IsSplit(b, st, j + 1, more)
    BY <1>1, <1>7, <1>9 DEF IsSplit
  <1> QED BY <1>10 DEF more, Joined

\* A separator adds no character to a piece.
LEMMA SolidSame ==
    ASSUME NEW b, NEW st \in Nat, NEW j \in Nat, b[j + 1] = Sep, NEW n
    PROVE  Solid(b, st, j + 1, n) = Solid(b, st, j, n)
  <1>1. \A p : p \in (st + 1)..(j + 1) => p \in (st + 1)..j \/ p = j + 1
    OBVIOUS
  <1>2. \A p : p \in (st + 1)..j => p \in (st + 1)..(j + 1)
    OBVIOUS
  <1> QED BY <1>1, <1>2 DEF Solid

\* A separator that opens a run begins a piece.
LEMMA SplitOpens ==
    ASSUME NEW b \in Seq(Chars), NEW st \in Nat, NEW j \in Nat, st <= j, j + 1 <= Len(b),
           b[j + 1] = Sep, j = st \/ b[j] # Sep, NEW parts, IsSplit(b, st, j, parts)
    PROVE  IsSplit(b, st, j + 1, Append(parts, <<>>))
  <1> DEFINE c == OpensUpTo(b, st, j)
             more == Append(parts, <<>>)
  <1>1. c \in Nat /\ OpensUpTo(b, st, j + 1) = c + 1
    BY OpensFinite, OpensMore
  <1>2. parts \in Seq(Seq(Chars)) /\ Len(parts) = c + 1
    BY DEF IsSplit
  <1>3. \A n \in 0..c : IsPiece(b, st, j, n, parts[n + 1])
    BY DEF IsSplit
  <1>4. \A p \in (st + 1)..j : OpensUpTo(b, st, p) <= c
    BY OpensGrow
  <1>5. \A n : Solid(b, st, j + 1, n) = Solid(b, st, j, n)
    BY SolidSame
  <1> HIDE DEF c
  <1>6. /\ more \in Seq(Seq(Chars)) /\ Len(more) = c + 1 + 1
        /\ more[c + 1 + 1] = <<>> /\ \A n \in 0..c : more[n + 1] = parts[n + 1]
    <2>1. <<>> \in Seq(Chars)
      BY EmptySeq
    <2>2. /\ more \in Seq(Seq(Chars)) /\ Len(more) = Len(parts) + 1
          /\ \A x \in 1..Len(parts) : more[x] = parts[x]
          /\ more[Len(parts) + 1] = <<>>
      BY <1>2, <2>1, AppendProperties
    <2>3. \A n \in 0..c : n + 1 \in 1..(c + 1)
      BY <1>1
    <2> HIDE DEF more
    <2> QED BY <1>2, <2>2, <2>3
  <1> HIDE DEF more
  <1>7. ASSUME NEW n \in 0..c PROVE IsPiece(b, st, j + 1, n, more[n + 1])
    <2>0. PICK o \in st..j : \E e \in o..j :
              /\ parts[n + 1] = SubSeq(b, o + 1, e) /\ Solid(b, st, j, n) = (o + 1)..e
      BY <1>3 DEF IsPiece
    <2>1. PICK e \in o..j :
              /\ parts[n + 1] = SubSeq(b, o + 1, e) /\ Solid(b, st, j, n) = (o + 1)..e
      BY <2>0
    <2>2. o \in st..(j + 1) /\ e \in o..(j + 1) /\ n # c + 1
      BY <1>1
    <2>3. more[n + 1] = SubSeq(b, o + 1, e) /\ Solid(b, st, j + 1, n) = (o + 1)..e
      BY <1>5, <1>6, <2>1
    <2> QED BY <1>1, <2>2, <2>3 DEF IsPiece
  <1>8. IsPiece(b, st, j + 1, c + 1, more[c + 1 + 1])
    <2>1. SubSeq(b, j + 1 + 1, j + 1) = <<>>
      BY SubSeqEmpty
    <2>2. Solid(b, st, j + 1, c + 1) = (j + 1 + 1)..(j + 1)
      <3>1. Solid(b, st, j, c + 1) = {}
        BY <1>1, <1>4, OpensFinite DEF Solid
      <3>2. (j + 1 + 1)..(j + 1) = {}
        OBVIOUS
      <3> QED BY <1>5, <3>1, <3>2
    <2>3. j + 1 \in st..(j + 1) /\ j + 1 \in (j + 1)..(j + 1)
      OBVIOUS
    <2> QED BY <1>6, <2>1, <2>2, <2>3 DEF IsPiece
  <1>9. \A n \in 0..(c + 1) : n \in 0..c \/ n = c + 1
    BY <1>1
  <1>10. \A n \in 0..OpensUpTo(b, st, j + 1) : IsPiece(b, st, j + 1, n, more[n + 1])
    BY <1>1, <1>7, <1>8, <1>9
  <1>11. IsSplit(b, st, j + 1, more)
    BY <1>1, <1>6, <1>10 DEF IsSplit
  <1> QED BY <1>11 DEF more

\* A separator behind another changes nothing.
LEMMA SplitSkips ==
    ASSUME NEW b \in Seq(Chars), NEW st \in Nat, NEW j \in Nat, st < j, j + 1 <= Len(b),
           b[j + 1] = Sep, b[j] = Sep, NEW parts, IsSplit(b, st, j, parts)
    PROVE  IsSplit(b, st, j + 1, parts)
  <1> DEFINE c == OpensUpTo(b, st, j)
  <1>1. c \in Nat /\ OpensUpTo(b, st, j + 1) = c
    BY OpensFinite, OpensSame
  <1>2. parts \in Seq(Seq(Chars)) /\ Len(parts) = c + 1
    BY DEF IsSplit
  <1>3. \A n \in 0..c : IsPiece(b, st, j, n, parts[n + 1])
    BY DEF IsSplit
  <1>4. \A n : Solid(b, st, j + 1, n) = Solid(b, st, j, n)
    BY SolidSame
  <1>5. \A n : j \notin Solid(b, st, j, n)
    BY DEF Solid
  <1>6. ASSUME NEW n \in 0..c PROVE IsPiece(b, st, j + 1, n, parts[n + 1])
    <2>0. PICK o \in st..j : \E e \in o..j :
              /\ parts[n + 1] = SubSeq(b, o + 1, e) /\ Solid(b, st, j, n) = (o + 1)..e
              /\ n = c => e = j
      BY <1>3 DEF IsPiece
    <2>1. PICK e \in o..j :
              /\ parts[n + 1] = SubSeq(b, o + 1, e) /\ Solid(b, st, j, n) = (o + 1)..e
              /\ n = c => e = j
      BY <2>0
    <2> HIDE DEF c
    <2>2. CASE n # c
      <3>1. o \in st..(j + 1) /\ e \in o..(j + 1)
        OBVIOUS
      <3>2. parts[n + 1] = SubSeq(b, o + 1, e) /\ Solid(b, st, j + 1, n) = (o + 1)..e
        BY <1>4, <2>1
      <3> QED BY <1>1, <2>2, <3>1, <3>2 DEF IsPiece
    <2>3. CASE n = c
      <3>1. e = j /\ o = j
        <4>1. e = j /\ j \notin (o + 1)..j
          BY <1>5, <2>1, <2>3
        <4> QED BY <4>1
      <3>2. SubSeq(b, j + 1, j) = <<>> /\ SubSeq(b, j + 1 + 1, j + 1) = <<>>
        BY SubSeqEmpty
      <3>3. (j + 1)..j = {} /\ (j + 1 + 1)..(j + 1) = {}
        OBVIOUS
      <3>4. parts[n + 1] = SubSeq(b, j + 1 + 1, j + 1)
        BY <2>1, <3>1, <3>2
      <3>5. Solid(b, st, j + 1, n) = (j + 1 + 1)..(j + 1)
        BY <1>4, <2>1, <3>1, <3>3
      <3>6. j + 1 \in st..(j + 1) /\ j + 1 \in (j + 1)..(j + 1)
        OBVIOUS
      <3> QED BY <3>4, <3>5, <3>6 DEF IsPiece
    <2> QED BY <2>2, <2>3
  <1> QED BY <1>1, <1>2, <1>6 DEF IsSplit

\* Split cuts a stretch of a text where runs of separators open.
LEMMA SplitRight ==
    ASSUME NEW b \in Seq(Chars), NEW st \in Nat, NEW en \in Nat, st <= en, en <= Len(b)
    PROVE  IsSplit(b, st, en, Split(SubSeq(b, st + 1, en)))
  <1> DEFINE s == SubSeq(b, st + 1, en)
             N == en - st
  <1>1. Len(s) = N /\ N \in Nat /\ \A x \in 1..N : s[x] = b[st + x]
    BY Window
  <1>2. PICK parts : /\ parts[0] = << <<>> >>
                     /\ \A i \in 1..N : parts[i] = SplitStep(s, i, parts[i - 1])
                     /\ Split(s) = parts[N]
    <2> HIDE DEF s, N
    <2> QED BY <1>1, SplitIs
  <1> HIDE DEF s
  <1> DEFINE Good == {i \in Nat : IsSplit(b, st, st + i, parts[i])}
  <1>3. 0 \in Good
    <2>1. IsSplit(b, st, st, << <<>> >>)
      <3>1. st <= Len(b)
        BY LenProperties
      <3> QED BY <3>1, SplitEmpty
    <2>2. st + 0 = st
      OBVIOUS
    <2> QED BY <1>2, <2>1, <2>2
  <1>4. ASSUME NEW k \in 0..(N - 1), k \in Good PROVE k + 1 \in Good
    <2> DEFINE j == st + k
    <2>1. /\ j \in Nat /\ st <= j /\ j + 1 <= Len(b) /\ j + 1 = st + (k + 1)
          /\ k + 1 \in 1..N /\ (k + 1) - 1 = k /\ k + 1 \in Nat
          /\ (k + 1 > 1 <=> j > st) /\ (k > 0 => k \in 1..N) /\ (j > st <=> k > 0)
      BY <1>1, LenProperties
    <2>2. s[k + 1] = b[j + 1]
      BY <1>1, <2>1
    <2>3. k > 0 => s[k] = b[j]
      BY <1>1, <2>1
    <2>4. IsSplit(b, st, j, parts[k])
      BY <1>4
    <2>5. parts[k + 1] = SplitStep(s, k + 1, parts[k])
      BY <1>2, <2>1
    <2>6. IsSplit(b, st, j + 1, parts[k + 1])
      <3> HIDE DEF j, Good
      <3>1. CASE b[j + 1] # Sep
        <4>1. parts[k + 1] = Joined(parts[k], b[j + 1])
          BY <2>2, <2>5, <3>1 DEF SplitStep, Joined
        <4> QED BY <2>1, <2>4, <3>1, <4>1, SplitJoins
      <3>2. CASE b[j + 1] = Sep /\ j > st /\ b[j] = Sep
        <4>1. parts[k + 1] = parts[k]
          BY <2>1, <2>2, <2>3, <2>5, <3>2 DEF SplitStep
        <4> QED BY <2>1, <2>4, <3>2, <4>1, SplitSkips
      <3>3. CASE b[j + 1] = Sep /\ (j = st \/ b[j] # Sep)
        <4>1. parts[k + 1] = Append(parts[k], <<>>)
          BY <2>1, <2>2, <2>3, <2>5, <3>3 DEF SplitStep
        <4> QED BY <2>1, <2>4, <3>3, <4>1, SplitOpens
      <3>4. j > st \/ j = st
        BY <2>1
      <3> QED BY <3>1, <3>2, <3>3, <3>4
    <2> QED BY <2>1, <2>6
  <1>5. 0..N \subseteq Good
    <2>1. Good \in SUBSET Nat
      OBVIOUS
    <2> HIDE DEF Good, N
    <2> QED BY <1>1, <1>3, <1>4, <2>1, NoFirst
  <1>6. N \in 0..N /\ st + N = en
    BY <1>1
  <1>7. IsSplit(b, st, en, parts[N])
    BY <1>5, <1>6
  <1> QED BY <1>2, <1>7 DEF s

-----------------------------------------------------------------------------
(* Fields.                                                                 *)

\* The positions behind o, up to e, of what is not trimmed.
Black(b, o, e) == {p \in (o + 1)..e : b[p] \notin {NL, Sep, Pad}}

Between(b, S) == IF S = {} THEN <<>> ELSE SubSeq(b, Min(S), Max(S))

LEMMA TrimIs ==
    ASSUME NEW b \in Seq(Chars), NEW o \in Nat, NEW e \in Nat, o <= e, e <= Len(b)
    PROVE  Trim(SubSeq(b, o + 1, e)) = Between(b, Black(b, o, e))
  <1> DEFINE w == SubSeq(b, o + 1, e)
             N == e - o
             solid == {i \in DOMAIN w : w[i] \notin {NL, Sep, Pad}}
             black == Black(b, o, e)
  <1>1. N \in Nat /\ w \in Seq(Chars) /\ DOMAIN w = 1..N /\ \A x \in 1..N : w[x] = b[o + x]
    BY Window, LenProperties
  <1>2. Trim(w) = IF solid = {} THEN <<>> ELSE SubSeq(w, Min(solid), Max(solid))
    BY DEF Trim
  <1> HIDE DEF w
  <1>3. solid \subseteq 1..N
    BY <1>1
  <1>4. ASSUME NEW i \in solid PROVE o + i \in black
    <2>1. i \in 1..N /\ w[i] \notin {NL, Sep, Pad}
      BY <1>1
    <2>2. o + i \in (o + 1)..e
      BY <2>1
    <2> QED BY <1>1, <2>1, <2>2 DEF Black
  <1>5. ASSUME NEW p \in black PROVE p - o \in solid /\ p \in Int /\ o + (p - o) = p
    <2>1. p \in (o + 1)..e /\ b[p] \notin {NL, Sep, Pad}
      BY DEF Black
    <2>2. p - o \in 1..N /\ o + (p - o) = p
      BY <2>1
    <2> QED BY <1>1, <2>1, <2>2
  <1> HIDE DEF solid, black
  <1>6. CASE solid = {}
    <2>1. black = {}
      BY <1>5, <1>6
    <2>2. Between(b, black) = <<>>
      BY <2>1 DEF Between
    <2> QED BY <1>2, <1>6, <2>2 DEF black, w
  <1>7. CASE solid # {}
    <2>1. Min(solid) \in solid /\ \A y \in solid : Min(solid) <= y
      <3>1. solid \subseteq Nat
        BY <1>3
      <3> QED BY <1>7, <3>1, MinOf
    <2>2. Max(solid) \in solid /\ \A y \in solid : Max(solid) >= y
      <3>1. solid \subseteq 0..N
        BY <1>3
      <3> QED BY <1>1, <1>7, <3>1, MaxOf
    <2> DEFINE m == Min(solid)
               k == Max(solid)
    <2> HIDE DEF m, k
    <2>3. m \in 1..N /\ k \in m..N
      <3>1. m \in 1..N /\ k \in 1..N /\ m <= k
        BY <1>3, <2>1, <2>2 DEF m, k
      <3> QED BY <3>1
    <2>4. black \subseteq Int
      BY <1>5
    <2>5. Min(black) = o + m
      <3>1. o + m \in black
        BY <1>4, <2>1 DEF m
      <3>2. ASSUME NEW p \in black PROVE o + m <= p
        <4>1. p - o \in solid /\ m <= p - o /\ p \in Int
          BY <1>5, <2>1 DEF m
        <4> QED BY <2>3, <4>1
      <3> QED BY <2>4, <3>1, <3>2, MinIs
    <2>6. Max(black) = o + k
      <3>1. o + k \in black
        BY <1>4, <2>2 DEF k
      <3>2. ASSUME NEW p \in black PROVE o + k >= p
        <4>1. p - o \in solid /\ k >= p - o /\ p \in Int
          BY <1>5, <2>2 DEF k
        <4> QED BY <2>3, <4>1
      <3> QED BY <2>4, <3>1, <3>2, MaxIs
    <2>7. SubSeq(w, m, k) = SubSeq(b, o + m, o + k)
      BY <2>3, WindowIn DEF w, N
    <2>8. black # {}
      BY <1>4, <1>7
    <2> QED BY <1>2, <1>7, <2>5, <2>6, <2>7, <2>8 DEF Between, black, m, k, w
  <1> QED BY <1>6, <1>7 DEF w

\* What getValue makes of the stretch behind st, up to en.
Read(b, st, en, n) ==
    LET parts == Split(SubSeq(b, st + 1, en))
    IN  IF Len(parts) <= n THEN Missing ELSE Trim(parts[n + 1])

\* A stretch that is a line, possibly with its end, is read as that line.
LEMMA ReadIs ==
    ASSUME NEW b \in Seq(Chars), NEW st \in Nat, NEW en \in Nat, st <= en, en <= Len(b),
           NEW k, Line(b, k) = {p \in (st + 1)..en : b[p] # NL}, Unbroken(b, st, en - 1),
           NEW n \in Nat
    PROVE  Read(b, st, en, n) = FieldOfLine(b, k, n)
  <1> DEFINE parts == Split(SubSeq(b, st + 1, en))
             c == OpensUpTo(b, st, en)
  <1>1. IsSplit(b, st, en, parts)
    BY SplitRight
  <1>2. c \in Nat /\ Len(b) \in Nat
    BY OpensFinite, LenProperties
  <1>3. NL # Sep
    BY DEF NL, Sep
  <1>4. ASSUME NEW q \in (st + 1)..en
        PROVE  q - 1 \in Line(b, k) <=> q > st + 1
    <2>1. q > st + 1 <=> q - 1 \in (st + 1)..(en - 1)
      OBVIOUS
    <2>2. q - 1 \in (st + 1)..(en - 1) => q - 1 \in (st + 1)..en /\ b[q - 1] # NL
      BY DEF Unbroken
    <2>3. q - 1 \in (st + 1)..en <=> q - 1 \in (st + 1)..(en - 1)
      OBVIOUS
    <2> QED BY <2>1, <2>2, <2>3, Zenon
  <1>5. ASSUME NEW q, NEW p \in Nat
        PROVE  q \in Runs(b, k, p) <=> q \in (st + 1)..en /\ q <= p /\ b[q] = Sep
                                       /\ (q > st + 1 => b[q - 1] # Sep)
    <2>1. q \in Line(b, k) <=> q \in (st + 1)..en /\ b[q] # NL
      BY Zenon
    <2>2. q \in Runs(b, k, p) <=> q \in Line(b, k) /\ q <= p /\ b[q] = Sep
                                  /\ (q - 1 \in Line(b, k) => b[q - 1] # Sep)
      BY Zenon DEF Runs
    <2>3. b[q] = Sep => b[q] # NL
      BY <1>3
    <2> QED BY <1>4, <2>1, <2>2, <2>3, Zenon
  <1>6. ASSUME NEW p \in st..en PROVE Cardinality(Runs(b, k, p)) = OpensUpTo(b, st, p)
    <2>1. \A q : q \in (st + 1)..p <=> q \in (st + 1)..en /\ q <= p
      OBVIOUS
    <2>2. p \in Nat
      OBVIOUS
    <2>3. \A q : q \in Opens(b, st, p) <=> q \in (st + 1)..p /\ b[q] = Sep
                                       /\ (q > st + 1 => b[q - 1] # Sep)
      BY Zenon DEF Opens
    <2>4. \A q : q \in Runs(b, k, p) <=> q \in Opens(b, st, p)
      BY <1>5, <2>1, <2>2, <2>3, Zenon
    <2>5. Runs(b, k, p) = Opens(b, st, p)
      BY <2>4, Zenon
    <2> QED BY <2>5 DEF OpensUpTo
  <1>7. Cardinality(Runs(b, k, Len(b))) = c
    <2>1. \A q : q \in (st + 1)..en <=> q \in (st + 1)..en /\ q <= Len(b)
      BY <1>2
    <2>2. \A q : q \in (st + 1)..en <=> q \in (st + 1)..en /\ q <= en
      OBVIOUS
    <2>3. \A q : q \in Runs(b, k, Len(b)) <=> q \in Runs(b, k, en)
      BY <1>2, <1>5, <2>1, <2>2, Zenon
    <2>4. Runs(b, k, Len(b)) = Runs(b, k, en)
      BY <2>3, Zenon
    <2>5. en \in st..en
      OBVIOUS
    <2> QED BY <1>6, <2>4, <2>5
  <1> DEFINE solid == {p \in Line(b, k) : b[p] \notin {Sep, Pad} /\ Cardinality(Runs(b, k, p)) = n}
  <1>8. FieldOfLine(b, k, n) = IF c < n THEN Missing ELSE Between(b, solid)
    BY <1>7, Zenon DEF FieldOfLine, Between
  <1>9. \A p : p \in solid <=> p \in Solid(b, st, en, n) /\ b[p] \notin {NL, Sep, Pad}
    <2>1. \A p \in (st + 1)..en : p \in st..en
      OBVIOUS
    <2>2. \A p : p \in Solid(b, st, en, n) <=> p \in (st + 1)..en /\ b[p] # Sep /\ OpensUpTo(b, st, p) = n
      BY Zenon DEF Solid
    <2>3. \A p : p \in solid <=> /\ p \in (st + 1)..en /\ b[p] # NL
                                 /\ b[p] \notin {Sep, Pad} /\ Cardinality(Runs(b, k, p)) = n
      BY Zenon
    <2> HIDE DEF solid
    <2> QED BY <1>6, <2>1, <2>2, <2>3, Zenon
  <1> HIDE DEF solid, c, parts
  <1>10. Read(b, st, en, n) = IF Len(parts) <= n THEN Missing ELSE Trim(parts[n + 1])
    BY DEF Read, parts
  <1>11. CASE c < n
    <2>1. Len(parts) <= n
      BY <1>1, <1>2, <1>11 DEF IsSplit, c
    <2> QED BY <1>8, <1>10, <1>11, <2>1
  <1>12. CASE ~(c < n)
    <2>1. ~(Len(parts) <= n) /\ n \in 0..c
      BY <1>1, <1>2, <1>12 DEF IsSplit, c
    <2>2. IsPiece(b, st, en, n, parts[n + 1])
      BY <1>1, <2>1 DEF IsSplit, c
    <2>3. PICK o \in st..en : \E e \in o..en :
              parts[n + 1] = SubSeq(b, o + 1, e) /\ Solid(b, st, en, n) = (o + 1)..e
      BY <2>2 DEF IsPiece
    <2>4. PICK e \in o..en :
              parts[n + 1] = SubSeq(b, o + 1, e) /\ Solid(b, st, en, n) = (o + 1)..e
      BY <2>3
    <2>5. o \in Nat /\ e \in Nat /\ o <= e /\ e <= Len(b)
      BY <1>2
    <2>6. Trim(parts[n + 1]) = Between(b, Black(b, o, e))
      BY <2>4, <2>5, TrimIs
    <2>7. \A p : p \in Black(b, o, e) <=> p \in solid
      BY <1>9, <2>4, Zenon DEF Black
    <2>8. Black(b, o, e) = solid
      BY <2>7, Zenon
    <2> QED BY <1>8, <1>10, <1>12, <2>1, <2>6, <2>8
  <1> QED BY <1>11, <1>12

\* A field of a line is a text, or missing.
LEMMA FieldTypes ==
    ASSUME NEW b \in Seq(Chars), NEW k, NEW n
    PROVE  FieldOfLine(b, k, n) \in Seq(Chars) \cup {Missing}
  <1> DEFINE solid == {p \in Line(b, k) : b[p] \notin {Sep, Pad} /\ Cardinality(Runs(b, k, p)) = n}
  <1>1. \/ FieldOfLine(b, k, n) = Missing \/ FieldOfLine(b, k, n) = <<>>
        \/ solid # {} /\ FieldOfLine(b, k, n) = SubSeq(b, Min(solid), Max(solid))
    BY Zenon DEF FieldOfLine
  <1>2. Len(b) \in Nat /\ solid \subseteq 1..Len(b)
    BY LenProperties DEF Line
  <1>3. ASSUME solid # {} PROVE SubSeq(b, Min(solid), Max(solid)) \in Seq(Chars)
    <2>1. Min(solid) \in solid
      <3>1. solid \subseteq Nat
        BY <1>2
      <3> HIDE DEF solid
      <3> QED BY <1>3, <3>1, MinOf
    <2>2. Max(solid) \in solid
      <3>1. solid \subseteq 0..Len(b)
        BY <1>2
      <3> HIDE DEF solid
      <3> QED BY <1>2, <1>3, <3>1, MaxOf
    <2> DEFINE m == Min(solid)
               e == Max(solid)
    <2>3. m \in 1..Len(b) /\ e \in 1..Len(b)
      BY <1>2, <2>1, <2>2
    <2> HIDE DEF m, e
    <2>4. \A x \in m..e : x \in 1..Len(b)
      BY <1>2, <2>3
    <2>5. \A x \in m..e : b[x] \in Chars
      BY <2>4, ElementOfSeq
    <2>6. SubSeq(b, m, e) \in Seq(Chars)
      BY <2>3, <2>5, SubSeqProperties
    <2> QED BY <2>6 DEF m, e
  <1>4. <<>> \in Seq(Chars)
    BY EmptySeq
  <1> QED BY <1>1, <1>3, <1>4

\* getValue reads the field of the line a match begins in, unless that is empty.
LEMMA GetValueIs ==
    ASSUME NEW b \in Seq(Chars), NEW i \in 0..Len(b), NEW n \in Nat
    PROVE  /\ ~InEmptyLine(b, i) => GetValue(b, i, n) = FieldOfMatch(b, i, n)
           /\ GetValue(b, i, n) \in Seq(Chars) \cup {Missing, Panic}
  <1> DEFINE en == EndOfLine(b, i)
             st == StartOfLine(b, en - 1)
             k == LineOf(b, i)
  <1>1. Len(b) \in Nat /\ en \in i..Len(b) /\ Unbroken(b, i, en) /\ Stops(b, en)
    BY LenProperties, EndOfLineIs
  <1>2. GetValue(b, i, n) = IF en = 0 THEN Panic ELSE Read(b, st, en, n)
    <2>1. ~(n < 0)
      OBVIOUS
    <2> QED BY <2>1, Zenon DEF GetValue, Read
  <1>3. LineOf(b, en) = k
    BY <1>1, LineOfSame
  <1>4. ASSUME en # 0
        PROVE  st \in 0..(en - 1) /\ Begins(b, st) /\ Unbroken(b, st, en - 1)
    <2>1. en - 1 \in Nat
      BY <1>1, <1>4
    <2> QED BY <2>1, StartOfLineIs
  <1> HIDE DEF en, st
  <1>5. CASE en = 0
    <2>1. i = 0 /\ k = 0
      <3>1. i = 0 /\ Ends(b, 0) = {} /\ 0 \in Nat
        BY <1>1, <1>5 DEF Ends
      <3> QED BY <3>1, EndsFinite, FS_EmptySet
    <2>2. IsLine(b, 0, 0)
      BY <1>1, <1>5 DEF IsLine, Begins, Unbroken
    <2>3. Line(b, k) = (0 + 1)..0
      BY <2>1, <2>2, LineIs
    <2>4. Line(b, k) = {}
      BY <2>3
    <2> QED BY <1>2, <1>5, <2>4 DEF InEmptyLine
  <1>6. CASE en # 0 /\ b[en] # NL
    <2>1. Unbroken(b, st, en)
      <3>1. \A p \in (st + 1)..en : p \in (st + 1)..(en - 1) \/ p = en
        BY <1>1, <1>4, <1>6
      <3> QED BY <1>4, <1>6, <3>1 DEF Unbroken
    <2>2. st \in Nat /\ en \in Nat /\ st <= en /\ en <= Len(b) /\ st + 1 \in 1..en /\ en \in (st + 1)..en
      BY <1>1, <1>4, <1>6
    <2>3. IsLine(b, st, en)
      BY <1>1, <1>4, <1>6, <2>1, <2>2 DEF IsLine
    <2>4. LineOf(b, st) = k
      BY <1>3, <2>1, <2>2, LineOfSame
    <2>5. Line(b, k) = (st + 1)..en
      BY <2>3, <2>4, LineIs
    <2>6. Line(b, k) = {p \in (st + 1)..en : b[p] # NL} /\ Line(b, k) # {}
      BY <2>1, <2>2, <2>5 DEF Unbroken
    <2>7. Read(b, st, en, n) = FieldOfLine(b, k, n)
      BY <1>4, <1>6, <2>2, <2>6, ReadIs
    <2>8. GetValue(b, i, n) = FieldOfMatch(b, i, n)
      BY <1>2, <1>6, <2>7 DEF FieldOfMatch
    <2> QED BY <2>8, FieldTypes DEF FieldOfMatch
  <1>7. CASE en # 0 /\ b[en] = NL
    <2>1. i = en
      <3>1. en \in (i + 1)..en => b[en] # NL
        BY <1>1 DEF Unbroken
      <3> QED BY <1>1, <1>7, <3>1
    <2>2. /\ st \in Nat /\ en \in Nat \ {0} /\ en - 1 \in Nat /\ st <= en - 1 /\ st <= en
          /\ en <= Len(b) /\ en - 1 <= Len(b) /\ en - 1 + 1 = en
      BY <1>1, <1>4, <1>7
    <2>3. IsLine(b, en, en)
      <3>1. Unbroken(b, en, en)
        <4>1. (en + 1)..en = {}
          BY <2>2
        <4> QED BY <4>1 DEF Unbroken
      <3> QED BY <1>1, <1>7, <2>2, <3>1 DEF IsLine, Begins
    <2>4. Line(b, k) = {}
      <3>1. (en + 1)..en = {}
        BY <2>2
      <3> QED BY <1>3, <2>3, <3>1, LineIs
    <2>5. IsLine(b, st, en - 1)
      BY <1>4, <1>7, <2>2 DEF IsLine, Stops
    <2>6. LineOf(b, st) = LineOf(b, en - 1) /\ k = LineOf(b, en - 1) + 1 /\ LineOf(b, en - 1) \in Nat
      BY <1>3, <1>4, <1>7, <2>2, LineOfSame, LineOfEnd, EndsFinite
    <2>7. k > 0 /\ k - 1 = LineOf(b, st)
      BY <2>6
    <2>8. Line(b, k - 1) = (st + 1)..(en - 1)
      BY <2>5, <2>7, LineIs
    <2>9. (st + 1)..(en - 1) = {p \in (st + 1)..en : b[p] # NL}
      <3>1. \A p \in (st + 1)..en : p \in (st + 1)..(en - 1) \/ p = en
        BY <2>2
      <3>2. \A p \in (st + 1)..(en - 1) : p \in (st + 1)..en /\ b[p] # NL
        BY <1>4, <1>7, <2>2 DEF Unbroken
      <3> QED BY <1>7, <3>1, <3>2
    <2>10. Read(b, st, en, n) = FieldOfLine(b, k - 1, n)
      BY <1>4, <1>7, <2>2, <2>8, <2>9, ReadIs
    <2>11. GetValue(b, i, n) = FieldOfLine(b, k - 1, n)
      BY <1>2, <1>7, <2>10
    <2> QED BY <2>4, <2>11, FieldTypes DEF InEmptyLine
  <1> QED BY <1>5, <1>6, <1>7

-----------------------------------------------------------------------------
(* Values.                                                                 *)

\* No text reads like the answers that are not values.
LEMMA NoValues ==
    /\ Missing \notin Seq(Chars) /\ Panic \notin Seq(Chars) /\ Nil \notin Seq(Chars)
    /\ Missing # Panic
  <1>1. ASSUME NEW x, <<x>> \in Seq(Chars) PROVE x \in Chars
    <2>1. Len(<<x>>) = 1 /\ <<x>>[1] = x
      OBVIOUS
    <2>2. 1 \in 1..Len(<<x>>)
      BY <2>1
    <2> QED BY <1>1, <2>1, <2>2, ElementOfSeq
  <1>2. "missing" \notin Chars /\ "panic" \notin Chars /\ "nil" \notin Chars
    BY CharsAssumption
  <1>3. Missing # Panic
    <2>1. <<"missing">>[1] # <<"panic">>[1]
      OBVIOUS
    <2> QED BY <2>1, Zenon DEF Missing, Panic
  <1>4. Missing \notin Seq(Chars)
    BY <1>1, <1>2, Zenon DEF Missing
  <1>5. Panic \notin Seq(Chars)
    BY <1>1, <1>2, Zenon DEF Panic
  <1>6. Nil \notin Seq(Chars)
    BY <1>1, <1>2, Zenon DEF Nil
  <1> QED BY <1>3, <1>4, <1>5, <1>6

\* What getValue answers, whatever the number of the field.
LEMMA ValueTypes ==
    ASSUME NEW b \in Seq(Chars), NEW i \in 0..Len(b), NEW n \in Int
    PROVE  GetValue(b, i, n) \in Seq(Chars) \cup {Missing, Panic}
  <1>1. CASE n < 0
    <2>1. GetValue(b, i, n) \in {Missing, Panic}
      BY <1>1, Zenon DEF GetValue
    <2> QED BY <2>1
  <1>2. CASE ~(n < 0)
    <2>1. n \in Nat
      BY <1>2
    <2> QED BY <2>1, GetValueIs
  <1> QED BY <1>1, <1>2

LEMMA MatchTypes ==
    ASSUME NEW b \in Seq(Chars), NEW i, NEW n
    PROVE  FieldOfMatch(b, i, n) \in Seq(Chars) \cup {Missing}
  BY FieldTypes DEF FieldOfMatch

-----------------------------------------------------------------------------
(* Types.                                                                  *)

\* The bounds of the loop over the matches.
FirstOf(t)      == IF t.occurrence = 0 THEN 1 ELSE t.occurrence
LastOf(t, hits) == IF t.occurrence = 0 THEN Len(hits) ELSE t.occurrence

\* A result is looked into: test t, at the place l, with output now.
Reached(t, l, now) ==
    /\ l.result \in DOMAIN now /\ t.pattern /\ t.fields # <<>>
    /\ now[l.result].hits # <<>>
    /\ ~\E want \in t.occurrences : want # Len(now[l.result].hits)
    /\ 0 <= t.occurrence /\ t.occurrence <= Len(now[l.result].hits)
    /\ FirstOf(t) <= l.match /\ l.match <= LastOf(t, now[l.result].hits)
    /\ l.field \in DOMAIN t.fields

\* Where a router is: between iterations, in one, or at the end.
Placed(p, l, outs, vs) ==
    /\ l.pc \in {"match", "store", "check"} => Len(outs) = Len(vs) + 1 /\ Len(vs) < p.times
    /\ l.pc \in {"idle", "failed", "panicked"} => Len(outs) = Len(vs)
    /\ l.pc = "match" => /\ l.match = 1 /\ l.field = 1 /\ l.perField = 0 /\ l.perOccurrence = 0
    /\ l.pc \in {"store", "check"} => Reached(p.test, l, outs[Len(outs)])

Local == [pc: {"idle", "match", "store", "check", "failed", "panicked"},
          result: Nat \ {0}, match: Nat \ {0}, field: Nat \ {0},
          perField: Nat, perOccurrence: Nat]

TypeInv == TypeOK /\ \A r \in Routers : Placed(plan, run[r], printed[r], verdicts[r])

LEMMA PlanTypes ==
    ASSUME TypeOK
    PROVE  /\ IsPlan(plan) /\ plan.times \in Nat /\ plan.outputs # {}
           /\ test \in Test /\ test.fields \in Seq(Field) /\ test.occurrence \in Int
           /\ test.pattern \in BOOLEAN /\ test.checkAll \in BOOLEAN
           /\ test.occurrences \subseteq Int
           /\ \A out \in plan.outputs : out \in Seq(CmdResult)
  <1>1. /\ IsPlan(plan) /\ plan.times \in Nat /\ plan.outputs # {} /\ test \in Test
        /\ plan.outputs \subseteq Seq(CmdResult)
    BY DEF TypeOK, IsPlan, test
  <1> QED BY <1>1 DEF Test

\* What a router reads and looks for, where it is.
LEMMA ReachedTypes ==
    ASSUME NEW t \in Test, NEW l \in Local, NEW now \in Seq(CmdResult), Reached(t, l, now)
    PROVE  /\ l.result \in 1..Len(now) /\ l.field \in 1..Len(t.fields)
           /\ now[l.result].text \in Seq(Chars) /\ now[l.result].hits \in Seq(Nat)
           /\ Len(now[l.result].hits) \in Nat /\ t.occurrence \in Nat /\ Len(t.fields) \in Nat
           /\ FirstOf(t) \in Nat \ {0} /\ LastOf(t, now[l.result].hits) \in Nat
           /\ LastOf(t, now[l.result].hits) <= Len(now[l.result].hits)
           /\ l.match \in 1..Len(now[l.result].hits)
           /\ now[l.result].hits[l.match] \in 0..Len(now[l.result].text)
           /\ t.fields[l.field] \in Field /\ t.fields[l.field].number \in Int
  <1> DEFINE c == now[l.result]
  <1>1. /\ t.fields \in Seq(Field) /\ Len(t.fields) \in Nat /\ DOMAIN t.fields = 1..Len(t.fields)
        /\ t.occurrence \in Nat
    BY LenProperties DEF Test, Reached
  <1>2. l.field \in 1..Len(t.fields) /\ t.fields[l.field] \in Field
    BY <1>1, ElementOfSeq DEF Reached
  <1>3. l.result \in 1..Len(now) /\ c \in CmdResult
    BY LenProperties, ElementOfSeq DEF Reached
  <1>4. /\ c.text \in Seq(Chars) /\ c.hits \in Seq(Nat)
        /\ \A m \in DOMAIN c.hits : c.hits[m] <= Len(c.text)
    BY <1>3 DEF CmdResult
  <1> HIDE DEF c
  <1>5. Len(c.hits) \in Nat /\ DOMAIN c.hits = 1..Len(c.hits) /\ Len(c.text) \in Nat
    BY <1>4, LenProperties
  <1>6. /\ t.occurrence <= Len(c.hits) /\ FirstOf(t) <= l.match /\ l.match <= LastOf(t, c.hits)
    BY DEF Reached, c
  <1>7. FirstOf(t) \in Nat \ {0} /\ LastOf(t, c.hits) \in Nat /\ LastOf(t, c.hits) <= Len(c.hits)
    BY <1>1, <1>5, <1>6 DEF FirstOf, LastOf
  <1>8. l.match \in Nat
    BY DEF Local
  <1>9. l.match \in 1..Len(c.hits)
    BY <1>5, <1>6, <1>7, <1>8
  <1>10. c.hits[l.match] \in 0..Len(c.text)
    <2>1. c.hits[l.match] \in Nat
      BY <1>4, <1>9, ElementOfSeq
    <2> QED BY <1>4, <1>5, <1>9, <2>1
  <1>11. t.fields[l.field].number \in Int
    BY <1>2 DEF Field
  <1> QED BY <1>1, <1>2, <1>3, <1>4, <1>5, <1>7, <1>9, <1>10, <1>11 DEF c

\* The output a router is at.
LEMMA OutputTypes ==
    ASSUME TypeInv, NEW r \in Routers, run[r].pc \in {"match", "store", "check"}
    PROVE  Results(r) \in Seq(CmdResult) /\ run[r] \in Local /\ Len(printed[r]) = Iteration(r) + 1
           /\ Iteration(r) \in 0..(plan.times - 1)
  <1>1. printed[r] \in Seq(plan.outputs) /\ verdicts[r] \in Seq({"quiet", "fire", "error", "panic"})
    BY DEF TypeInv, TypeOK
  <1>2. Len(printed[r]) = Iteration(r) + 1 /\ Iteration(r) < plan.times
    BY DEF TypeInv, Placed, Iteration
  <1>3. Iteration(r) \in Nat
    BY <1>1, LenProperties DEF Iteration
  <1>4. Len(printed[r]) \in 1..Len(printed[r])
    BY <1>2, <1>3
  <1>5. Results(r) \in plan.outputs
    BY <1>1, <1>4, ElementOfSeq DEF Results
  <1>6. Results(r) \in Seq(CmdResult) /\ plan.times \in Nat
    BY <1>5, PlanTypes DEF TypeInv
  <1>7. run[r] \in Local
    BY DEF TypeInv, TypeOK, Local
  <1>8. Iteration(r) \in 0..(plan.times - 1)
    BY <1>2, <1>3, <1>6
  <1> QED BY <1>2, <1>6, <1>7, <1>8

\* What is stored is the field of the line, or no value.
LEMMA ValueIs ==
    ASSUME TypeInv, NEW r \in Routers, run[r].pc \in {"store", "check"}
    PROVE  /\ Reached(test, run[r], Results(r))
           /\ (FieldOf(r).number >= 0 /\ ~InEmptyLine(Result(r).text, Hit(r))) =>
                 Value(r) = FieldOfMatch(Result(r).text, Hit(r), FieldOf(r).number)
           /\ Value(r) \in Seq(Chars) \cup {Missing, Panic}
           /\ FieldOf(r).number \in Int
  <1>1. Results(r) \in Seq(CmdResult) /\ run[r] \in Local /\ test \in Test
    BY OutputTypes, PlanTypes DEF TypeInv
  <1>2. Reached(test, run[r], Results(r))
    BY DEF TypeInv, Placed, Results, test
  <1>3. /\ Result(r).text \in Seq(Chars) /\ Hit(r) \in 0..Len(Result(r).text)
        /\ FieldOf(r).number \in Int
    BY <1>1, <1>2, ReachedTypes DEF Result, Matches, FieldOf, Hit
  <1>4. ASSUME FieldOf(r).number >= 0, ~InEmptyLine(Result(r).text, Hit(r))
        PROVE  Value(r) = FieldOfMatch(Result(r).text, Hit(r), FieldOf(r).number)
    <2>1. FieldOf(r).number \in Nat
      BY <1>3, <1>4
    <2> QED BY <1>3, <1>4, <2>1, GetValueIs DEF Value
  <1>5. Value(r) \in Seq(Chars) \cup {Missing, Panic}
    BY <1>3, ValueTypes DEF Value
  <1> QED BY <1>2, <1>3, <1>4, <1>5

-----------------------------------------------------------------------------
(* Steps.                                                                  *)

Verdicts == {"quiet", "fire", "error", "panic"}

\* The place of a router that has answered v, and at the start of a result.
After(v) == [Idle EXCEPT !.pc = CASE v = "error" -> "failed"
                                  [] v = "panic" -> "panicked"
                                  [] OTHER -> "idle"]
AtResult(k) == [Idle EXCEPT !.pc = "match", !.result = k]

\* A router goes to l; what it has printed and answered becomes outs and vs.
Turn(r, l, outs, vs) ==
    /\ plan' = plan
    /\ run' = [run EXCEPT ![r] = l]
    /\ printed' = [printed EXCEPT ![r] = outs]
    /\ verdicts' = [verdicts EXCEPT ![r] = vs]

LEMMA AtResultIs ==
    ASSUME NEW k
    PROVE  AtResult(k) = [pc |-> "match", result |-> k, match |-> 1, field |-> 1,
                          perField |-> 0, perOccurrence |-> 0]
  <1>1. AtResult(k) = [[Idle EXCEPT !.pc = "match"] EXCEPT !.result = k]
    BY DEF AtResult
  <1>2. [Idle EXCEPT !.pc = "match"] =
            [pc |-> "match", result |-> 1, match |-> 1, field |-> 1,
             perField |-> 0, perOccurrence |-> 0]
    BY DEF Idle
  <1> QED BY <1>1, <1>2

LEMMA Places ==
    /\ \A v \in Verdicts :
         /\ After(v) \in Local
         /\ After(v).pc = IF v = "error" THEN "failed" ELSE IF v = "panic" THEN "panicked" ELSE "idle"
    /\ \A k \in Nat \ {0} :
         /\ AtResult(k) \in Local /\ AtResult(k).pc = "match" /\ AtResult(k).result = k
         /\ AtResult(k).match = 1 /\ AtResult(k).field = 1
         /\ AtResult(k).perField = 0 /\ AtResult(k).perOccurrence = 0
  <1>1. ASSUME NEW v \in Verdicts
        PROVE  /\ After(v) \in Local
               /\ After(v).pc = IF v = "error" THEN "failed" ELSE IF v = "panic" THEN "panicked" ELSE "idle"
    <2>1. CASE v = "error"
      BY <2>1 DEF After, Idle, Local
    <2>2. CASE v = "panic"
      BY <2>2 DEF After, Idle, Local
    <2>3. CASE v \in {"quiet", "fire"}
      BY <2>3 DEF After, Idle, Local
    <2> QED BY <2>1, <2>2, <2>3 DEF Verdicts
  <1>2. ASSUME NEW k \in Nat \ {0}
        PROVE  /\ AtResult(k) \in Local /\ AtResult(k).pc = "match" /\ AtResult(k).result = k
               /\ AtResult(k).match = 1 /\ AtResult(k).field = 1
               /\ AtResult(k).perField = 0 /\ AtResult(k).perOccurrence = 0
    <2>1. AtResult(k) = [pc |-> "match", result |-> k, match |-> 1, field |-> 1,
                         perField |-> 0, perOccurrence |-> 0]
      BY AtResultIs
    <2> QED BY <2>1 DEF Local
  <1> QED BY <1>1, <1>2

LEMMA Same ==
    ASSUME TypeOK, NEW r \in Routers
    PROVE  /\ run = [run EXCEPT ![r] = run[r]] /\ printed = [printed EXCEPT ![r] = printed[r]]
           /\ verdicts = [verdicts EXCEPT ![r] = verdicts[r]]
  BY DEF TypeOK

LEMMA BeginIs ==
    ASSUME TypeOK, NEW r \in Routers, Begin(r)
    PROVE  /\ store' = store /\ run[r].pc = "idle" /\ Iteration(r) < plan.times
           /\ \E out \in plan.outputs :
                 Turn(r, AtResult(1), Append(printed[r], out), verdicts[r])
  <1>1. PICK out \in plan.outputs : printed' = [printed EXCEPT ![r] = Append(@, out)]
    BY DEF Begin
  <1>2. printed' = [printed EXCEPT ![r] = Append(printed[r], out)]
    BY <1>1 DEF TypeOK
  <1>3. run' = [run EXCEPT ![r] = AtResult(1)]
    <2>1. AtResult(1) = [Idle EXCEPT !.pc = "match"]
      <3>1. [Idle EXCEPT !.pc = "match"] =
                [pc |-> "match", result |-> 1, match |-> 1, field |-> 1,
                 perField |-> 0, perOccurrence |-> 0]
        BY DEF Idle
      <3> QED BY <3>1, AtResultIs
    <2> QED BY <2>1 DEF Begin, Goto
  <1>4. plan' = plan /\ store' = store /\ verdicts' = [verdicts EXCEPT ![r] = verdicts[r]]
    BY Same DEF Begin
  <1>5. Turn(r, AtResult(1), Append(printed[r], out), verdicts[r])
    BY <1>2, <1>3, <1>4 DEF Turn
  <1> QED BY <1>4, <1>5 DEF Begin

LEMMA ReturnIs ==
    ASSUME TypeOK, NEW r \in Routers, NEW v, Return(r, v), plan' = plan, printed' = printed
    PROVE  Turn(r, After(v), printed[r], Append(verdicts[r], v))
  <1>1. verdicts' = [verdicts EXCEPT ![r] = Append(verdicts[r], v)]
    BY DEF Return, TypeOK
  <1>2. run' = [run EXCEPT ![r] = After(v)]
    BY DEF Return, Goto, After
  <1> QED BY <1>1, <1>2, Same DEF Turn

LEMMA GotoIs ==
    ASSUME TypeOK, NEW r \in Routers, NEW l, Goto(r, l), UNCHANGED <<plan, printed, verdicts>>
    PROVE  Turn(r, l, printed[r], verdicts[r])
  BY Same DEF Goto, Turn

LEMMA NoMoreResultsIs ==
    ASSUME TypeOK, NEW r \in Routers, NoMoreResults(r)
    PROVE  /\ store' = store /\ run[r].pc = "match" /\ run[r].result > Len(Results(r))
           /\ Turn(r, After("quiet"), printed[r], Append(verdicts[r], "quiet"))
  BY ReturnIs DEF NoMoreResults

\* What FindMatches makes of a result.
Found(t, hits, v) ==
    \/ v = "next" /\ (hits = <<>> \/ ~t.pattern)
    \/ /\ hits # <<>> /\ t.pattern
       /\ \/ v = "fire" /\ \E want \in t.occurrences : want # Len(hits)
          \/ /\ ~\E want \in t.occurrences : want # Len(hits)
             /\ \/ v = "quiet" /\ Len(hits) < t.occurrence
                \/ /\ ~(Len(hits) < t.occurrence)
                   /\ \/ v = "fire" /\ t.fields = <<>>
                      \/ v = "panic" /\ t.fields # <<>> /\ t.occurrence < 0
                      \/ v = "read" /\ t.fields # <<>> /\ ~(t.occurrence < 0)

AtFirst(l, t) == [l EXCEPT !.pc = "store", !.match = FirstOf(t)]

LEMMA FindMatchesIs ==
    ASSUME TypeInv, NEW r \in Routers, FindMatches(r)
    PROVE  /\ store' = store /\ run[r].pc = "match" /\ run[r].result <= Len(Results(r))
           /\ \E v \in {"next", "fire", "quiet", "panic", "read"} :
                /\ Found(test, Matches(r), v)
                /\ v = "next" => Turn(r, AtResult(run[r].result + 1), printed[r], verdicts[r])
                /\ v = "read" => Turn(r, AtFirst(run[r], test), printed[r], verdicts[r])
                /\ v \in {"fire", "quiet", "panic"} =>
                      Turn(r, After(v), printed[r], Append(verdicts[r], v))
  <1> DEFINE hits == Matches(r)
  <1>0. TypeOK /\ run[r].pc = "match" /\ run[r].result <= Len(Results(r))
        /\ plan' = plan /\ store' = store /\ printed' = printed
    BY DEF FindMatches, TypeInv
  <1>1. (Len(hits) = 0 <=> hits = <<>>) /\ Len(hits) \in Nat
    <2>1. run[r].result \in 1..Len(Results(r)) /\ Results(r) \in Seq(CmdResult)
      <3>1. Results(r) \in Seq(CmdResult) /\ run[r] \in Local
        BY <1>0, OutputTypes
      <3> QED BY <1>0, <3>1, LenProperties DEF Local
    <2>2. Results(r)[run[r].result] \in CmdResult
      BY <2>1, ElementOfSeq
    <2>3. hits \in Seq(Nat)
      BY <2>2 DEF CmdResult, Matches, Result
    <2> HIDE DEF hits
    <2> QED BY <2>3, EmptySeq, LenProperties
  <1>2. CASE (Len(hits) = 0 \/ ~test.pattern) /\ Goto(r, NextResult(r)) /\ UNCHANGED verdicts
    <2>1. NextResult(r) = AtResult(run[r].result + 1)
      BY DEF NextResult, AtResult
    <2>2. Turn(r, AtResult(run[r].result + 1), printed[r], verdicts[r])
      BY <1>0, <1>2, <2>1, GotoIs
    <2>3. Found(test, hits, "next")
      BY <1>1, <1>2 DEF Found
    <2> QED BY <1>0, <2>2, <2>3
  <1>3. CASE Len(hits) > 0 /\ test.pattern /\ (\E want \in test.occurrences : want # Len(hits))
             /\ Return(r, "fire")
    <2>1. Turn(r, After("fire"), printed[r], Append(verdicts[r], "fire"))
      BY <1>0, <1>3, ReturnIs
    <2>2. Found(test, hits, "fire")
      BY <1>1, <1>3 DEF Found
    <2> QED BY <1>0, <2>1, <2>2
  <1>4. CASE Len(hits) > 0 /\ test.pattern /\ ~(\E want \in test.occurrences : want # Len(hits))
             /\ Len(hits) < test.occurrence /\ Return(r, "quiet")
    <2>1. Turn(r, After("quiet"), printed[r], Append(verdicts[r], "quiet"))
      BY <1>0, <1>4, ReturnIs
    <2>2. Found(test, hits, "quiet")
      BY <1>1, <1>4 DEF Found
    <2> QED BY <1>0, <2>1, <2>2
  <1>5. CASE Len(hits) > 0 /\ test.pattern /\ ~(\E want \in test.occurrences : want # Len(hits))
             /\ ~(Len(hits) < test.occurrence) /\ test.fields = <<>> /\ Return(r, "fire")
    <2>1. Turn(r, After("fire"), printed[r], Append(verdicts[r], "fire"))
      BY <1>0, <1>5, ReturnIs
    <2>2. Found(test, hits, "fire")
      BY <1>1, <1>5 DEF Found
    <2> QED BY <1>0, <2>1, <2>2
  <1>6. CASE Len(hits) > 0 /\ test.pattern /\ ~(\E want \in test.occurrences : want # Len(hits))
             /\ ~(Len(hits) < test.occurrence) /\ test.fields # <<>> /\ ~(test.occurrence < 0)
             /\ Goto(r, [run[r] EXCEPT !.pc = "store", !.match = FirstMatch]) /\ UNCHANGED verdicts
    <2>1. [run[r] EXCEPT !.pc = "store", !.match = FirstMatch] = AtFirst(run[r], test)
      BY DEF AtFirst, FirstMatch, FirstOf
    <2>2. Turn(r, AtFirst(run[r], test), printed[r], verdicts[r])
      BY <1>0, <1>6, <2>1, GotoIs
    <2>3. Found(test, hits, "read")
      BY <1>1, <1>6 DEF Found
    <2> QED BY <1>0, <2>2, <2>3
  <1>7. CASE Len(hits) > 0 /\ test.pattern /\ ~(\E want \in test.occurrences : want # Len(hits))
             /\ ~(Len(hits) < test.occurrence) /\ test.fields # <<>> /\ test.occurrence < 0
             /\ Return(r, "panic")
    <2>1. Turn(r, After("panic"), printed[r], Append(verdicts[r], "panic"))
      BY <1>0, <1>7, ReturnIs
    <2>2. Found(test, hits, "panic")
      BY <1>1, <1>7 DEF Found
    <2> QED BY <1>0, <2>1, <2>2
  <1> QED BY <1>2, <1>3, <1>4, <1>5, <1>6, <1>7, Zenon DEF FindMatches

LEMMA StoreValueIs ==
    ASSUME TypeInv, NEW r \in Routers, StoreValue(r)
    PROVE  /\ run[r].pc = "store"
           /\ Value(r) = Missing => /\ store' = store
                                    /\ Turn(r, After("error"), printed[r], Append(verdicts[r], "error"))
           /\ Value(r) = Panic => /\ store' = store
                                  /\ Turn(r, After("panic"), printed[r], Append(verdicts[r], "panic"))
           /\ Value(r) \notin {Missing, Panic} =>
                 /\ store' = [store EXCEPT ![Iteration(r)] =
                                 [number |-> FieldOf(r).number, value |-> Value(r)]]
                 /\ Turn(r, [run[r] EXCEPT !.pc = "check"], printed[r], verdicts[r])
  <1>0. TypeOK /\ run[r].pc = "store" /\ plan' = plan /\ printed' = printed
    BY DEF StoreValue, TypeInv
  <1>1. CASE Value(r) = Missing
    <2>1. Return(r, "error") /\ store' = store
      BY <1>1 DEF StoreValue
    <2>2. Value(r) # Panic
      BY <1>1, NoValues
    <2> QED BY <1>0, <1>1, <2>1, <2>2, ReturnIs
  <1>2. CASE Value(r) = Panic
    <2>1. Value(r) # Missing
      BY <1>2, NoValues
    <2>2. Return(r, "panic") /\ store' = store
      BY <1>2, <2>1 DEF StoreValue
    <2> QED BY <1>0, <1>2, <2>1, <2>2, ReturnIs
  <1>3. CASE Value(r) \notin {Missing, Panic}
    <2>1. /\ store' = [store EXCEPT ![Iteration(r)] =
                          [number |-> FieldOf(r).number, value |-> Value(r)]]
          /\ Goto(r, [run[r] EXCEPT !.pc = "check"]) /\ verdicts' = verdicts
      BY <1>3 DEF StoreValue
    <2>2. Turn(r, [run[r] EXCEPT !.pc = "check"], printed[r], verdicts[r])
      BY <1>0, <2>1, GotoIs
    <2> QED BY <1>0, <1>3, <2>1, <2>2
  <1> QED BY <1>1, <1>2, <1>3

\* The counts after a call of check, and the places it leads to.
FieldCount(l, check) == l.perField + IF check THEN 1 ELSE 0
MatchCount(t, l, check) ==
    l.perOccurrence +
      IF (IF t.checkAll THEN FieldCount(l, check) = Len(t.fields) ELSE FieldCount(l, check) > 0)
      THEN 1 ELSE 0
ResultFires(t, hits, count) == IF t.checkAll THEN count = Len(hits) ELSE count > 0

NextField(l, check) ==
    [l EXCEPT !.pc = "store", !.field = @ + 1, !.perField = FieldCount(l, check)]
NextMatch(t, l, check) ==
    [l EXCEPT !.pc = "store", !.field = 1, !.perField = 0, !.match = @ + 1,
              !.perOccurrence = MatchCount(t, l, check)]

LEMMA CheckFieldIs ==
    ASSUME TypeInv, NEW r \in Routers, CheckField(r)
    PROVE  /\ store' = store /\ run[r].pc = "check"
           /\ \/ /\ CheckFails(r)
                 /\ Turn(r, After("error"), printed[r], Append(verdicts[r], "error"))
              \/ /\ ~CheckFails(r) /\ run[r].field < Len(test.fields)
                 /\ Turn(r, NextField(run[r], Check(r)), printed[r], verdicts[r])
              \/ /\ ~CheckFails(r)
                 /\ ~(run[r].field < Len(test.fields)) /\ run[r].match < LastOf(test, Matches(r))
                 /\ Turn(r, NextMatch(test, run[r], Check(r)), printed[r], verdicts[r])
              \/ /\ ~CheckFails(r)
                 /\ ~(run[r].field < Len(test.fields)) /\ ~(run[r].match < LastOf(test, Matches(r)))
                 /\ IF ResultFires(test, Matches(r), MatchCount(test, run[r], Check(r)))
                    THEN Turn(r, After("fire"), printed[r], Append(verdicts[r], "fire"))
                    ELSE Turn(r, AtResult(run[r].result + 1), printed[r], verdicts[r])
  <1> DEFINE l == run[r]
             pf == FieldCount(l, Check(r))
             po == MatchCount(test, l, Check(r))
  <1>0. TypeOK /\ run[r].pc = "check" /\ plan' = plan /\ printed' = printed /\ store' = store
    BY DEF CheckField, TypeInv
  <1>1. IF CheckFails(r) THEN Return(r, "error")
        ELSE IF l.field < Len(test.fields)
        THEN /\ Goto(r, [l EXCEPT !.pc = "store", !.field = @ + 1, !.perField = pf])
             /\ UNCHANGED verdicts
        ELSE IF l.match < LastMatch(r)
        THEN /\ Goto(r, [l EXCEPT !.pc = "store", !.field = 1, !.perField = 0,
                                  !.match = @ + 1, !.perOccurrence = po])
             /\ UNCHANGED verdicts
        ELSE IF TestFires(r, po) THEN Return(r, "fire")
        ELSE Goto(r, NextResult(r)) /\ UNCHANGED verdicts
    BY Zenon DEF CheckField, FieldCount, MatchCount, MatchFires
  <1>2. /\ [l EXCEPT !.pc = "store", !.field = @ + 1, !.perField = pf] = NextField(l, Check(r))
        /\ [l EXCEPT !.pc = "store", !.field = 1, !.perField = 0, !.match = @ + 1,
                     !.perOccurrence = po] = NextMatch(test, l, Check(r))
        /\ NextResult(r) = AtResult(l.result + 1)
        /\ LastMatch(r) = LastOf(test, Matches(r))
        /\ TestFires(r, po) = ResultFires(test, Matches(r), po)
    BY Zenon DEF NextField, NextMatch, NextResult, AtResult, LastMatch, LastOf, TestFires, ResultFires
  <1> HIDE DEF l, pf, po
  <1>6. CASE CheckFails(r)
    <2>1. Turn(r, After("error"), printed[r], Append(verdicts[r], "error"))
      BY <1>0, <1>1, <1>6, ReturnIs
    <2> QED BY <1>0, <1>6, <2>1
  <1>3. CASE ~CheckFails(r) /\ l.field < Len(test.fields)
    <2>1. Turn(r, NextField(l, Check(r)), printed[r], verdicts[r])
      BY <1>0, <1>1, <1>2, <1>3, GotoIs
    <2> QED BY <1>0, <1>3, <2>1 DEF l
  <1>4. CASE ~CheckFails(r) /\ ~(l.field < Len(test.fields)) /\ l.match < LastOf(test, Matches(r))
    <2>1. Turn(r, NextMatch(test, l, Check(r)), printed[r], verdicts[r])
      BY <1>0, <1>1, <1>2, <1>4, GotoIs
    <2> QED BY <1>0, <1>4, <2>1 DEF l
  <1>5. CASE ~CheckFails(r) /\ ~(l.field < Len(test.fields)) /\ ~(l.match < LastOf(test, Matches(r)))
    <2>1. CASE ResultFires(test, Matches(r), po)
      <3>1. Turn(r, After("fire"), printed[r], Append(verdicts[r], "fire"))
        BY <1>0, <1>1, <1>2, <1>5, <2>1, ReturnIs
      <3> QED BY <1>0, <1>5, <2>1, <3>1 DEF l, po
    <2>2. CASE ~ResultFires(test, Matches(r), po)
      <3>1. Turn(r, AtResult(l.result + 1), printed[r], verdicts[r])
        BY <1>0, <1>1, <1>2, <1>5, <2>2, GotoIs
      <3> QED BY <1>0, <1>5, <2>2, <3>1 DEF l, po
    <2> QED BY <2>1, <2>2
  <1> QED BY <1>3, <1>4, <1>5, <1>6

-----------------------------------------------------------------------------
(* The types hold.                                                         *)

Values == [number: Int, value: Seq(Chars) \cup {Nil}]

\* A turn that stays within the types and leads to a place of the code.
LEMMA TurnTypes ==
    ASSUME TypeInv, NEW r \in Routers, NEW l \in Local, NEW outs \in Seq(plan.outputs),
           NEW vs \in Seq(Verdicts), Turn(r, l, outs, vs), Placed(plan, l, outs, vs),
           store' \in [0..(plan.times - 1) -> Values]
    PROVE  TypeInv'
  <1>1. /\ IsPlan(plan) /\ run \in [Routers -> Local]
        /\ printed \in [Routers -> Seq(plan.outputs)] /\ verdicts \in [Routers -> Seq(Verdicts)]
    BY DEF TypeInv, TypeOK, Local, Verdicts
  <1>2. /\ plan' = plan /\ run' = [run EXCEPT ![r] = l]
        /\ printed' = [printed EXCEPT ![r] = outs] /\ verdicts' = [verdicts EXCEPT ![r] = vs]
    BY DEF Turn
  <1>3. /\ run' \in [Routers -> Local] /\ printed' \in [Routers -> Seq(plan.outputs)]
        /\ verdicts' \in [Routers -> Seq(Verdicts)]
    BY <1>1, <1>2
  <1>4. TypeOK'
    BY <1>1, <1>2, <1>3 DEF TypeOK, Local, Verdicts, Values
  <1>5. ASSUME NEW q \in Routers PROVE Placed(plan', run'[q], printed'[q], verdicts'[q])
    <2>1. CASE q = r
      BY <1>1, <1>2, <2>1
    <2>2. CASE q # r
      BY <1>1, <1>2, <2>2 DEF TypeInv
    <2> QED BY <2>1, <2>2
  <1> QED BY <1>4, <1>5 DEF TypeInv

LEMMA Own ==
    ASSUME TypeInv, NEW r \in Routers
    PROVE  /\ run[r] \in Local /\ printed[r] \in Seq(plan.outputs) /\ verdicts[r] \in Seq(Verdicts)
           /\ store \in [0..(plan.times - 1) -> Values] /\ Len(verdicts[r]) \in Nat
           /\ Len(printed[r]) \in Nat /\ Placed(plan, run[r], printed[r], verdicts[r])
           /\ Iteration(r) = Len(verdicts[r]) /\ Results(r) = printed[r][Len(printed[r])]
           /\ Matches(r) = Results(r)[run[r].result].hits
  <1>1. /\ run[r] \in Local /\ printed[r] \in Seq(plan.outputs) /\ verdicts[r] \in Seq(Verdicts)
        /\ store \in [0..(plan.times - 1) -> Values]
        /\ Placed(plan, run[r], printed[r], verdicts[r])
    BY DEF TypeInv, TypeOK, Local, Verdicts, Values
  <1>2. Len(verdicts[r]) \in Nat /\ Len(printed[r]) \in Nat
    BY <1>1, LenProperties
  <1> QED BY <1>1, <1>2 DEF Iteration, Results, Matches, Result

\* A router that answers.
LEMMA AfterTypes ==
    ASSUME TypeInv, NEW r \in Routers, run[r].pc \in {"match", "store", "check"},
           NEW v \in Verdicts, Turn(r, After(v), printed[r], Append(verdicts[r], v)), store' = store
    PROVE  TypeInv'
  <1>1. Len(printed[r]) = Len(verdicts[r]) + 1
    BY Own DEF Placed
  <1>2. Append(verdicts[r], v) \in Seq(Verdicts) /\ Len(Append(verdicts[r], v)) = Len(verdicts[r]) + 1
    BY Own, AppendProperties
  <1>3. After(v) \in Local /\ After(v).pc \in {"idle", "failed", "panicked"}
    BY Places
  <1>4. Placed(plan, After(v), printed[r], Append(verdicts[r], v))
    BY <1>1, <1>2, <1>3 DEF Placed
  <1> QED BY <1>2, <1>3, <1>4, Own, TurnTypes

\* A router that turns to a result, or into one.
LEMMA AtResultTypes ==
    ASSUME TypeInv, NEW r \in Routers, run[r].pc \in {"match", "store", "check"},
           Turn(r, AtResult(run[r].result + 1), printed[r], verdicts[r]), store' = store
    PROVE  TypeInv'
  <1>1. run[r].result + 1 \in Nat \ {0}
    BY Own DEF Local
  <1>2. /\ AtResult(run[r].result + 1) \in Local /\ AtResult(run[r].result + 1).pc = "match"
        /\ AtResult(run[r].result + 1).match = 1 /\ AtResult(run[r].result + 1).field = 1
        /\ AtResult(run[r].result + 1).perField = 0
        /\ AtResult(run[r].result + 1).perOccurrence = 0
    BY <1>1, Places
  <1>3. Len(printed[r]) = Len(verdicts[r]) + 1 /\ Len(verdicts[r]) < plan.times
    BY Own DEF Placed
  <1>4. Placed(plan, AtResult(run[r].result + 1), printed[r], verdicts[r])
    BY <1>2, <1>3 DEF Placed
  <1> QED BY <1>2, <1>4, Own, TurnTypes

LEMMA InResultTypes ==
    ASSUME TypeInv, NEW r \in Routers, run[r].pc \in {"match", "store", "check"},
           NEW l \in Local, l.pc \in {"store", "check"}, Reached(test, l, Results(r)),
           Turn(r, l, printed[r], verdicts[r]), store' \in [0..(plan.times - 1) -> Values]
    PROVE  TypeInv'
  <1>1. Len(printed[r]) = Len(verdicts[r]) + 1 /\ Len(verdicts[r]) < plan.times
    BY Own DEF Placed
  <1>2. Placed(plan, l, printed[r], verdicts[r])
    BY <1>1, Own DEF Placed, test
  <1> QED BY <1>2, Own, TurnTypes

\* The place FindMatches goes to.
LEMMA AtFirstIs ==
    ASSUME NEW l \in Local, NEW t \in Test, NEW now \in Seq(CmdResult), l.result \in 1..Len(now),
           l.field = 1, Found(t, now[l.result].hits, "read")
    PROVE  /\ AtFirst(l, t) \in Local /\ AtFirst(l, t).pc = "store"
           /\ AtFirst(l, t).match = FirstOf(t)
           /\ AtFirst(l, t).result = l.result /\ AtFirst(l, t).field = l.field
           /\ AtFirst(l, t).perField = l.perField
           /\ AtFirst(l, t).perOccurrence = l.perOccurrence
           /\ Reached(t, AtFirst(l, t), now)
  <1> DEFINE m == AtFirst(l, t)
             hits == now[l.result].hits
  <1>1. t.occurrence \in Nat /\ t.fields \in Seq(Field)
    <2>1. t.occurrence \in Int /\ t.fields \in Seq(Field)
      BY DEF Test
    <2>2. ~(t.occurrence < 0)
      BY DEF Found
    <2> QED BY <2>1, <2>2
  <1>2. FirstOf(t) \in Nat \ {0}
    BY <1>1 DEF FirstOf
  <1>3. /\ m \in Local /\ m.pc = "store" /\ m.match = FirstOf(t) /\ m.result = l.result
        /\ m.field = l.field /\ m.perField = l.perField /\ m.perOccurrence = l.perOccurrence
    BY <1>2 DEF AtFirst, Local
  <1> HIDE DEF m
  <1>4. /\ hits # <<>> /\ t.pattern /\ ~\E want \in t.occurrences : want # Len(hits)
        /\ ~(Len(hits) < t.occurrence) /\ t.fields # <<>>
    BY DEF Found
  <1>5. hits \in Seq(Nat)
    <2>1. now[l.result] \in CmdResult
      BY ElementOfSeq
    <2> QED BY <2>1 DEF CmdResult
  <1>6. l.result \in DOMAIN now
    BY LenProperties
  <1>7. 1 \in DOMAIN t.fields
    <2>1. Len(t.fields) \in Nat \ {0} /\ DOMAIN t.fields = 1..Len(t.fields)
      BY <1>1, <1>4, EmptySeq, LenProperties
    <2> QED BY <2>1
  <1>8. 0 <= t.occurrence /\ t.occurrence <= Len(hits) /\ FirstOf(t) <= LastOf(t, hits)
    <2>1. Len(hits) \in Nat \ {0}
      <3> HIDE DEF hits
      <3> QED BY <1>4, <1>5, EmptySeq
    <2> QED BY <1>1, <1>4, <2>1 DEF FirstOf, LastOf
  <1>9. FirstOf(t) <= FirstOf(t)
    BY <1>2
  <1>10. Reached(t, m, now)
    BY <1>3, <1>4, <1>6, <1>7, <1>8, <1>9 DEF Reached
  <1> QED BY <1>3, <1>10 DEF m

\* The places CheckField goes to within a result.
LEMMA NextFieldIs ==
    ASSUME NEW l \in Local, NEW t \in Test, NEW now \in Seq(CmdResult), Reached(t, l, now),
           NEW check, l.field < Len(t.fields)
    PROVE  /\ NextField(l, check) \in Local /\ NextField(l, check).pc = "store"
           /\ NextField(l, check).match = l.match
           /\ NextField(l, check).result = l.result /\ NextField(l, check).field = l.field + 1
           /\ NextField(l, check).perField = FieldCount(l, check)
           /\ NextField(l, check).perOccurrence = l.perOccurrence
           /\ Reached(t, NextField(l, check), now)
  <1> DEFINE m == NextField(l, check)
  <1>1. FieldCount(l, check) \in Nat /\ l.field + 1 \in Nat \ {0}
    BY DEF FieldCount, Local
  <1>2. /\ m \in Local /\ m.pc = "store" /\ m.match = l.match /\ m.result = l.result
        /\ m.field = l.field + 1 /\ m.perField = FieldCount(l, check)
        /\ m.perOccurrence = l.perOccurrence
    BY <1>1 DEF NextField, Local
  <1> HIDE DEF m
  <1>3. l.field + 1 \in DOMAIN t.fields
    <2>1. t.fields \in Seq(Field) /\ l.field \in Nat
      BY DEF Test, Local
    <2>2. Len(t.fields) \in Nat /\ DOMAIN t.fields = 1..Len(t.fields)
      BY <2>1, LenProperties
    <2> QED BY <2>1, <2>2
  <1>4. Reached(t, m, now)
    BY <1>2, <1>3 DEF Reached
  <1> QED BY <1>2, <1>4 DEF m

LEMMA NextMatchIs ==
    ASSUME NEW l \in Local, NEW t \in Test, NEW now \in Seq(CmdResult), Reached(t, l, now),
           NEW check, l.match < LastOf(t, now[l.result].hits)
    PROVE  /\ NextMatch(t, l, check) \in Local /\ NextMatch(t, l, check).pc = "store"
           /\ NextMatch(t, l, check).match = l.match + 1
           /\ NextMatch(t, l, check).result = l.result /\ NextMatch(t, l, check).field = 1
           /\ NextMatch(t, l, check).perField = 0
           /\ NextMatch(t, l, check).perOccurrence = MatchCount(t, l, check)
           /\ Reached(t, NextMatch(t, l, check), now)
  <1> DEFINE m == NextMatch(t, l, check)
  <1>1. MatchCount(t, l, check) \in Nat /\ l.match + 1 \in Nat \ {0}
    BY DEF MatchCount, Local
  <1>2. /\ m \in Local /\ m.pc = "store" /\ m.match = l.match + 1 /\ m.result = l.result
        /\ m.field = 1 /\ m.perField = 0 /\ m.perOccurrence = MatchCount(t, l, check)
    <2> DEFINE n == [l EXCEPT !.pc = "store", !.field = 1]
               o == [n EXCEPT !.perField = 0, !.match = l.match + 1]
    <2>1. /\ n \in Local /\ n.pc = "store" /\ n.match = l.match /\ n.result = l.result
          /\ n.field = 1
      <3>1. 1 \in Nat \ {0} /\ 0 \in Nat
        OBVIOUS
      <3>2. \A f \in Nat \ {0} : [l EXCEPT !.pc = "store", !.field = f] \in Local
        BY DEF Local
      <3>3. n \in Local
        BY <3>1, <3>2
      <3>4. n.pc = "store" /\ n.match = l.match /\ n.result = l.result /\ n.field = 1
        BY DEF Local
      <3> QED BY <3>3, <3>4
    <2>2. m = [o EXCEPT !.perOccurrence = MatchCount(t, l, check)]
      BY Zenon DEF NextMatch
    <2> HIDE DEF n
    <2>3. /\ o \in Local /\ o.pc = "store" /\ o.match = l.match + 1 /\ o.result = l.result
          /\ o.field = 1 /\ o.perField = 0
      BY <1>1, <2>1 DEF Local
    <2> HIDE DEF o, m
    <2> QED BY <1>1, <2>2, <2>3 DEF Local
  <1> HIDE DEF m
  <1>3. 1 \in DOMAIN t.fields
    <2>1. t.fields \in Seq(Field) /\ l.field \in DOMAIN t.fields
      BY DEF Test, Reached
    <2>2. Len(t.fields) \in Nat /\ DOMAIN t.fields = 1..Len(t.fields)
      BY <2>1, LenProperties
    <2> QED BY <2>1, <2>2
  <1>4. /\ FirstOf(t) \in Nat /\ LastOf(t, now[l.result].hits) \in Nat /\ l.match \in Nat
        /\ FirstOf(t) <= l.match
    BY ReachedTypes DEF Reached, Local
  <1>5. FirstOf(t) <= l.match + 1 /\ l.match + 1 <= LastOf(t, now[l.result].hits)
    BY <1>4
  <1>6. Reached(t, m, now)
    BY <1>2, <1>3, <1>5 DEF Reached
  <1> QED BY <1>2, <1>6 DEF m

LEMMA TypeInit ==
    ASSUME Init PROVE TypeInv
  <1>1. IsPlan(plan) /\ plan.times \in Nat /\ plan.outputs # {}
    BY PlansAssumption DEF Init, IsPlan
  <1>2. Idle \in Local /\ Idle.pc = "idle"
    BY DEF Idle, Local
  <1>3. Empty \in Values
    BY DEF Empty, Values
  <1>4. store \in [0..(plan.times - 1) -> Values] /\ run \in [Routers -> Local]
    BY <1>2, <1>3 DEF Init
  <1>5. \A S : <<>> \in Seq(S) /\ Len(<<>>) = 0
    BY EmptySeq
  <1>6. printed \in [Routers -> Seq(plan.outputs)] /\ verdicts \in [Routers -> Seq(Verdicts)]
    BY <1>5 DEF Init
  <1>7. TypeOK
    BY <1>1, <1>4, <1>6 DEF TypeOK, Local, Values, Verdicts
  <1>8. ASSUME NEW r \in Routers PROVE Placed(plan, run[r], printed[r], verdicts[r])
    <2>1. run[r] = Idle /\ printed[r] = <<>> /\ verdicts[r] = <<>>
      BY DEF Init
    <2>2. run[r].pc = "idle" /\ Len(printed[r]) = Len(verdicts[r])
      BY <1>2, <2>1
    <2> QED BY <2>2 DEF Placed
  <1> QED BY <1>7, <1>8 DEF TypeInv

LEMMA TypeTurn ==
    ASSUME TypeInv, NEW r \in Routers,
           Begin(r) \/ NoMoreResults(r) \/ FindMatches(r) \/ StoreValue(r) \/ CheckField(r)
    PROVE  TypeInv'
  <1>0. TypeOK /\ test \in Test
    BY PlanTypes DEF TypeInv
  <1>1. CASE Begin(r)
    <2>1. store' = store /\ run[r].pc = "idle" /\ Iteration(r) < plan.times
      BY <1>0, <1>1, BeginIs
    <2>2. PICK out \in plan.outputs : Turn(r, AtResult(1), Append(printed[r], out), verdicts[r])
      BY <1>0, <1>1, BeginIs
    <2>3. /\ AtResult(1) \in Local /\ AtResult(1).pc = "match" /\ AtResult(1).match = 1
          /\ AtResult(1).field = 1 /\ AtResult(1).perField = 0 /\ AtResult(1).perOccurrence = 0
      BY Places
    <2>4. /\ Append(printed[r], out) \in Seq(plan.outputs)
          /\ Len(Append(printed[r], out)) = Len(printed[r]) + 1
      <3>1. printed[r] \in Seq(plan.outputs)
        BY Own
      <3> QED BY <3>1, AppendProperties
    <2>5. Len(printed[r]) = Len(verdicts[r]) /\ Len(verdicts[r]) < plan.times
      BY <2>1, Own DEF Placed
    <2>6. Placed(plan, AtResult(1), Append(printed[r], out), verdicts[r])
      BY <2>3, <2>4, <2>5 DEF Placed
    <2> QED BY <2>1, <2>2, <2>3, <2>4, <2>6, Own, TurnTypes
  <1>2. CASE NoMoreResults(r)
    <2>1. "quiet" \in Verdicts
      BY DEF Verdicts
    <2> QED BY <1>0, <1>2, <2>1, NoMoreResultsIs, AfterTypes
  <1>3. CASE FindMatches(r)
    <2>1. store' = store /\ run[r].pc = "match" /\ run[r].result <= Len(Results(r))
      BY <1>3, FindMatchesIs
    <2>2. PICK v \in {"next", "fire", "quiet", "panic", "read"} :
             /\ Found(test, Matches(r), v)
             /\ v = "next" => Turn(r, AtResult(run[r].result + 1), printed[r], verdicts[r])
             /\ v = "read" => Turn(r, AtFirst(run[r], test), printed[r], verdicts[r])
             /\ v \in {"fire", "quiet", "panic"} =>
                   Turn(r, After(v), printed[r], Append(verdicts[r], v))
      BY <1>3, FindMatchesIs
    <2>3. CASE v = "next"
      BY <2>1, <2>2, <2>3, AtResultTypes
    <2>4. CASE v = "read"
      <3>1. run[r] \in Local /\ Results(r) \in Seq(CmdResult) /\ run[r].field = 1
        BY <2>1, Own, OutputTypes DEF Placed
      <3>2. run[r].result \in 1..Len(Results(r))
        BY <2>1, <3>1, LenProperties DEF Local
      <3>3. Found(test, Results(r)[run[r].result].hits, "read")
        BY <2>2, <2>4, Own
      <3>4. /\ AtFirst(run[r], test) \in Local /\ AtFirst(run[r], test).pc = "store"
            /\ Reached(test, AtFirst(run[r], test), Results(r))
        BY <1>0, <3>1, <3>2, <3>3, AtFirstIs
      <3>5. store' \in [0..(plan.times - 1) -> Values]
        BY <2>1, Own
      <3> QED BY <2>1, <2>2, <2>4, <3>4, <3>5, InResultTypes
    <2>5. CASE v \in {"fire", "quiet", "panic"}
      <3>1. v \in Verdicts
        BY <2>5 DEF Verdicts
      <3> QED BY <2>1, <2>2, <2>5, <3>1, AfterTypes
    <2> QED BY <2>3, <2>4, <2>5
  <1>4. CASE StoreValue(r)
    <2>1. run[r].pc = "store"
      BY <1>4, StoreValueIs
    <2>2. "error" \in Verdicts /\ "panic" \in Verdicts
      BY DEF Verdicts
    <2>3. CASE Value(r) = Missing
      BY <1>4, <2>1, <2>2, <2>3, StoreValueIs, AfterTypes
    <2>4. CASE Value(r) = Panic
      BY <1>4, <2>1, <2>2, <2>4, StoreValueIs, AfterTypes
    <2>5. CASE Value(r) \notin {Missing, Panic}
      <3> DEFINE l == [run[r] EXCEPT !.pc = "check"]
                 e == [number |-> FieldOf(r).number, value |-> Value(r)]
      <3>1. Reached(test, run[r], Results(r)) /\ Value(r) \in Seq(Chars) /\ FieldOf(r).number \in Int
        BY <2>1, <2>5, ValueIs
      <3>2. /\ l \in Local /\ l.pc = "check" /\ l.result = run[r].result /\ l.match = run[r].match
            /\ l.field = run[r].field
        BY Own DEF Local
      <3>3. Turn(r, l, printed[r], verdicts[r]) /\ store' = [store EXCEPT ![Iteration(r)] = e]
        BY <1>4, <2>5, StoreValueIs
      <3>4. e \in Values
        BY <3>1 DEF Values
      <3> HIDE DEF l, e
      <3>5. Reached(test, l, Results(r))
        BY <3>1, <3>2 DEF Reached
      <3>6. store' \in [0..(plan.times - 1) -> Values]
        BY <3>3, <3>4, Own
      <3> QED BY <2>1, <3>2, <3>3, <3>5, <3>6, InResultTypes
    <2> QED BY <2>3, <2>4, <2>5
  <1>5. CASE CheckField(r)
    <2>1. store' = store /\ run[r].pc = "check"
      BY <1>5, CheckFieldIs
    <2>2. /\ run[r] \in Local /\ Results(r) \in Seq(CmdResult)
          /\ Reached(test, run[r], Results(r)) /\ Matches(r) = Results(r)[run[r].result].hits
          /\ store' \in [0..(plan.times - 1) -> Values]
      BY <2>1, Own, OutputTypes, ValueIs
    <2>3. CASE /\ run[r].field < Len(test.fields)
               /\ Turn(r, NextField(run[r], Check(r)), printed[r], verdicts[r])
      <3>1. /\ NextField(run[r], Check(r)) \in Local
            /\ NextField(run[r], Check(r)).pc = "store"
            /\ Reached(test, NextField(run[r], Check(r)), Results(r))
        BY <1>0, <2>2, <2>3, NextFieldIs
      <3> QED BY <2>1, <2>2, <2>3, <3>1, InResultTypes
    <2>4. CASE /\ run[r].match < LastOf(test, Matches(r))
               /\ Turn(r, NextMatch(test, run[r], Check(r)), printed[r], verdicts[r])
      <3>1. /\ NextMatch(test, run[r], Check(r)) \in Local
            /\ NextMatch(test, run[r], Check(r)).pc = "store"
            /\ Reached(test, NextMatch(test, run[r], Check(r)), Results(r))
        BY <1>0, <2>2, <2>4, NextMatchIs
      <3> QED BY <2>1, <2>2, <2>4, <3>1, InResultTypes
    <2>5. CASE Turn(r, After("fire"), printed[r], Append(verdicts[r], "fire"))
      <3>1. "fire" \in Verdicts
        BY DEF Verdicts
      <3> QED BY <2>1, <2>5, <3>1, AfterTypes
    <2>6. CASE Turn(r, AtResult(run[r].result + 1), printed[r], verdicts[r])
      BY <2>1, <2>6, AtResultTypes
    <2>7. CASE Turn(r, After("error"), printed[r], Append(verdicts[r], "error"))
      <3>1. "error" \in Verdicts
        BY DEF Verdicts
      <3> QED BY <2>1, <2>7, <3>1, AfterTypes
    <2> QED BY <1>5, <2>3, <2>4, <2>5, <2>6, <2>7, CheckFieldIs
  <1> QED BY <1>1, <1>2, <1>3, <1>4, <1>5

LEMMA TypeStep ==
    ASSUME TypeInv, [Next]_vars
    PROVE  TypeInv'
  <1>1. ASSUME NEW r \in Routers,
               Begin(r) \/ NoMoreResults(r) \/ FindMatches(r) \/ StoreValue(r) \/ CheckField(r)
        PROVE  TypeInv'
    BY <1>1, TypeTurn
  <1>2. CASE UNCHANGED vars
    BY <1>2 DEF vars, TypeInv, TypeOK, Placed
  <1> QED BY <1>1, <1>2 DEF Next, Done

\* On any outputs the variables keep their types: the ValuesStore holds texts or nil and
\* never one of getValue's errors, the loops count up from one, and an iteration ends in
\* one of the answers runTest has (pipeline.go:182-284).
THEOREM TestTypes == Spec => []TypeOK
  <1>1. TypeInv => TypeOK
    BY DEF TypeInv
  <1> QED BY <1>1, TypeInit, TypeStep, PTL DEF Spec

\* For every text, every place in it and every field number from 0 on, what runTest stores
\* is the field of the line its match begins in, unless that line is empty
\* (pipeline.go:374-410).
THEOREM ValueOfMatchedLine == Spec => []FieldOfMatchedLine
  <1>1. TypeInv => FieldOfMatchedLine
    BY ValueIs DEF FieldOfMatchedLine
  <1> QED BY <1>1, TypeInit, TypeStep, PTL DEF Spec

-----------------------------------------------------------------------------
(* What the loops have found.                                              *)

Count(S, a, n) == Cardinality(S \cap (a..n))

LEMMA CountFinite ==
    ASSUME NEW S, NEW a \in Nat, NEW n \in Int
    PROVE  IsFiniteSet(S \cap (a..n)) /\ Count(S, a, n) \in Nat /\ (n < a => Count(S, a, n) = 0)
  <1>1. IsFiniteSet(a..n) /\ S \cap (a..n) \in SUBSET (a..n)
    BY FS_Interval
  <1>2. IsFiniteSet(S \cap (a..n))
    BY <1>1, FS_Subset
  <1>3. n < a => S \cap (a..n) = {}
    OBVIOUS
  <1> QED BY <1>2, <1>3, FS_CardinalityType, FS_EmptySet DEF Count

LEMMA CountNext ==
    ASSUME NEW S, NEW a \in Nat, NEW n \in Nat, a <= n
    PROVE  Count(S, a, n) = Count(S, a, n - 1) + IF n \in S THEN 1 ELSE 0
  <1>1. \A x : x \in a..n <=> x \in a..(n - 1) \/ x = n
    OBVIOUS
  <1>2. IsFiniteSet(S \cap (a..(n - 1))) /\ n \notin S \cap (a..(n - 1))
    <2>1. n - 1 \in Int /\ n \notin a..(n - 1)
      OBVIOUS
    <2> QED BY <2>1, CountFinite
  <1>3. CASE n \in S
    <2>1. S \cap (a..n) = (S \cap (a..(n - 1))) \cup {n}
      BY <1>1, <1>3
    <2>2. Cardinality((S \cap (a..(n - 1))) \cup {n}) = Cardinality(S \cap (a..(n - 1))) + 1
      BY <1>2, FS_AddElement
    <2> QED BY <1>3, <2>1, <2>2 DEF Count
  <1>4. CASE n \notin S
    <2>1. S \cap (a..n) = S \cap (a..(n - 1))
      BY <1>1, <1>4
    <2> QED BY <1>4, <2>1, CountFinite DEF Count
  <1> QED BY <1>3, <1>4

LEMMA CountSome ==
    ASSUME NEW S, NEW a \in Nat, NEW n \in Nat
    PROVE  Count(S, a, n) > 0 <=> \E x \in a..n : x \in S
  <1>1. IsFiniteSet(S \cap (a..n)) /\ Count(S, a, n) \in Nat
    BY CountFinite
  <1>2. Count(S, a, n) = 0 <=> S \cap (a..n) = {}
    BY <1>1, FS_EmptySet DEF Count
  <1> QED BY <1>1, <1>2

LEMMA CountAll ==
    ASSUME NEW S, NEW n \in Nat
    PROVE  Count(S, 1, n) = n <=> \A x \in 1..n : x \in S
  <1>1. IsFiniteSet(1..n) /\ Cardinality(1..n) = n
    BY FS_Interval
  <1>2. S \cap (1..n) \in SUBSET (1..n)
    OBVIOUS
  <1>3. Cardinality(S \cap (1..n)) = Cardinality(1..n) => S \cap (1..n) = 1..n
    BY <1>1, <1>2, FS_Subset
  <1> QED BY <1>1, <1>3 DEF Count

\* A field is there, and check knows what to do with it.
IsThere(t, now, k, m, f) == At(now, k, m, t.fields[f].number) # Missing
HasRead(t, now, k, m, f) == IsThere(t, now, k, m, f) /\ t.fields[f].operation \in Operations

FiredFields(t, now, before, i, k, m) ==
    {f \in DOMAIN t.fields : Fired(t, now, before, i, k, m, f)}
FiredMatches(t, now, before, i, k) ==
    {m \in Nat : IF t.checkAll THEN \A f \in DOMAIN t.fields : Fired(t, now, before, i, k, m, f)
                               ELSE \E f \in DOMAIN t.fields : Fired(t, now, before, i, k, m, f)}

\* Everything before the place l has been read, and what fired has been counted.
Engaged(t, l, now, before, i) ==
    /\ \A m \in FirstOf(t)..(l.match - 1) : \A f \in DOMAIN t.fields : HasRead(t, now, l.result, m, f)
    /\ \A f \in 1..(l.field - 1) : HasRead(t, now, l.result, l.match, f)
    /\ l.perField = Count(FiredFields(t, now, before, i, l.result, l.match), 1, l.field - 1)
    /\ l.perOccurrence = Count(FiredMatches(t, now, before, i, l.result), FirstOf(t), l.match - 1)

\* At the first field of the first match nothing has.
LEMMA EngagedFirst ==
    ASSUME NEW t \in Test, NEW l \in Local, NEW now, NEW before, NEW i, 0 <= t.occurrence,
           l.match = FirstOf(t), l.field = 1, l.perField = 0, l.perOccurrence = 0
    PROVE  Engaged(t, l, now, before, i)
  <1>1. FirstOf(t) \in Nat \ {0}
    BY DEF FirstOf, Test
  <1>2. FirstOf(t)..(l.match - 1) = {} /\ 1..(l.field - 1) = {} /\ l.field - 1 \in Int
        /\ l.field - 1 < 1 /\ l.match - 1 \in Int /\ l.match - 1 < FirstOf(t)
    BY <1>1
  <1>3. \A S : Count(S, 1, l.field - 1) = 0
    BY <1>2, CountFinite
  <1>4. \A S : Count(S, FirstOf(t), l.match - 1) = 0
    BY <1>1, <1>2, CountFinite
  <1> QED BY <1>2, <1>3, <1>4 DEF Engaged

\* After a call of check the count of the fields is that of the fields up to this one.
LEMMA FieldCountIs ==
    ASSUME NEW t \in Test, NEW l \in Local, NEW now \in Seq(CmdResult), NEW before, NEW i,
           Reached(t, l, now), Engaged(t, l, now, before, i), NEW check \in BOOLEAN,
           check <=> Fired(t, now, before, i, l.result, l.match, l.field)
    PROVE  FieldCount(l, check) =
              Count(FiredFields(t, now, before, i, l.result, l.match), 1, l.field)
  <1> DEFINE S == FiredFields(t, now, before, i, l.result, l.match)
  <1>1. l.field \in Nat /\ 1 <= l.field /\ 1 \in Nat
    BY DEF Local
  <1>2. Count(S, 1, l.field) = Count(S, 1, l.field - 1) + IF l.field \in S THEN 1 ELSE 0
    <2> HIDE DEF S
    <2> QED BY <1>1, CountNext
  <1>3. l.field \in S <=> check
    BY DEF FiredFields, Reached
  <1>4. l.perField = Count(S, 1, l.field - 1)
    BY DEF Engaged
  <1> HIDE DEF S
  <1>5. FieldCount(l, check) = Count(S, 1, l.field)
    BY <1>2, <1>3, <1>4 DEF FieldCount
  <1> QED BY <1>5 DEF S

LEMMA EngagedNextField ==
    ASSUME NEW t \in Test, NEW l \in Local, NEW now \in Seq(CmdResult), NEW before, NEW i,
           Reached(t, l, now), Engaged(t, l, now, before, i), NEW check \in BOOLEAN,
           check <=> Fired(t, now, before, i, l.result, l.match, l.field),
           HasRead(t, now, l.result, l.match, l.field), l.field < Len(t.fields)
    PROVE  Engaged(t, NextField(l, check), now, before, i)
  <1> DEFINE m == NextField(l, check)
  <1>1. /\ m.match = l.match /\ m.result = l.result /\ m.field = l.field + 1
        /\ m.perField = FieldCount(l, check) /\ m.perOccurrence = l.perOccurrence
    BY NextFieldIs
  <1> HIDE DEF m
  <1>2. l.field \in Nat /\ m.field - 1 = l.field
    BY <1>1 DEF Local
  <1>3. \A f \in 1..l.field : HasRead(t, now, l.result, l.match, f)
    <2>1. \A f \in 1..l.field : f \in 1..(l.field - 1) \/ f = l.field
      BY <1>2
    <2> QED BY <2>1 DEF Engaged
  <1>4. Engaged(t, m, now, before, i)
    BY <1>1, <1>2, <1>3, FieldCountIs DEF Engaged
  <1> QED BY <1>4 DEF m

\* After the last field of a match the count of the matches is that of those up to this one.
LEMMA MatchCountIs ==
    ASSUME NEW t \in Test, NEW l \in Local, NEW now \in Seq(CmdResult), NEW before, NEW i,
           Reached(t, l, now), Engaged(t, l, now, before, i), NEW check \in BOOLEAN,
           check <=> Fired(t, now, before, i, l.result, l.match, l.field),
           ~(l.field < Len(t.fields))
    PROVE  MatchCount(t, l, check) =
              Count(FiredMatches(t, now, before, i, l.result), FirstOf(t), l.match)
  <1> DEFINE S == FiredFields(t, now, before, i, l.result, l.match)
             M == FiredMatches(t, now, before, i, l.result)
             n == Len(t.fields)
             c == FieldCount(l, check)
  <1>1. /\ l.field \in 1..n /\ n \in Nat /\ FirstOf(t) \in Nat /\ l.match \in Nat
        /\ DOMAIN t.fields = 1..n /\ FirstOf(t) <= l.match
    <2>1. t.fields \in Seq(Field)
      BY DEF Test
    <2> QED BY <2>1, ReachedTypes, LenProperties DEF Reached
  <1>2. l.field = n
    BY <1>1
  <1>3. c = Count(S, 1, n)
    BY <1>2, FieldCountIs
  <1>4. \A f : f \in S <=> f \in 1..n /\ Fired(t, now, before, i, l.result, l.match, f)
    BY <1>1 DEF FiredFields
  <1>5. l.match \in M <=> IF t.checkAll THEN \A f \in 1..n : f \in S ELSE \E f \in 1..n : f \in S
    BY <1>1, <1>4 DEF FiredMatches
  <1> HIDE DEF S, M, n
  <1>6. (IF t.checkAll THEN c = n ELSE c > 0) <=> l.match \in M
    <2>1. c = n <=> \A f \in 1..n : f \in S
      BY <1>1, <1>3, CountAll
    <2>2. c > 0 <=> \E f \in 1..n : f \in S
      BY <1>1, <1>3, CountSome
    <2> HIDE DEF c
    <2> QED BY <1>5, <2>1, <2>2
  <1>7. Count(M, FirstOf(t), l.match) =
            Count(M, FirstOf(t), l.match - 1) + IF l.match \in M THEN 1 ELSE 0
    BY <1>1, CountNext
  <1>8. l.perOccurrence = Count(M, FirstOf(t), l.match - 1)
    BY DEF Engaged, M
  <1>9. MatchCount(t, l, check) =
            l.perOccurrence + IF (IF t.checkAll THEN c = n ELSE c > 0) THEN 1 ELSE 0
    BY Zenon DEF MatchCount, n
  <1> HIDE DEF c
  <1>10. MatchCount(t, l, check) = Count(M, FirstOf(t), l.match)
    BY <1>6, <1>7, <1>8, <1>9
  <1> QED BY <1>10 DEF M

LEMMA EngagedNextMatch ==
    ASSUME NEW t \in Test, NEW l \in Local, NEW now \in Seq(CmdResult), NEW before, NEW i,
           Reached(t, l, now), Engaged(t, l, now, before, i), NEW check \in BOOLEAN,
           check <=> Fired(t, now, before, i, l.result, l.match, l.field),
           HasRead(t, now, l.result, l.match, l.field), ~(l.field < Len(t.fields)),
           l.match < LastOf(t, now[l.result].hits)
    PROVE  Engaged(t, NextMatch(t, l, check), now, before, i)
  <1> DEFINE m == NextMatch(t, l, check)
  <1>1. /\ m.match = l.match + 1 /\ m.result = l.result /\ m.field = 1
        /\ m.perField = 0 /\ m.perOccurrence = MatchCount(t, l, check)
    BY NextMatchIs
  <1> HIDE DEF m
  <1>2. /\ l.match \in Nat /\ m.match - 1 = l.match /\ 1..(m.field - 1) = {} /\ m.field - 1 \in Int
        /\ m.field - 1 < 1
    BY <1>1 DEF Local
  <1>3. \A x \in FirstOf(t)..l.match : \A f \in DOMAIN t.fields : HasRead(t, now, l.result, x, f)
    <2>0. l.field \in 1..Len(t.fields) /\ Len(t.fields) \in Nat /\ FirstOf(t) \in Nat
          /\ DOMAIN t.fields = 1..Len(t.fields)
      <3>1. t.fields \in Seq(Field)
        BY DEF Test
      <3> QED BY <3>1, ReachedTypes, LenProperties
    <2>1. \A x \in FirstOf(t)..l.match : x \in FirstOf(t)..(l.match - 1) \/ x = l.match
      BY <1>2, <2>0
    <2>2. \A f \in DOMAIN t.fields : f \in 1..(l.field - 1) \/ f = l.field
      BY <2>0
    <2> QED BY <2>1, <2>2 DEF Engaged
  <1>4. \A S : Count(S, 1, m.field - 1) = 0
    BY <1>2, CountFinite
  <1>5. m.perOccurrence =
            Count(FiredMatches(t, now, before, i, m.result), FirstOf(t), m.match - 1)
    BY <1>1, <1>2, MatchCountIs
  <1>6. m.perField = Count(FiredFields(t, now, before, i, m.result, m.match), 1, m.field - 1)
    BY <1>1, <1>4
  <1>7. \A f \in 1..(m.field - 1) : HasRead(t, now, m.result, m.match, f)
    BY <1>2
  <1>8. \A x \in FirstOf(t)..(m.match - 1) : \A f \in DOMAIN t.fields :
            HasRead(t, now, m.result, x, f)
    BY <1>1, <1>2, <1>3
  <1>9. Engaged(t, m, now, before, i)
    BY <1>5, <1>6, <1>7, <1>8 DEF Engaged
  <1> QED BY <1>9 DEF m

-----------------------------------------------------------------------------
(* What a result says.                                                     *)

\* The value of a field where a router looks.
AtPlace(t, l, now) == At(now, l.result, l.match, t.fields[l.field].number)

LEMMA SelectedIs ==
    ASSUME NEW t \in Test, NEW hits \in Seq(Nat), 0 <= t.occurrence
    PROVE  Selected(t, hits) = FirstOf(t)..LastOf(t, hits)
  <1>1. DOMAIN hits = 1..Len(hits) /\ t.occurrence \in Nat
    BY LenProperties DEF Test
  <1>2. t.occurrence..t.occurrence = {t.occurrence}
    BY <1>1
  <1> QED BY <1>1, <1>2 DEF Selected, FirstOf, LastOf

\* What a result that is looked into says.
Says(t, now, before, i, k) ==
    IF Unfit(t, now, k) THEN "error"
    ELSE IF t.checkAll
         THEN IF \A m \in Selected(t, now[k].hits), f \in DOMAIN t.fields :
                    Fired(t, now, before, i, k, m, f)
              THEN "fire" ELSE "next"
         ELSE IF \E m \in Selected(t, now[k].hits), f \in DOMAIN t.fields :
                    Fired(t, now, before, i, k, m, f)
              THEN "fire" ELSE "next"

LEMMA ResultMeaningIs ==
    ASSUME NEW t, NEW now, NEW before, NEW i, NEW k
    PROVE  /\ Found(t, now[k].hits, "next") => ResultMeaning(t, now, before, i, k) = "next"
           /\ Found(t, now[k].hits, "fire") => ResultMeaning(t, now, before, i, k) = "fire"
           /\ Found(t, now[k].hits, "quiet") => ResultMeaning(t, now, before, i, k) = "quiet"
           /\ Found(t, now[k].hits, "read") =>
                 ResultMeaning(t, now, before, i, k) = Says(t, now, before, i, k)
  <1> DEFINE hits == now[k].hits
             a == hits = <<>> \/ ~t.pattern
             b == \E want \in t.occurrences : want # Len(hits)
             c == Len(hits) < t.occurrence
             d == t.fields = <<>>
             v == Says(t, now, before, i, k)
  <1>1. ResultMeaning(t, now, before, i, k) =
            IF a THEN "next" ELSE IF b THEN "fire" ELSE IF c THEN "quiet" ELSE IF d THEN "fire" ELSE v
    BY Zenon DEF ResultMeaning, Says
  <1>2. /\ Found(t, hits, "next") => a
        /\ Found(t, hits, "fire") => ~a /\ (b \/ (~b /\ ~c /\ d))
        /\ Found(t, hits, "quiet") => ~a /\ ~b /\ c
        /\ Found(t, hits, "read") => ~a /\ ~b /\ ~c /\ ~d
    BY DEF Found
  <1> HIDE DEF a, b, c, d, v
  <1>3. Found(t, hits, "next") => ResultMeaning(t, now, before, i, k) = "next"
    BY <1>1, <1>2
  <1>4. Found(t, hits, "fire") => ResultMeaning(t, now, before, i, k) = "fire"
    BY <1>1, <1>2
  <1>5. Found(t, hits, "quiet") => ResultMeaning(t, now, before, i, k) = "quiet"
    BY <1>1, <1>2
  <1>6. Found(t, hits, "read") => ResultMeaning(t, now, before, i, k) = v
    BY <1>1, <1>2
  <1> QED BY <1>3, <1>4, <1>5, <1>6 DEF v

LEMMA ReachedMeaning ==
    ASSUME NEW t \in Test, NEW l \in Local, NEW now \in Seq(CmdResult), NEW before, NEW i,
           Reached(t, l, now)
    PROVE  ResultMeaning(t, now, before, i, l.result) = Says(t, now, before, i, l.result)
  <1>1. Len(now[l.result].hits) \in Nat /\ t.occurrence \in Nat
    BY ReachedTypes
  <1>2. Found(t, now[l.result].hits, "read")
    BY <1>1 DEF Found, Reached
  <1> QED BY <1>2, ResultMeaningIs

\* A result whose matches have all been read says what has been counted.
LEMMA EndOfResult ==
    ASSUME NEW t \in Test, NEW l \in Local, NEW now \in Seq(CmdResult), NEW before, NEW i,
           Reached(t, l, now), Engaged(t, l, now, before, i), NEW check \in BOOLEAN,
           check <=> Fired(t, now, before, i, l.result, l.match, l.field),
           HasRead(t, now, l.result, l.match, l.field), ~(l.field < Len(t.fields)),
           ~(l.match < LastOf(t, now[l.result].hits)), t.checkAll => t.occurrence = 0
    PROVE  ResultMeaning(t, now, before, i, l.result) =
              IF ResultFires(t, now[l.result].hits, MatchCount(t, l, check)) THEN "fire" ELSE "next"
  <1> DEFINE hits == now[l.result].hits
             k == l.result
             M == FiredMatches(t, now, before, i, k)
             first == FirstOf(t)
             last == LastOf(t, hits)
             c == MatchCount(t, l, check)
  <1>0. ResultMeaning(t, now, before, i, k) = Says(t, now, before, i, k)
    BY ReachedMeaning
  <1>1. /\ l.field \in 1..Len(t.fields) /\ Len(t.fields) \in Nat /\ DOMAIN t.fields = 1..Len(t.fields)
        /\ hits \in Seq(Nat) /\ first \in Nat \ {0} /\ last \in Nat /\ l.match \in Nat
        /\ l.match <= last /\ first <= l.match /\ Len(hits) \in Nat
    <2>1. t.fields \in Seq(Field)
      BY DEF Test
    <2> QED BY <2>1, ReachedTypes, LenProperties DEF Reached
  <1>2. l.match = last /\ l.field = Len(t.fields)
    BY <1>1
  <1>3. Selected(t, hits) = first..last
    BY <1>1, SelectedIs DEF Reached
  <1>4. \A m \in first..last : \A f \in DOMAIN t.fields : HasRead(t, now, k, m, f)
    <2>1. \A m \in first..last : m \in first..(l.match - 1) \/ m = l.match
      BY <1>1, <1>2
    <2>2. \A f \in DOMAIN t.fields : f \in 1..(l.field - 1) \/ f = l.field
      BY <1>1, <1>2
    <2> QED BY <2>1, <2>2 DEF Engaged
  <1>5. ~Unfit(t, now, k)
    <2>1. l.match \in first..last
      BY <1>1
    <2>2. \A f \in DOMAIN t.fields : t.fields[f].operation \in Operations
      BY <1>4, <2>1, Zenon DEF HasRead
    <2> QED BY <1>3, <1>4, <2>2, Zenon DEF Unfit, HasRead, IsThere
  <1>6. c = Count(M, first, last)
    BY <1>2, MatchCountIs
  <1>7. \A m \in first..last :
            m \in M <=> IF t.checkAll THEN \A f \in DOMAIN t.fields : Fired(t, now, before, i, k, m, f)
                        ELSE \E f \in DOMAIN t.fields : Fired(t, now, before, i, k, m, f)
    <2>1. \A m \in first..last : m \in Nat
      BY <1>1
    <2> QED BY <2>1 DEF FiredMatches
  <1> HIDE DEF M, first, last, c, hits, k
  <1>8. CASE t.checkAll
    <2>1. first = 1 /\ last = Len(hits)
      BY <1>8 DEF FirstOf, LastOf, first, last, hits
    <2>2. ResultFires(t, hits, c) <=> c = Len(hits)
      BY <1>8 DEF ResultFires
    <2>3. c = Len(hits) <=> \A m \in first..last : m \in M
      BY <1>1, <1>6, <2>1, CountAll
    <2>4. Says(t, now, before, i, k) =
              IF \A m \in first..last : \A f \in DOMAIN t.fields : Fired(t, now, before, i, k, m, f)
              THEN "fire" ELSE "next"
      <3>1. Selected(t, now[k].hits) = first..last
        BY <1>3 DEF hits, k
      <3> QED BY <1>5, <1>8, <3>1 DEF Says
    <2>5. (\A m \in first..last : \A f \in DOMAIN t.fields : Fired(t, now, before, i, k, m, f))
             <=> \A m \in first..last : m \in M
      BY <1>7, <1>8
    <2>6. Says(t, now, before, i, k) = IF ResultFires(t, hits, c) THEN "fire" ELSE "next"
      BY <2>2, <2>3, <2>4, <2>5
    <2> QED BY <1>0, <2>6 DEF hits, k, c
  <1>9. CASE ~t.checkAll
    <2>2. ResultFires(t, hits, c) <=> c > 0
      BY <1>9 DEF ResultFires
    <2>3. c > 0 <=> \E m \in first..last : m \in M
      BY <1>1, <1>6, CountSome
    <2>4. Says(t, now, before, i, k) =
              IF \E m \in first..last : \E f \in DOMAIN t.fields : Fired(t, now, before, i, k, m, f)
              THEN "fire" ELSE "next"
      <3>1. Selected(t, now[k].hits) = first..last
        BY <1>3 DEF hits, k
      <3> QED BY <1>5, <1>9, <3>1 DEF Says
    <2>5. (\E m \in first..last : \E f \in DOMAIN t.fields : Fired(t, now, before, i, k, m, f))
             <=> \E m \in first..last : m \in M
      BY <1>7, <1>9
    <2>6. Says(t, now, before, i, k) = IF ResultFires(t, hits, c) THEN "fire" ELSE "next"
      BY <2>2, <2>3, <2>4, <2>5
    <2> QED BY <1>0, <2>6 DEF hits, k, c
  <1> QED BY <1>8, <1>9

\* A result with a field that is not there, or that check cannot be asked about, is an error.
LEMMA UnfitResult ==
    ASSUME NEW t \in Test, NEW l \in Local, NEW now \in Seq(CmdResult), NEW before, NEW i,
           Reached(t, l, now), ~HasRead(t, now, l.result, l.match, l.field)
    PROVE  ResultMeaning(t, now, before, i, l.result) = "error"
  <1> DEFINE k == l.result
             hits == now[k].hits
  <1>1. /\ l.field \in DOMAIN t.fields /\ hits \in Seq(Nat) /\ FirstOf(t) \in Nat
        /\ LastOf(t, hits) \in Nat /\ l.match \in Nat
        /\ l.match <= LastOf(t, hits) /\ FirstOf(t) <= l.match
    BY ReachedTypes, LenProperties DEF Reached
  <1>2. l.match \in Selected(t, hits)
    <2>1. Selected(t, hits) = FirstOf(t)..LastOf(t, hits)
      BY <1>1, SelectedIs DEF Reached
    <2> QED BY <1>1, <2>1
  <1>3. Unfit(t, now, k)
    BY <1>1, <1>2, Zenon DEF Unfit, HasRead, IsThere
  <1>4. Says(t, now, before, i, k) = "error"
    BY <1>3, Zenon DEF Says
  <1> QED BY <1>4, ReachedMeaning

-----------------------------------------------------------------------------
(* What the results say together.                                          *)

LEMMA NothingSaid ==
    ASSUME NEW t, NEW now, NEW before, NEW i,
           \A k \in DOMAIN now : ResultMeaning(t, now, before, i, k) = "next"
    PROVE  Meaning(t, now, before, i) = "quiet"
  <1>1. Deciding(t, now, before, i) = {}
    BY DEF Deciding
  <1> QED BY <1>1 DEF Meaning

LEMMA FirstSaid ==
    ASSUME NEW t, NEW now \in Seq(CmdResult), NEW before, NEW i, NEW k \in 1..Len(now),
           \A j \in 1..(k - 1) : ResultMeaning(t, now, before, i, j) = "next",
           ResultMeaning(t, now, before, i, k) # "next"
    PROVE  Meaning(t, now, before, i) = ResultMeaning(t, now, before, i, k)
  <1> DEFINE D == Deciding(t, now, before, i)
  <1>1. DOMAIN now = 1..Len(now) /\ Len(now) \in Nat
    BY LenProperties
  <1>2. k \in D /\ D \subseteq Int
    BY <1>1 DEF Deciding
  <1>3. ASSUME NEW j \in D PROVE k <= j
    <2>1. j \in 1..Len(now) /\ j \notin 1..(k - 1)
      BY <1>1 DEF Deciding
    <2> QED BY <1>1, <2>1
  <1>4. Min(D) = k
    <2> HIDE DEF D
    <2> QED BY <1>2, <1>3, MinIs
  <1> QED BY <1>2, <1>4 DEF Meaning

-----------------------------------------------------------------------------
(* What one router's goroutine keeps true.                                 *)

\* The output before iteration i, of those printed so far.
AtBefore(outs, i) == IF i = 0 THEN <<>> ELSE outs[i]

\* The results before the place l are left to the next ones, what comes before it in this
\* one has been read and counted, and check finds the value it is to look at.
InLoop(t, l, now, before, i, kept) ==
    /\ l.result - 1 <= Len(now)
    /\ \A k \in 1..(l.result - 1) : ResultMeaning(t, now, before, i, k) = "next"
    /\ l.pc \in {"store", "check"} => Engaged(t, l, now, before, i)
    /\ l.pc = "check" =>
          /\ IsThere(t, now, l.result, l.match, l.field)
          /\ kept = [number |-> t.fields[l.field].number, value |-> AtPlace(t, l, now)]

Control(p, l, outs, vs, st) ==
    l.pc \in {"match", "store", "check"} =>
       InLoop(p.test, l, outs[Len(outs)], AtBefore(outs, Len(vs)), Len(vs), st[Len(vs)])

\* Tests that look at the iteration before; what they find of it in the ValuesStore.
Watches(t) == t.pattern /\ \E f \in DOMAIN t.fields : LooksBack(t.fields[f])
StoredAt(st, i, n) == IF st[i].number = n THEN st[i].value ELSE Nil
Keeps(t, st, i, out) ==
    StoredAt(st, i, t.fields[1].number) = At(out, 1, t.occurrence, t.fields[1].number)

\* For these tests the ValuesStore holds the field of every iteration, as long as all
\* could be read.
History(p, l, outs, vs, st) ==
    (Watches(p.test) /\ l.pc \notin {"failed", "panicked"}) =>
       /\ \A j \in 0..(Len(vs) - 1) : Keeps(p.test, st, j, outs[j + 1])
       /\ \A j \in (Len(vs) + 1)..(p.times - 1) : st[j] = Empty
       /\ (l.pc = "idle" /\ Len(vs) < p.times) => st[Len(vs)] = Empty
       /\ l.pc = "store" => st[Len(vs)] = Empty
       /\ (l.pc = "match" /\ l.result = 1) => st[Len(vs)] = Empty
       /\ (l.pc = "match" /\ l.result # 1) => Keeps(p.test, st, Len(vs), outs[Len(outs)])

Answered(p, outs, vs) ==
    \A j \in 1..Len(vs) : vs[j] = Meaning(p.test, outs[j], AtBefore(outs, j - 1), j - 1)

Good(p, l, outs, vs, st) ==
    Control(p, l, outs, vs, st) /\ History(p, l, outs, vs, st) /\ Answered(p, outs, vs)

VerdictInv ==
    TypeInv /\ \A r \in Routers : Good(plan, run[r], printed[r], verdicts[r], store)

Before(r) == AtBefore(printed[r], Iteration(r))

\* The invariant, where a router is in an iteration.
LEMMA AtWork ==
    ASSUME VerdictInv, NEW r \in Routers, run[r].pc \in {"match", "store", "check"}
    PROVE  /\ InLoop(test, run[r], Results(r), Before(r), Iteration(r), store[Iteration(r)])
           /\ Results(r) \in Seq(CmdResult) /\ run[r] \in Local /\ test \in Test
           /\ Len(printed[r]) = Iteration(r) + 1 /\ Iteration(r) \in 0..(plan.times - 1)
           /\ Len(Results(r)) \in Nat
  <1>1. TypeInv /\ Good(plan, run[r], printed[r], verdicts[r], store)
    BY DEF VerdictInv
  <1>2. /\ Results(r) \in Seq(CmdResult) /\ run[r] \in Local /\ test \in Test
        /\ Len(printed[r]) = Iteration(r) + 1 /\ Iteration(r) \in 0..(plan.times - 1)
    BY <1>1, OutputTypes, PlanTypes DEF TypeInv
  <1>3. InLoop(test, run[r], Results(r), Before(r), Iteration(r), store[Iteration(r)])
    BY <1>1 DEF Good, Control, Results, Before, Iteration, test
  <1> QED BY <1>2, <1>3, LenProperties

\* What a test that watches an iteration looks like.
LEMMA WatchesOne ==
    ASSUME TypeInv, NEW r \in Routers, run[r].pc \in {"match", "store", "check"},
           Judged(plan), Watches(test)
    PROVE  /\ Len(test.fields) = 1 /\ test.occurrence # 0 /\ test.occurrences = {}
           /\ Len(Results(r)) <= 1
  <1>1. /\ Len(test.fields) = 1 /\ test.occurrence # 0 /\ test.occurrences = {}
        /\ \A out \in plan.outputs : Len(out) <= 1
    BY DEF Judged, Watches, test
  <1>2. Results(r) \in plan.outputs
    <2>1. Len(printed[r]) = Iteration(r) + 1 /\ Iteration(r) \in 0..(plan.times - 1)
      BY OutputTypes
    <2>2. Len(printed[r]) \in 1..Len(printed[r]) /\ printed[r] \in Seq(plan.outputs)
      BY <2>1, Own
    <2> QED BY <2>2, ElementOfSeq DEF Results
  <1> QED BY <1>1, <1>2

\* In a judged plan the field looked at is one of a line that is not empty.
LEMMA JudgedPlace ==
    ASSUME TypeInv, NEW r \in Routers, run[r].pc \in {"store", "check"}, Judged(plan)
    PROVE  /\ FieldOf(r).number >= 0 /\ ~InEmptyLine(Result(r).text, Hit(r))
           /\ FieldOfMatch(Result(r).text, Hit(r), FieldOf(r).number) = AtPlace(test, run[r], Results(r))
           /\ AtPlace(test, run[r], Results(r)) \in Seq(Chars) \cup {Missing}
  <1> DEFINE l == run[r]
             now == Results(r)
  <1>1. /\ Reached(test, l, now) /\ now \in Seq(CmdResult) /\ l \in Local /\ test \in Test
    BY ValueIs, OutputTypes, PlanTypes DEF TypeInv
  <1>2. now \in plan.outputs
    <2>1. Len(printed[r]) = Iteration(r) + 1 /\ Iteration(r) \in 0..(plan.times - 1)
      BY OutputTypes
    <2>2. Len(printed[r]) \in 1..Len(printed[r]) /\ printed[r] \in Seq(plan.outputs)
      BY <2>1, Own
    <2> QED BY <2>2, ElementOfSeq DEF Results
  <1>3. /\ l.field \in DOMAIN test.fields /\ l.result \in DOMAIN now
        /\ l.match \in DOMAIN now[l.result].hits
    BY <1>1, ReachedTypes, LenProperties DEF Reached
  <1>4. FieldOf(r).number >= 0
    BY <1>3 DEF Judged, FieldOf, test
  <1>5. ~InEmptyLine(now[l.result].text, now[l.result].hits[l.match])
    BY <1>2, <1>3 DEF Judged
  <1>6. Result(r).text = now[l.result].text /\ Hit(r) = now[l.result].hits[l.match]
    BY DEF Result, Hit, Matches
  <1>7. AtPlace(test, l, now) =
            FieldOfMatch(now[l.result].text, now[l.result].hits[l.match], test.fields[l.field].number)
    BY <1>3 DEF AtPlace, At
  <1>8. now[l.result].text \in Seq(Chars)
    BY <1>1, ReachedTypes
  <1>9. AtPlace(test, l, now) \in Seq(Chars) \cup {Missing}
    BY <1>7, <1>8, MatchTypes
  <1> QED BY <1>4, <1>5, <1>6, <1>7, <1>9 DEF FieldOf

\* check reads the value of this iteration and, where the operation asks for it, of the
\* one before.
LEMMA FiresAlike ==
    ASSUME NEW field \in Field, NEW i \in Nat, NEW now, NEW old, NEW before,
           field.operation \in Operations, LooksBack(field) /\ i > 0 => old = before
    PROVE  /\ Fires(field, i, now, old) \in BOOLEAN
           /\ Fires(field, i, now, old) <=> Fires(field, i, now, before)
  <1>2. CASE field.operation = "compare_with_previous_neq"
    <2>1. LooksBack(field)
      BY <1>2 DEF LooksBack
    <2>2. \A x : Fires(field, i, now, x) = (i > 0 /\ now # x)
      BY <1>2 DEF Fires
    <2> QED BY <2>1, <2>2
  <1>3. CASE field.operation = "compare_with_previous_eq"
    <2>1. LooksBack(field)
      BY <1>3 DEF LooksBack
    <2>2. \A x : Fires(field, i, now, x) = (i > 0 /\ now = x)
      BY <1>3 DEF Fires
    <2> QED BY <2>1, <2>2
  <1>4. CASE field.operation = "compare_with_value_neq"
    <2>1. \A x : Fires(field, i, now, x) = (now # field.value)
      BY <1>4 DEF Fires
    <2> QED BY <2>1
  <1>5. CASE field.operation = "compare_with_value_eq"
    <2>1. \A x : Fires(field, i, now, x) = (now = field.value)
      BY <1>5 DEF Fires
    <2> QED BY <2>1
  <1>6. CASE field.operation = "contain_substring"
    <2>1. \A x : Fires(field, i, now, x) = ~HasPart(now, field.value)
      BY <1>6 DEF Fires
    <2> QED BY <2>1
  <1>7. CASE field.operation = "not_contain_substring"
    <2>1. \A x : Fires(field, i, now, x) = HasPart(now, field.value)
      BY <1>7 DEF Fires
    <2>2. HasPart(now, field.value) \in BOOLEAN
      BY DEF HasPart
    <2> QED BY <2>1, <2>2
  <1> QED BY <1>2, <1>3, <1>4, <1>5, <1>6, <1>7 DEF Operations

LEMMA CheckIs ==
    ASSUME VerdictInv, NEW r \in Routers, run[r].pc = "check", Judged(plan),
           FieldOf(r).operation \in Operations
    PROVE  /\ Check(r) \in BOOLEAN
           /\ Check(r) <=> Fired(test, Results(r), Before(r), Iteration(r), run[r].result,
                                 run[r].match, run[r].field)
  <1> DEFINE l == run[r]
             now == Results(r)
             before == Before(r)
             i == Iteration(r)
             n == FieldOf(r).number
             cur == At(now, l.result, l.match, n)
             past == At(before, l.result, l.match, n)
             old == IF i = 0 THEN Nil ELSE Stored(i - 1, n)
  <1>1. /\ InLoop(test, l, now, before, i, store[i]) /\ now \in Seq(CmdResult) /\ l \in Local
        /\ test \in Test /\ Len(printed[r]) = i + 1 /\ i \in Nat /\ Len(now) \in Nat /\ TypeInv
    BY AtWork DEF VerdictInv
  <1>2. Reached(test, l, now)
    BY <1>1, ValueIs
  <1>3. FieldOf(r) \in Field /\ l.field \in 1..Len(test.fields) /\ FieldOf(r) = test.fields[l.field]
    BY <1>1, <1>2, ReachedTypes DEF FieldOf
  <1>4. store[i] = [number |-> n, value |-> cur]
    BY <1>1, <1>3 DEF InLoop, AtPlace
  <1>5. Stored(i, n) = cur
    BY <1>4 DEF Stored
  <1>6. ASSUME LooksBack(FieldOf(r)), i > 0 PROVE old = past
    <2>1. Watches(test)
      <3>1. l.field \in DOMAIN test.fields /\ test.pattern
        BY <1>2 DEF Reached
      <3> QED BY <1>3, <1>6, <3>1 DEF Watches
    <2>2. Len(test.fields) = 1 /\ test.occurrence # 0 /\ Len(now) <= 1
      BY <1>1, <2>1, WatchesOne
    <2>3. l.field = 1 /\ l.result = 1 /\ l.match = test.occurrence
      <3>1. /\ l.result \in 1..Len(now) /\ l.match \in Nat /\ test.occurrence \in Nat
            /\ FirstOf(test) <= l.match /\ l.match <= LastOf(test, now[l.result].hits)
        BY <1>1, <1>2, ReachedTypes DEF Reached, Local
      <3>2. FirstOf(test) = test.occurrence /\ LastOf(test, now[l.result].hits) = test.occurrence
        BY <2>2 DEF FirstOf, LastOf
      <3> QED BY <1>1, <1>3, <2>2, <3>1, <3>2
    <2>4. n = test.fields[1].number
      BY <1>3, <2>3
    <2>5. Keeps(test, store, i - 1, printed[r][i])
      <3>1. History(plan, l, printed[r], verdicts[r], store)
        BY DEF VerdictInv, Good
      <3>2. \A j \in 0..(Len(verdicts[r]) - 1) : Keeps(test, store, j, printed[r][j + 1])
        BY <2>1, <3>1 DEF History, test
      <3>3. Len(verdicts[r]) = i
        BY DEF Iteration
      <3>4. i - 1 \in 0..(i - 1) /\ i - 1 + 1 = i
        BY <1>1, <1>6
      <3> HIDE DEF i
      <3>5. Keeps(test, store, i - 1, printed[r][i - 1 + 1])
        BY <3>2, <3>3, <3>4
      <3> QED BY <3>4, <3>5
    <2>6. before = printed[r][i]
      BY <1>6 DEF Before, AtBefore
    <2>7. old = Stored(i - 1, n)
      BY <1>6
    <2>8. Stored(i - 1, n) = At(printed[r][i], 1, test.occurrence, n)
      BY <2>4, <2>5 DEF Keeps, StoredAt, Stored
    <2> QED BY <2>3, <2>6, <2>7, <2>8
  <1>7. Check(r) = Fires(FieldOf(r), i, Stored(i, n), old)
    BY DEF Check
  <1>8. Fired(test, now, before, i, l.result, l.match, l.field) = Fires(FieldOf(r), i, cur, past)
    BY <1>3 DEF Fired
  <1> HIDE DEF l, now, before, i, n, cur, past, old
  <1>9. /\ Fires(FieldOf(r), i, cur, old) \in BOOLEAN
        /\ Fires(FieldOf(r), i, cur, old) <=> Fires(FieldOf(r), i, cur, past)
    BY <1>1, <1>3, <1>6, FiresAlike
  <1> QED BY <1>5, <1>7, <1>8, <1>9 DEF l, now, before, i

-----------------------------------------------------------------------------
(* Every step of the goroutine keeps it true.                              *)

\* A step of the only router that leads to a good state does.
LEMMA GoodTurn ==
    ASSUME VerdictInv, TypeInv', NEW r, Routers = {r}, NEW l, NEW outs, NEW vs,
           Turn(r, l, outs, vs), Good(plan, l, outs, vs, store')
    PROVE  VerdictInv'
  <1>1. /\ run \in [Routers -> Local] /\ printed \in [Routers -> Seq(plan.outputs)]
        /\ verdicts \in [Routers -> Seq(Verdicts)]
    BY DEF VerdictInv, TypeInv, TypeOK, Local, Verdicts
  <1>2. /\ plan' = plan /\ run'[r] = l /\ printed'[r] = outs /\ verdicts'[r] = vs
    BY <1>1 DEF Turn
  <1>3. \A q \in Routers : Good(plan', run'[q], printed'[q], verdicts'[q], store')
    BY <1>2
  <1> QED BY <1>3 DEF VerdictInv

\* The router answers what the test means.
LEMMA AnswerGood ==
    ASSUME VerdictInv, NEW r \in Routers, run[r].pc \in {"match", "store", "check"},
           NEW v \in Verdicts, v = Meaning(test, Results(r), Before(r), Iteration(r)),
           (Watches(test) /\ v \notin {"error", "panic"}) =>
               Keeps(test, store, Iteration(r), Results(r))
    PROVE  Good(plan, After(v), printed[r], Append(verdicts[r], v), store)
  <1> DEFINE outs == printed[r]
             old == verdicts[r]
             vs == Append(old, v)
             i == Iteration(r)
             l == After(v)
  <1>1. /\ Len(outs) = i + 1 /\ i \in Nat /\ i = Len(old) /\ Results(r) = outs[i + 1]
        /\ old \in Seq(Verdicts) /\ TypeInv
    <2>1. TypeInv
      BY DEF VerdictInv
    <2> QED BY <2>1, AtWork, Own
  <1>2. /\ Len(vs) = i + 1 /\ vs[i + 1] = v
        /\ \A j \in 1..i : vs[j] = old[j]
    <2> HIDE DEF i, old
    <2> QED BY <1>1, AppendProperties
  <1>3. /\ l.pc \notin {"match", "store", "check"}
        /\ l.pc \notin {"failed", "panicked"} => v \notin {"error", "panic"}
    BY Places
  <1>4. Control(plan, run[r], outs, old, store) /\ History(plan, run[r], outs, old, store)
        /\ Answered(plan, outs, old)
    BY DEF VerdictInv, Good
  <1>5. Before(r) = AtBefore(outs, i)
    BY DEF Before
  <1> HIDE DEF outs, old, vs, i, l
  <1>6. Control(plan, l, outs, vs, store)
    BY <1>3 DEF Control
  <1>7. Answered(plan, outs, vs)
    <2>1. ASSUME NEW j \in 1..(i + 1)
          PROVE  vs[j] = Meaning(plan.test, outs[j], AtBefore(outs, j - 1), j - 1)
      <3>1. CASE j \in 1..i
        BY <1>1, <1>2, <1>4, <3>1 DEF Answered
      <3>2. CASE j = i + 1
        <4>1. j - 1 = i
          BY <1>1, <3>2
        <4>2. v = Meaning(plan.test, outs[i + 1], AtBefore(outs, i), i)
          BY <1>1, <1>5 DEF i, test
        <4> QED BY <1>2, <3>2, <4>1, <4>2
      <3> QED BY <1>1, <3>1, <3>2
    <2> QED BY <1>2, <2>1 DEF Answered
  <1>8. History(plan, l, outs, vs, store)
    <2> SUFFICES ASSUME Watches(plan.test), l.pc \notin {"failed", "panicked"}
                 PROVE  /\ \A j \in 0..(Len(vs) - 1) : Keeps(plan.test, store, j, outs[j + 1])
                        /\ \A j \in (Len(vs) + 1)..(plan.times - 1) : store[j] = Empty
                        /\ Len(vs) < plan.times => store[Len(vs)] = Empty
      BY <1>3 DEF History
    <2>1. run[r].pc \notin {"failed", "panicked"}
      OBVIOUS
    <2>2. /\ \A j \in 0..(i - 1) : Keeps(plan.test, store, j, outs[j + 1])
          /\ \A j \in (i + 1)..(plan.times - 1) : store[j] = Empty
      BY <1>1, <1>4, <2>1 DEF History
    <2>3. Keeps(plan.test, store, i, outs[i + 1])
      BY <1>1, <1>3 DEF test, i
    <2>4. \A j \in 0..(Len(vs) - 1) : j \in 0..(i - 1) \/ j = i
      BY <1>1, <1>2
    <2>5. plan.times \in Nat
      BY <1>1, PlanTypes DEF TypeInv
    <2>6. \A j \in (Len(vs) + 1)..(plan.times - 1) : j \in (i + 1)..(plan.times - 1)
      BY <1>1, <1>2, <2>5
    <2>7. Len(vs) < plan.times => Len(vs) \in (i + 1)..(plan.times - 1)
      BY <1>1, <1>2, <2>5
    <2> QED BY <2>2, <2>3, <2>4, <2>6, <2>7
  <1>9. Good(plan, l, outs, vs, store)
    BY <1>6, <1>7, <1>8 DEF Good
  <1> QED BY <1>9 DEF l, outs, vs, old

\* The router goes on with the next result.
LEMMA NextResultGood ==
    ASSUME VerdictInv, NEW r \in Routers, run[r].pc \in {"match", "store", "check"},
           run[r].result <= Len(Results(r)),
           ResultMeaning(test, Results(r), Before(r), Iteration(r), run[r].result) = "next",
           Watches(test) => Keeps(test, store, Iteration(r), Results(r))
    PROVE  Good(plan, AtResult(run[r].result + 1), printed[r], verdicts[r], store)
  <1> DEFINE k == run[r].result
             l == AtResult(k + 1)
  <1>1. /\ InLoop(test, run[r], Results(r), Before(r), Iteration(r), store[Iteration(r)])
        /\ k \in Nat \ {0} /\ Len(Results(r)) \in Nat
    BY AtWork DEF Local
  <1>2. l.pc = "match" /\ l.result = k + 1
    <2>1. k + 1 \in Nat \ {0}
      BY <1>1
    <2> QED BY <2>1, Places
  <1>3. l.result - 1 = k /\ l.result # 1 /\ k <= Len(Results(r))
    BY <1>1, <1>2
  <1>4. \A j \in 1..k : ResultMeaning(test, Results(r), Before(r), Iteration(r), j) = "next"
    <2>1. \A j \in 1..k : j \in 1..(k - 1) \/ j = k
      BY <1>1
    <2> QED BY <1>1, <2>1 DEF InLoop
  <1>5. /\ History(plan, run[r], printed[r], verdicts[r], store) /\ Answered(plan, printed[r], verdicts[r])
        /\ Iteration(r) = Len(verdicts[r]) /\ Results(r) = printed[r][Len(printed[r])]
    BY Own DEF VerdictInv, Good
  <1> HIDE DEF l, k
  <1>6. InLoop(test, l, Results(r), Before(r), Iteration(r), store[Iteration(r)])
    BY <1>2, <1>3, <1>4 DEF InLoop
  <1>7. Control(plan, l, printed[r], verdicts[r], store)
    BY <1>5, <1>6 DEF Control, Before, test
  <1>8. History(plan, l, printed[r], verdicts[r], store)
    BY <1>2, <1>3, <1>5 DEF History, test
  <1>9. Good(plan, l, printed[r], verdicts[r], store)
    BY <1>5, <1>7, <1>8 DEF Good
  <1> QED BY <1>9 DEF l, k

\* The router goes on within a result.
LEMMA InResultGood ==
    ASSUME VerdictInv, NEW r \in Routers, run[r].pc \in {"match", "store", "check"},
           NEW l, l.pc = "store", l.result = run[r].result,
           Engaged(test, l, Results(r), Before(r), Iteration(r)),
           Watches(test) => store[Iteration(r)] = Empty
    PROVE  Good(plan, l, printed[r], verdicts[r], store)
  <1>1. /\ InLoop(test, run[r], Results(r), Before(r), Iteration(r), store[Iteration(r)])
        /\ History(plan, run[r], printed[r], verdicts[r], store) /\ Answered(plan, printed[r], verdicts[r])
        /\ Iteration(r) = Len(verdicts[r]) /\ Results(r) = printed[r][Len(printed[r])]
    BY AtWork, Own DEF VerdictInv, Good
  <1>2. InLoop(test, l, Results(r), Before(r), Iteration(r), store[Iteration(r)])
    BY <1>1 DEF InLoop
  <1>3. Control(plan, l, printed[r], verdicts[r], store)
    BY <1>1, <1>2 DEF Control, Before, test
  <1>4. History(plan, l, printed[r], verdicts[r], store)
    BY <1>1 DEF History, test
  <1> QED BY <1>1, <1>3, <1>4 DEF Good

LEMMA BeginGood ==
    ASSUME VerdictInv, NEW r, Routers = {r}, Begin(r)
    PROVE  VerdictInv'
  <1> DEFINE outs == printed[r]
             vs == verdicts[r]
             l == AtResult(1)
  <1>0. TypeInv /\ TypeOK /\ TypeInv' /\ r \in Routers
    BY TypeTurn DEF VerdictInv, TypeInv
  <1>1. store' = store /\ run[r].pc = "idle" /\ Len(vs) < plan.times
    BY <1>0, BeginIs DEF Iteration
  <1>2. PICK out \in plan.outputs : Turn(r, l, Append(outs, out), vs)
    BY <1>0, BeginIs
  <1> DEFINE more == Append(outs, out)
  <1>3. /\ outs \in Seq(plan.outputs) /\ Len(outs) = Len(vs) /\ Len(vs) \in Nat
    BY <1>0, <1>1, Own DEF Placed
  <1>4. l.pc = "match" /\ l.result = 1
    BY Places
  <1>5. /\ History(plan, run[r], outs, vs, store) /\ Answered(plan, outs, vs)
    BY <1>0 DEF VerdictInv, Good
  <1>6. Len(out) \in Nat
    <2>1. out \in Seq(CmdResult)
      BY <1>0, PlanTypes
    <2> QED BY <2>1, LenProperties
  <1> HIDE DEF outs, vs, l
  <1>7. /\ Len(more) = Len(vs) + 1 /\ more[Len(vs) + 1] = out
        /\ \A j \in 1..Len(vs) : more[j] = outs[j]
    BY <1>3, AppendProperties
  <1> HIDE DEF more
  <1>8. Control(plan, l, more, vs, store)
    <2>1. l.result - 1 = 0 /\ 1..(l.result - 1) = {} /\ 0 <= Len(out)
      BY <1>4, <1>6
    <2>2. \A b, i, k : InLoop(plan.test, l, out, b, i, k)
      BY <1>4, <2>1 DEF InLoop
    <2> QED BY <1>7, <2>2 DEF Control
  <1>9. Answered(plan, more, vs)
    <2>1. ASSUME NEW j \in 1..Len(vs)
          PROVE  vs[j] = Meaning(plan.test, more[j], AtBefore(more, j - 1), j - 1)
      <3>1. j - 1 = 0 \/ j - 1 \in 1..Len(vs)
        BY <1>3
      <3>2. AtBefore(more, j - 1) = AtBefore(outs, j - 1)
        BY <1>7, <3>1 DEF AtBefore
      <3> QED BY <1>5, <1>7, <3>2 DEF Answered
    <2> QED BY <2>1 DEF Answered
  <1>10. History(plan, l, more, vs, store)
    <2> SUFFICES ASSUME Watches(plan.test)
                 PROVE  /\ \A j \in 0..(Len(vs) - 1) : Keeps(plan.test, store, j, more[j + 1])
                        /\ \A j \in (Len(vs) + 1)..(plan.times - 1) : store[j] = Empty
                        /\ store[Len(vs)] = Empty
      BY <1>4 DEF History
    <2>1. /\ \A j \in 0..(Len(vs) - 1) : Keeps(plan.test, store, j, outs[j + 1])
          /\ \A j \in (Len(vs) + 1)..(plan.times - 1) : store[j] = Empty
          /\ store[Len(vs)] = Empty
      BY <1>1, <1>5 DEF History
    <2>2. \A j \in 0..(Len(vs) - 1) : j + 1 \in 1..Len(vs)
      BY <1>3
    <2> QED BY <1>7, <2>1, <2>2
  <1>11. Good(plan, l, more, vs, store')
    BY <1>1, <1>8, <1>9, <1>10 DEF Good
  <1> QED BY <1>0, <1>2, <1>11, GoodTurn DEF more, l, outs, vs

\* The answer of a router leads to a good state.
LEMMA AnswerTurn ==
    ASSUME VerdictInv, TypeInv', NEW r, Routers = {r}, run[r].pc \in {"match", "store", "check"},
           NEW v \in Verdicts, v = Meaning(test, Results(r), Before(r), Iteration(r)),
           (Watches(test) /\ v \notin {"error", "panic"}) =>
               Keeps(test, store, Iteration(r), Results(r)),
           store' = store, Turn(r, After(v), printed[r], Append(verdicts[r], v))
    PROVE  VerdictInv'
  <1>1. r \in Routers
    OBVIOUS
  <1>2. Good(plan, After(v), printed[r], Append(verdicts[r], v), store)
    BY <1>1, AnswerGood
  <1> QED BY <1>2, GoodTurn

\* An output without results, or a result without the occurrence, leaves the ValuesStore
\* as it was, and the test finds no value there.
LEMMA KeepsNothing ==
    ASSUME NEW t, NEW st, NEW i, st[i] = Empty, NEW out,
           1 \in DOMAIN out => t.occurrence \notin DOMAIN out[1].hits
    PROVE  Keeps(t, st, i, out)
  <1>1. \A n : StoredAt(st, i, n) = Nil
    BY DEF StoredAt, Empty
  <1>2. \A n : At(out, 1, t.occurrence, n) = Nil
    BY DEF At
  <1> QED BY <1>1, <1>2 DEF Keeps

LEMMA NoMoreResultsGood ==
    ASSUME VerdictInv, NEW r, Routers = {r}, NoMoreResults(r), Judged(plan)
    PROVE  VerdictInv'
  <1> DEFINE l == run[r]
             now == Results(r)
  <1>0. TypeInv /\ TypeOK /\ TypeInv' /\ r \in Routers
    BY TypeTurn DEF VerdictInv, TypeInv
  <1>1. /\ store' = store /\ l.pc = "match" /\ l.result > Len(now)
        /\ Turn(r, After("quiet"), printed[r], Append(verdicts[r], "quiet"))
    BY <1>0, NoMoreResultsIs
  <1>2. /\ InLoop(test, l, now, Before(r), Iteration(r), store[Iteration(r)])
        /\ now \in Seq(CmdResult) /\ l \in Local /\ Len(now) \in Nat /\ DOMAIN now = 1..Len(now)
    BY <1>0, <1>1, AtWork, LenProperties
  <1>3. Meaning(test, now, Before(r), Iteration(r)) = "quiet"
    <2>1. l.result - 1 = Len(now)
      BY <1>1, <1>2 DEF InLoop, Local
    <2> HIDE DEF l, now
    <2>2. \A k \in DOMAIN now : ResultMeaning(test, now, Before(r), Iteration(r), k) = "next"
      BY <1>2, <2>1 DEF InLoop
    <2> QED BY <2>2, NothingSaid
  <1>4. ASSUME Watches(test) PROVE Keeps(test, store, Iteration(r), now)
    <2>1. History(plan, l, printed[r], verdicts[r], store)
      BY <1>0 DEF VerdictInv, Good
    <2>2. CASE l.result = 1
      <3>1. store[Iteration(r)] = Empty
        BY <1>1, <1>4, <2>1, <2>2 DEF History, test, Iteration
      <3>2. 1 \notin DOMAIN now
        BY <1>1, <1>2, <2>2
      <3> HIDE DEF now
      <3> QED BY <3>1, <3>2, KeepsNothing
    <2>3. CASE l.result # 1
      BY <1>1, <1>4, <2>1, <2>3 DEF History, test, Iteration, Results
    <2> QED BY <2>2, <2>3
  <1>5. "quiet" \in Verdicts
    BY DEF Verdicts
  <1> QED BY <1>0, <1>1, <1>3, <1>4, <1>5, AnswerTurn

LEMMA FindMatchesGood ==
    ASSUME VerdictInv, NEW r, Routers = {r}, FindMatches(r), Judged(plan)
    PROVE  VerdictInv'
  <1> DEFINE l == run[r]
             now == Results(r)
             k == l.result
             hits == Matches(r)
             i == Iteration(r)
  <1>0. TypeInv /\ TypeOK /\ TypeInv' /\ r \in Routers
    BY TypeTurn DEF VerdictInv, TypeInv
  <1>1. store' = store /\ l.pc = "match" /\ k <= Len(now)
    BY <1>0, FindMatchesIs
  <1>2. /\ InLoop(test, l, now, Before(r), i, store[i]) /\ test \in Test
        /\ now \in Seq(CmdResult) /\ l \in Local /\ Len(now) \in Nat /\ DOMAIN now = 1..Len(now)
    BY <1>0, <1>1, AtWork, LenProperties
  <1>3. k \in 1..Len(now) /\ hits = now[k].hits
    BY <1>0, <1>1, <1>2, Own DEF Local
  <1>4. hits \in Seq(Nat) /\ Len(hits) \in Nat /\ DOMAIN hits = 1..Len(hits)
    <2>1. now[k] \in CmdResult
      BY <1>2, <1>3, ElementOfSeq
    <2>2. now[k].hits \in Seq(Nat)
      BY <2>1 DEF CmdResult
    <2> QED BY <1>3, <2>2, LenProperties
  <1>5. \A j \in 1..(k - 1) : ResultMeaning(test, now, Before(r), i, j) = "next"
    BY <1>2 DEF InLoop
  <1>0a. 0 <= test.occurrence /\ test.occurrence \in Nat
    <2>1. plan.test.occurrence >= 0
      BY DEF Judged
    <2>2. test.occurrence \in Int
      BY <1>0, PlanTypes
    <2> QED BY <2>1, <2>2 DEF test
  <1>6. ASSUME Watches(test)
        PROVE  /\ k = 1 /\ store[i] = Empty /\ test.occurrence # 0 /\ test.pattern
               /\ test.occurrences = {} /\ test.fields # <<>> /\ test.occurrence \in Nat
    <2>1. /\ Len(test.fields) = 1 /\ test.occurrence # 0 /\ test.occurrences = {} /\ Len(now) <= 1
      BY <1>0, <1>1, <1>6, WatchesOne
    <2>2. k = 1
      BY <1>2, <1>3, <2>1
    <2>3. History(plan, l, printed[r], verdicts[r], store)
      BY <1>0 DEF VerdictInv, Good
    <2>4. store[i] = Empty
      BY <1>1, <1>6, <2>2, <2>3 DEF History, test, Iteration
    <2>5. test.fields # <<>>
      <3>1. Len(<<>>) = 0 /\ Len(test.fields) = 1
        BY <2>1, EmptySeq
      <3>2. 1 # 0
        OBVIOUS
      <3> QED BY <3>1, <3>2, Zenon
    <2> QED BY <1>0a, <1>2, <1>6, <2>1, <2>2, <2>4, <2>5 DEF Watches, Test
  <1>7. PICK v \in {"next", "fire", "quiet", "panic", "read"} :
             /\ Found(test, hits, v)
             /\ v = "next" => Turn(r, AtResult(k + 1), printed[r], verdicts[r])
             /\ v = "read" => Turn(r, AtFirst(l, test), printed[r], verdicts[r])
             /\ v \in {"fire", "quiet", "panic"} =>
                   Turn(r, After(v), printed[r], Append(verdicts[r], v))
    BY <1>0, FindMatchesIs
  <1> HIDE DEF l, now, k, hits, i
  <1>8. CASE v = "next"
    <2>1. ResultMeaning(test, now, Before(r), i, k) = "next"
      BY <1>3, <1>7, <1>8, ResultMeaningIs
    <2>2. Watches(test) => Keeps(test, store, i, now)
      <3>1. ASSUME Watches(test) PROVE test.occurrence \notin DOMAIN now[1].hits
        <4>1. hits = <<>>
          BY <1>6, <1>7, <1>8, <3>1 DEF Found
        <4>2. Len(hits) = 0 /\ k = 1
          BY <1>4, <1>6, <3>1, <4>1
        <4> QED BY <1>3, <1>4, <4>2
      <3> QED BY <1>6, <3>1, KeepsNothing
    <2>3. Good(plan, AtResult(k + 1), printed[r], verdicts[r], store)
      BY <1>0, <1>1, <2>1, <2>2, NextResultGood DEF l, now, k, i
    <2> QED BY <1>0, <1>1, <1>7, <1>8, <2>3, GoodTurn
  <1>9. CASE v = "fire"
    <2>1. ResultMeaning(test, now, Before(r), i, k) = "fire"
      BY <1>3, <1>7, <1>9, ResultMeaningIs
    <2>2. Meaning(test, now, Before(r), i) = "fire"
      BY <1>2, <1>3, <1>5, <2>1, FirstSaid
    <2>3. ~Watches(test)
      BY <1>6, <1>7, <1>9 DEF Found
    <2>4. "fire" \in Verdicts
      BY DEF Verdicts
    <2> QED BY <1>0, <1>1, <1>7, <1>9, <2>2, <2>3, <2>4, AnswerTurn DEF l, now, i
  <1>10. CASE v = "quiet"
    <2>1. ResultMeaning(test, now, Before(r), i, k) = "quiet"
      BY <1>3, <1>7, <1>10, ResultMeaningIs
    <2>2. Meaning(test, now, Before(r), i) = "quiet"
      BY <1>2, <1>3, <1>5, <2>1, FirstSaid
    <2>3. Watches(test) => Keeps(test, store, i, now)
      <3>1. ASSUME Watches(test) PROVE test.occurrence \notin DOMAIN now[1].hits
        <4>1. Len(hits) < test.occurrence
          BY <1>7, <1>10 DEF Found
        <4> QED BY <1>3, <1>4, <1>6, <3>1, <4>1
      <3> QED BY <1>6, <3>1, KeepsNothing
    <2>4. "quiet" \in Verdicts
      BY DEF Verdicts
    <2> QED BY <1>0, <1>1, <1>7, <1>10, <2>2, <2>3, <2>4, AnswerTurn DEF l, now, i
  <1>11. CASE v = "read"
    <2>1. l.field = 1 /\ l.perField = 0 /\ l.perOccurrence = 0
      BY <1>0, <1>1, Own DEF Placed, l
    <2>2. /\ AtFirst(l, test).pc = "store" /\ AtFirst(l, test).match = FirstOf(test)
          /\ AtFirst(l, test).result = l.result /\ AtFirst(l, test).field = 1
          /\ AtFirst(l, test).perField = 0 /\ AtFirst(l, test).perOccurrence = 0
          /\ AtFirst(l, test) \in Local
      BY <1>2, <1>3, <1>7, <1>11, <2>1, AtFirstIs DEF k
    <2>3. Engaged(test, AtFirst(l, test), now, Before(r), i)
      BY <1>0a, <1>2, <2>2, EngagedFirst
    <2>4. Good(plan, AtFirst(l, test), printed[r], verdicts[r], store)
      BY <1>0, <1>1, <1>6, <2>2, <2>3, InResultGood DEF l, now, i
    <2> QED BY <1>0, <1>1, <1>7, <1>11, <2>4, GoodTurn
  <1>12. v # "panic"
    BY <1>0a, <1>7 DEF Found
  <1> QED BY <1>8, <1>9, <1>10, <1>11, <1>12

LEMMA StoreValueGood ==
    ASSUME VerdictInv, NEW r, Routers = {r}, StoreValue(r), Judged(plan)
    PROVE  VerdictInv'
  <1> DEFINE l == run[r]
             now == Results(r)
             k == l.result
             i == Iteration(r)
             n == FieldOf(r).number
  <1>0. TypeInv /\ TypeOK /\ TypeInv' /\ r \in Routers
    BY TypeTurn DEF VerdictInv, TypeInv
  <1>1. l.pc = "store"
    BY <1>0, StoreValueIs
  <1>2. /\ InLoop(test, l, now, Before(r), i, store[i]) /\ test \in Test
        /\ now \in Seq(CmdResult) /\ l \in Local /\ i \in 0..(plan.times - 1)
    BY <1>0, <1>1, AtWork
  <1>3. Reached(test, l, now)
    BY <1>0, <1>1, ValueIs
  <1>4. Value(r) = AtPlace(test, l, now) /\ n = test.fields[l.field].number
    <2>1. Value(r) = AtPlace(test, l, now)
      BY <1>0, <1>1, ValueIs, JudgedPlace
    <2>2. n = test.fields[l.field].number
      BY DEF FieldOf
    <2> QED BY <2>1, <2>2
  <1>5. k \in 1..Len(now)
    BY <1>2, <1>3, ReachedTypes
  <1>6. Engaged(test, l, now, Before(r), i)
        /\ \A j \in 1..(k - 1) : ResultMeaning(test, now, Before(r), i, j) = "next"
    BY <1>1, <1>2 DEF InLoop
  <1>7. "error" \in Verdicts /\ "panic" \in Verdicts
    BY DEF Verdicts
  <1> HIDE DEF l, now, k, i, n
  <1>8. CASE Value(r) = Missing
    <2>1. ResultMeaning(test, now, Before(r), i, k) = "error"
      <3>1. ~HasRead(test, now, l.result, l.match, l.field)
        BY <1>4, <1>8 DEF HasRead, IsThere, AtPlace
      <3> QED BY <1>2, <1>3, <3>1, UnfitResult DEF k
    <2>2. Meaning(test, now, Before(r), i) = "error"
      BY <1>2, <1>5, <1>6, <2>1, FirstSaid
    <2>3. store' = store /\ Turn(r, After("error"), printed[r], Append(verdicts[r], "error"))
      BY <1>0, <1>8, StoreValueIs
    <2> QED BY <1>0, <1>1, <1>7, <2>2, <2>3, AnswerTurn DEF l, now, i
  <1>9. Value(r) # Panic
    <2>1. AtPlace(test, l, now) \in Seq(Chars) \cup {Missing}
      BY <1>0, <1>1, JudgedPlace DEF l, now
    <2> QED BY <1>4, <2>1, NoValues
  <1>10. CASE Value(r) \notin {Missing, Panic}
    <2> DEFINE m == [l EXCEPT !.pc = "check"]
               e == [number |-> n, value |-> Value(r)]
    <2>1. Turn(r, m, printed[r], verdicts[r]) /\ store' = [store EXCEPT ![i] = e]
      BY <1>0, <1>10, StoreValueIs DEF l, i, n
    <2>2. /\ m.pc = "check" /\ m.result = k /\ m.match = l.match /\ m.field = l.field
          /\ m.perField = l.perField /\ m.perOccurrence = l.perOccurrence
      BY <1>2 DEF Local, k
    <2> HIDE DEF m, e
    <2>3. store'[i] = e /\ \A j \in 0..(plan.times - 1) : j # i => store'[j] = store[j]
      <3>1. store \in [0..(plan.times - 1) -> Values]
        BY <1>0, Own
      <3> QED BY <1>2, <2>1, <3>1
    <2>4. InLoop(test, m, now, Before(r), i, store'[i])
      <3>1. Engaged(test, m, now, Before(r), i)
        BY <1>6, <2>2 DEF Engaged, k
      <3>2. IsThere(test, now, m.result, m.match, m.field)
        BY <1>4, <1>10, <2>2 DEF IsThere, AtPlace, k
      <3>3. AtPlace(test, m, now) = Value(r)
        BY <1>4, <2>2 DEF AtPlace, k
      <3>4. e = [number |-> test.fields[m.field].number, value |-> AtPlace(test, m, now)]
        BY <1>4, <2>2, <3>3 DEF e
      <3>5. m.result - 1 <= Len(now) /\ \A j \in 1..(m.result - 1) : ResultMeaning(test, now, Before(r), i, j) = "next"
        BY <1>2, <2>2 DEF InLoop, k
      <3> QED BY <2>2, <2>3, <3>1, <3>2, <3>4, <3>5 DEF InLoop
    <2>5. /\ History(plan, l, printed[r], verdicts[r], store) /\ Answered(plan, printed[r], verdicts[r])
          /\ i = Len(verdicts[r]) /\ now = printed[r][Len(printed[r])]
      BY <1>0, Own DEF VerdictInv, Good, l, i, now
    <2>6. Control(plan, m, printed[r], verdicts[r], store')
      BY <2>4, <2>5 DEF Control, Before, test, i
    <2>7. History(plan, m, printed[r], verdicts[r], store')
      <3> SUFFICES ASSUME Watches(plan.test)
                   PROVE  /\ \A j \in 0..(i - 1) : Keeps(plan.test, store', j, printed[r][j + 1])
                          /\ \A j \in (i + 1)..(plan.times - 1) : store'[j] = Empty
        BY <2>2, <2>5 DEF History
      <3>1. /\ \A j \in 0..(i - 1) : Keeps(plan.test, store, j, printed[r][j + 1])
            /\ \A j \in (i + 1)..(plan.times - 1) : store[j] = Empty
        BY <1>1, <2>5 DEF History
      <3>2. plan.times \in Nat
        BY <1>0, PlanTypes
      <3>3. \A j \in 0..(i - 1) : j \in 0..(plan.times - 1) /\ j # i
        BY <1>2, <3>2
      <3>4. \A j \in (i + 1)..(plan.times - 1) : j \in 0..(plan.times - 1) /\ j # i
        BY <1>2, <3>2
      <3>5. ASSUME NEW j \in 0..(i - 1) PROVE Keeps(plan.test, store', j, printed[r][j + 1])
        <4>1. store'[j] = store[j]
          BY <2>3, <3>3
        <4>2. Keeps(plan.test, store, j, printed[r][j + 1])
          BY <3>1
        <4> QED BY <4>1, <4>2 DEF Keeps, StoredAt
      <3> QED BY <2>3, <3>1, <3>4, <3>5
    <2>8. Good(plan, m, printed[r], verdicts[r], store')
      BY <2>5, <2>6, <2>7 DEF Good
    <2> QED BY <1>0, <2>1, <2>8, GoodTurn
  <1> QED BY <1>8, <1>9, <1>10

LEMMA CheckFieldGood ==
    ASSUME VerdictInv, NEW r, Routers = {r}, CheckField(r), Judged(plan)
    PROVE  VerdictInv'
  <1> DEFINE l == run[r]
             now == Results(r)
             k == l.result
             hits == Matches(r)
             i == Iteration(r)
             c == Check(r)
  <1>0. TypeInv /\ TypeOK /\ TypeInv' /\ r \in Routers
    BY TypeTurn DEF VerdictInv, TypeInv
  <1>1. store' = store /\ l.pc = "check"
    BY <1>0, CheckFieldIs
  <1>2. /\ InLoop(test, l, now, Before(r), i, store[i]) /\ test \in Test
        /\ now \in Seq(CmdResult) /\ l \in Local
    BY <1>0, <1>1, AtWork
  <1>3. Reached(test, l, now) /\ hits = now[k].hits
    BY <1>0, <1>1, ValueIs, Own
  <1>4. ASSUME ~CheckFails(r)
        PROVE  /\ c \in BOOLEAN
               /\ c <=> Fired(test, now, Before(r), i, l.result, l.match, l.field)
    <2>1. FieldOf(r).operation \in Operations
      BY <1>4 DEF CheckFails
    <2> QED BY <1>0, <1>1, <2>1, CheckIs
  <1>5. /\ Engaged(test, l, now, Before(r), i) /\ IsThere(test, now, l.result, l.match, l.field)
        /\ \A j \in 1..(k - 1) : ResultMeaning(test, now, Before(r), i, j) = "next"
        /\ store[i] = [number |-> test.fields[l.field].number, value |-> AtPlace(test, l, now)]
    BY <1>1, <1>2 DEF InLoop
  <1>6. /\ k \in 1..Len(now) /\ l.field \in 1..Len(test.fields) /\ Len(test.fields) \in Nat
        /\ l.match \in Nat /\ FirstOf(test) <= l.match /\ l.match <= LastOf(test, hits)
        /\ Len(now) \in Nat
    BY <1>2, <1>3, ReachedTypes, LenProperties DEF Reached, Local
  <1>7. ASSUME Watches(test)
        PROVE  /\ l.field = 1 /\ Len(test.fields) = 1 /\ k = 1 /\ l.match = test.occurrence
               /\ ~(l.match < LastOf(test, hits))
    <2>1. /\ Len(test.fields) = 1 /\ test.occurrence # 0 /\ Len(now) <= 1
      BY <1>0, <1>1, <1>7, WatchesOne
    <2>2. FirstOf(test) = test.occurrence /\ LastOf(test, hits) = test.occurrence
      BY <2>1 DEF FirstOf, LastOf
    <2>3. test.occurrence \in Nat
      BY <1>2, <1>3 DEF Test, Reached
    <2> HIDE DEF l, k, now, hits
    <2>4. l.field = 1 /\ k = 1
      BY <1>6, <2>1
    <2>5. l.match = test.occurrence
      BY <1>6, <2>2, <2>3
    <2> QED BY <1>6, <2>1, <2>2, <2>3, <2>4, <2>5
  <1>8. Watches(test) => Keeps(test, store, i, now)
    <2>1. ASSUME Watches(test)
          PROVE  StoredAt(store, i, test.fields[1].number) =
                    At(now, 1, test.occurrence, test.fields[1].number)
      <3>1. l.field = 1 /\ k = 1 /\ l.match = test.occurrence
        BY <1>7, <2>1
      <3>2. store[i].number = test.fields[1].number /\ store[i].value = AtPlace(test, l, now)
        BY <1>5, <3>1
      <3> QED BY <3>1, <3>2 DEF StoredAt, AtPlace
    <2> QED BY <2>1 DEF Keeps
  <1>9. test.checkAll => test.occurrence = 0
    <2>1. plan.test.checkAll => plan.test.occurrence = 0
      BY DEF Judged
    <2> QED BY <2>1 DEF test
  <1>14. CheckFails(r) <=> ~HasRead(test, now, l.result, l.match, l.field)
    <2>1. AtPlace(test, l, now) \in Seq(Chars)
      <3>1. AtPlace(test, l, now) \in Seq(Chars) \cup {Missing}
        BY <1>0, <1>1, JudgedPlace
      <3> QED BY <1>5, <3>1 DEF IsThere, AtPlace
    <2>2. Stored(Iteration(r), FieldOf(r).number) = AtPlace(test, l, now)
      BY <1>5 DEF Stored, FieldOf
    <2>3. Stored(Iteration(r), FieldOf(r).number) # Nil
      BY <2>1, <2>2, NoValues
    <2>4. CheckFails(r) <=> test.fields[l.field].operation \notin Operations
      BY <2>3, Zenon DEF CheckFails, FieldOf
    <2> QED BY <1>5, <2>4, Zenon DEF HasRead
  <1>10. \/ /\ CheckFails(r)
            /\ Turn(r, After("error"), printed[r], Append(verdicts[r], "error"))
         \/ /\ ~CheckFails(r) /\ l.field < Len(test.fields)
            /\ Turn(r, NextField(l, c), printed[r], verdicts[r])
         \/ /\ ~CheckFails(r) /\ ~(l.field < Len(test.fields)) /\ l.match < LastOf(test, hits)
            /\ Turn(r, NextMatch(test, l, c), printed[r], verdicts[r])
         \/ /\ ~CheckFails(r)
            /\ ~(l.field < Len(test.fields)) /\ ~(l.match < LastOf(test, hits))
            /\ IF ResultFires(test, hits, MatchCount(test, l, c))
               THEN Turn(r, After("fire"), printed[r], Append(verdicts[r], "fire"))
               ELSE Turn(r, AtResult(k + 1), printed[r], verdicts[r])
    BY <1>0, CheckFieldIs
  <1> HIDE DEF l, now, k, hits, i, c
  <1>15. CASE CheckFails(r) /\ Turn(r, After("error"), printed[r], Append(verdicts[r], "error"))
    <2>1. ResultMeaning(test, now, Before(r), i, k) = "error"
      BY <1>2, <1>3, <1>14, <1>15, UnfitResult DEF k
    <2>2. Meaning(test, now, Before(r), i) = "error"
      BY <1>2, <1>5, <1>6, <2>1, FirstSaid
    <2>3. "error" \in Verdicts
      BY DEF Verdicts
    <2> QED BY <1>0, <1>1, <1>15, <2>2, <2>3, AnswerTurn DEF l, now, i
  <1>11. CASE /\ ~CheckFails(r) /\ l.field < Len(test.fields)
              /\ Turn(r, NextField(l, c), printed[r], verdicts[r])
    <2>1. NextField(l, c).pc = "store" /\ NextField(l, c).result = l.result
      BY <1>2, <1>3, <1>11, NextFieldIs
    <2>2. Engaged(test, NextField(l, c), now, Before(r), i)
      BY <1>2, <1>3, <1>4, <1>5, <1>11, <1>14, EngagedNextField
    <2>3. ~Watches(test)
      <3>1. Watches(test) => l.field = 1 /\ Len(test.fields) = 1
        BY <1>7
      <3>2. l.field = 1 /\ Len(test.fields) = 1 => ~(l.field < Len(test.fields))
        OBVIOUS
      <3> QED BY <1>11, <3>1, <3>2
    <2>4. Good(plan, NextField(l, c), printed[r], verdicts[r], store)
      BY <1>0, <1>1, <2>1, <2>2, <2>3, InResultGood DEF l, now, i
    <2> QED BY <1>0, <1>1, <1>11, <2>4, GoodTurn
  <1>12. CASE /\ ~CheckFails(r) /\ ~(l.field < Len(test.fields)) /\ l.match < LastOf(test, hits)
              /\ Turn(r, NextMatch(test, l, c), printed[r], verdicts[r])
    <2>0. l.match < LastOf(test, now[l.result].hits)
      BY <1>3, <1>12 DEF k
    <2>1. NextMatch(test, l, c).pc = "store" /\ NextMatch(test, l, c).result = l.result
      BY <1>2, <1>3, <2>0, NextMatchIs
    <2>2. Engaged(test, NextMatch(test, l, c), now, Before(r), i)
      BY <1>2, <1>3, <1>4, <1>5, <1>12, <1>14, <2>0, EngagedNextMatch
    <2>3. ~Watches(test)
      BY <1>7, <1>12
    <2>4. Good(plan, NextMatch(test, l, c), printed[r], verdicts[r], store)
      BY <1>0, <1>1, <2>1, <2>2, <2>3, InResultGood DEF l, now, i
    <2> QED BY <1>0, <1>1, <1>12, <2>4, GoodTurn
  <1>13. CASE /\ ~CheckFails(r) /\ ~(l.field < Len(test.fields)) /\ ~(l.match < LastOf(test, hits))
              /\ IF ResultFires(test, hits, MatchCount(test, l, c))
                 THEN Turn(r, After("fire"), printed[r], Append(verdicts[r], "fire"))
                 ELSE Turn(r, AtResult(k + 1), printed[r], verdicts[r])
    <2>0. ~(l.match < LastOf(test, now[l.result].hits))
      BY <1>3, <1>13 DEF k
    <2>1. ResultMeaning(test, now, Before(r), i, k) =
              IF ResultFires(test, hits, MatchCount(test, l, c)) THEN "fire" ELSE "next"
      BY <1>2, <1>3, <1>4, <1>5, <1>9, <1>13, <1>14, <2>0, EndOfResult DEF k
    <2>2. CASE ResultFires(test, hits, MatchCount(test, l, c))
      <3>1. ResultMeaning(test, now, Before(r), i, k) = "fire"
        BY <2>1, <2>2
      <3>2. Meaning(test, now, Before(r), i) = "fire"
        BY <1>2, <1>5, <1>6, <3>1, FirstSaid
      <3>3. "fire" \in Verdicts
        BY DEF Verdicts
      <3>4. Turn(r, After("fire"), printed[r], Append(verdicts[r], "fire"))
        BY <1>13, <2>2
      <3> QED BY <1>0, <1>1, <1>8, <3>2, <3>3, <3>4, AnswerTurn DEF l, now, i
    <2>3. CASE ~ResultFires(test, hits, MatchCount(test, l, c))
      <3>1. ResultMeaning(test, now, Before(r), i, k) = "next"
        BY <2>1, <2>3
      <3>2. k <= Len(now)
        BY <1>6
      <3>3. Good(plan, AtResult(k + 1), printed[r], verdicts[r], store)
        BY <1>0, <1>1, <1>8, <3>1, <3>2, NextResultGood DEF l, now, k, i
      <3>4. Turn(r, AtResult(k + 1), printed[r], verdicts[r])
        BY <1>13, <2>3
      <3> QED BY <1>0, <1>1, <3>3, <3>4, GoodTurn
    <2> QED BY <2>2, <2>3
  <1> QED BY <1>10, <1>11, <1>12, <1>13, <1>15

LEMMA VerdictInit ==
    ASSUME Init PROVE VerdictInv
  <1>1. TypeInv
    BY TypeInit
  <1>2. ASSUME NEW r \in Routers PROVE Good(plan, run[r], printed[r], verdicts[r], store)
    <2>1. run[r] = Idle /\ printed[r] = <<>> /\ verdicts[r] = <<>> /\ Idle.pc = "idle"
      BY DEF Init, Idle
    <2>2. Len(<<>>) = 0 /\ plan.times \in Nat
      BY EmptySeq, <1>1, PlanTypes DEF TypeInv
    <2>3. \A j \in 0..(plan.times - 1) : store[j] = Empty
      BY DEF Init
    <2>4. Control(plan, Idle, <<>>, <<>>, store)
      BY <2>1 DEF Control
    <2>5. Answered(plan, <<>>, <<>>)
      BY <2>2 DEF Answered
    <2>6. /\ 0..(0 - 1) = {} /\ \A j \in (0 + 1)..(plan.times - 1) : j \in 0..(plan.times - 1)
          /\ 0 < plan.times => 0 \in 0..(plan.times - 1)
      BY <2>2
    <2>7. History(plan, Idle, <<>>, <<>>, store)
      BY <2>1, <2>2, <2>3, <2>6 DEF History
    <2> QED BY <2>1, <2>4, <2>5, <2>7 DEF Good
  <1> QED BY <1>1, <1>2 DEF VerdictInv

LEMMA VerdictStep ==
    ASSUME NEW r, Routers = {r}, Judged(plan), VerdictInv, [Next]_vars
    PROVE  VerdictInv'
  <1>2. ASSUME Begin(r) \/ NoMoreResults(r) \/ FindMatches(r) \/ StoreValue(r) \/ CheckField(r)
        PROVE  VerdictInv'
    BY <1>2, BeginGood, NoMoreResultsGood, FindMatchesGood, StoreValueGood, CheckFieldGood
  <1>3. CASE UNCHANGED vars
    <2>1. TypeInv'
      BY <1>3, TypeStep DEF VerdictInv
    <2>2. /\ plan' = plan /\ run' = run /\ printed' = printed /\ verdicts' = verdicts
          /\ store' = store
      BY <1>3 DEF vars
    <2>3. \A q \in Routers : Good(plan', run'[q], printed'[q], verdicts'[q], store')
      BY <2>2 DEF VerdictInv
    <2> QED BY <2>1, <2>3 DEF VerdictInv
  <1> QED BY <1>2, <1>3 DEF Next, Done

\* What a test answers about a router is what it means for that router's output, in this
\* iteration and the one before, if no other goroutine runs the same test and the test is
\* one of those Judged describes (pipeline.go:182-284, 320-372).
THEOREM VerdictsAreMeant ==
    ASSUME NEW r, Routers = {r}
    PROVE  Spec => []VerdictIsMeaning
  <1> DEFINE Inv == Judged(plan) => VerdictInv
  <1>1. Inv => VerdictIsMeaning
    <2> SUFFICES ASSUME Judged(plan), VerdictInv, NEW q \in Routers, NEW j \in DOMAIN verdicts[q]
                 PROVE  verdicts[q][j] = Meaning(test, printed[q][j],
                            IF j = 1 THEN <<>> ELSE printed[q][j - 1], j - 1)
      BY DEF VerdictIsMeaning
    <2>1. j \in 1..Len(verdicts[q])
      <3>1. verdicts[q] \in Seq(Verdicts)
        BY Own DEF VerdictInv
      <3> QED BY <3>1, LenProperties
    <2>2. verdicts[q][j] = Meaning(test, printed[q][j], AtBefore(printed[q], j - 1), j - 1)
      BY <2>1 DEF VerdictInv, Good, Answered, test
    <2>3. AtBefore(printed[q], j - 1) = IF j = 1 THEN <<>> ELSE printed[q][j - 1]
      BY <2>1 DEF AtBefore
    <2> QED BY <2>2, <2>3
  <1>2. Init => Inv
    BY VerdictInit
  <1>3. Inv /\ [Next]_vars => Inv'
    <2> SUFFICES ASSUME Inv, [Next]_vars, Judged(plan)' PROVE VerdictInv'
      OBVIOUS
    <2>1. plan' = plan
      BY Zenon DEF Next, Done, vars, Begin, NoMoreResults, FindMatches, StoreValue, CheckField
    <2>2. Judged(plan)
      BY <2>1, Zenon DEF Judged
    <2> QED BY <2>2, VerdictStep
  <1> QED BY <1>1, <1>2, <1>3, PTL DEF Spec
=============================================================================
