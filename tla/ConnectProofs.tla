---------------------------- MODULE ConnectProofs ----------------------------
(***************************************************************************)
(* Proofs about Connect, for any number of processes, hosts and keys and  *)
(* any inventory: the known-hosts file stays readable and one key of a     *)
(* host is ever accepted, as long as no write meets another or is cut      *)
(* short; and a process that goes through its inventory contacts each      *)
(* entry once.                                                             *)
(***************************************************************************)
EXTENDS Connect, SequenceTheorems, FiniteSetTheorems, WellFoundedInduction, TLAPS

(* The file as a sequence of lines.                                        *)

LEMMA MinIs ==
    ASSUME NEW S, NEW x \in S, S \subseteq Int, \A y \in S : x <= y
    PROVE  Min(S) = x
  <1>1. Min(S) \in S /\ \A y \in S : Min(S) <= y
    BY Zenon DEF Min
  <1>2. Min(S) \in Int /\ x \in Int /\ Min(S) <= x /\ x <= Min(S)
    BY <1>1, Zenon
  <1> QED BY <1>2, SMT

LEMMA MaxIs ==
    ASSUME NEW S, NEW x \in S, S \subseteq Int, \A y \in S : x >= y
    PROVE  Max(S) = x
  <1>1. Max(S) \in S /\ \A y \in S : Max(S) >= y
    BY Zenon DEF Max
  <1>2. Max(S) \in Int /\ x \in Int /\ Max(S) >= x /\ x >= Max(S)
    BY <1>1, Zenon
  <1> QED BY <1>2, SMT

LEMMA Least ==
    ASSUME NEW S, S \subseteq Nat, S # {}
    PROVE  \E x \in S : \A y \in S : x <= y
  <1> DEFINE R == OpToRel(<, Nat)
  <1>1. \A x, y \in Nat : <<x, y>> \in R <=> x < y
    BY DEF OpToRel
  <1>2. IsWellFoundedOn(R, Nat)
    BY NatLessThanWellFounded
  <1> HIDE DEF R
  <1>3. PICK x \in S : \A y \in S : <<y, x>> \notin R
    BY <1>2, WFMin
  <1>4. ASSUME NEW y \in S PROVE x <= y
    <2>1. x \in Nat /\ y \in Nat
      BY Zenon
    <2>2. ~(y < x)
      BY <1>1, <1>3, <2>1, Zenon
    <2> QED BY <2>1, <2>2, SMT
  <1> QED BY <1>4

LEMMA Greatest ==
    ASSUME NEW n \in Nat, NEW S, S \subseteq 1..n, S # {}
    PROVE  \E x \in S : \A y \in S : x >= y
  <1> DEFINE T == {n - y : y \in S}
  <1>1. T \subseteq Nat /\ T # {}
    <2>1. \A y \in S : n - y \in Nat
      <3>1. \A y \in 1..n : n - y \in Nat
        OBVIOUS
      <3> QED BY <3>1, Zenon
    <2>2. PICK y \in S : TRUE
      BY Zenon
    <2>3. n - y \in T
      BY Zenon
    <2> QED BY <2>1, <2>3, Zenon
  <1>2. PICK z \in T : \A y \in T : z <= y
    <2> HIDE DEF T
    <2> QED BY <1>1, Least
  <1>3. PICK x \in S : z = n - x
    BY Zenon
  <1>4. \A y \in S : n - x <= n - y
    BY <1>2, <1>3, Zenon
  <1>5. ASSUME NEW y \in S PROVE x >= y
    <2>1. x \in 1..n /\ y \in 1..n /\ n - x <= n - y
      BY <1>4, Zenon
    <2> QED BY <2>1, SMT
  <1> QED BY <1>5

LEMMA LineIs ==
    ASSUME NEW h \in HostType, NEW k \in HostKeys, h.name # <<>>
    PROVE  /\ Len(h.name) \in Nat \ {0}
           /\ Line(h, k) \in Seq(Cell) /\ Len(Line(h, k)) = Len(h.name) + 1
           /\ \A i \in 1..Len(h.name) : Line(h, k)[i] = [host |-> h, key |-> k, part |-> i]
           /\ Line(h, k)[Len(h.name) + 1] = EOL
  <1> DEFINE n == Len(h.name)
             cells == [i \in 1..n |-> [host |-> h, key |-> k, part |-> i]]
  <1>1. n \in Nat \ {0}
    BY EmptySeq DEF HostType
  <1>2. cells \in Seq(Cell) /\ Len(cells) = n
    <2>1. \A i \in 1..n : [host |-> h, key |-> k, part |-> i] \in Cell
      BY <1>1 DEF Cell
    <2>2. cells \in [1..n -> Cell]
      BY <2>1
    <2> HIDE DEF cells
    <2> QED BY <1>1, <2>2, LenProperties
  <1>3. EOL \in Cell
    <2>1. NoHost \in HostType
      BY EmptySeq, SMT DEF NoHost, HostType
    <2>2. 0 \in Nat
      BY SMT
    <2> QED BY <2>1, <2>2, Zenon DEF EOL, Cell
  <1>4. <<EOL>> \in Seq(Cell) /\ Len(<<EOL>>) = 1 /\ <<EOL>>[1] = EOL
    BY <1>3
  <1>5. Line(h, k) = cells \o <<EOL>>
    BY DEF Line
  <1>6. \A i \in 1..n : cells[i] = [host |-> h, key |-> k, part |-> i]
    OBVIOUS
  <1> HIDE DEF cells
  <1>7. /\ Line(h, k) \in Seq(Cell) /\ Len(Line(h, k)) = n + 1
        /\ \A i \in 1..(n + 1) : Line(h, k)[i] = IF i <= n THEN cells[i] ELSE <<EOL>>[i - n]
    BY <1>1, <1>2, <1>4, <1>5, ConcatProperties
  <1>8. Line(h, k)[n + 1] = EOL
    BY <1>1, <1>4, <1>7
  <1> QED BY <1>1, <1>6, <1>7, <1>8

\* g is f with the line of h and k behind it.
Extended(f, g, h, k) ==
    /\ f \in Seq(Cell) /\ g \in Seq(Cell)
    /\ Len(g) = Len(f) + Len(h.name) + 1
    /\ \A i \in 1..Len(f) : g[i] = f[i]
    /\ \A i \in 1..Len(h.name) : g[Len(f) + i] = [host |-> h, key |-> k, part |-> i]
    /\ g[Len(f) + Len(h.name) + 1] = EOL

LEMMA WriteExtends ==
    ASSUME NEW f \in Seq(Cell), NEW h \in HostType, NEW k \in HostKeys, h.name # <<>>
    PROVE  Extended(f, WriteAt(f, Len(f), Line(h, k)), h, k)
  <1> DEFINE L == Line(h, k)
             g == f \o L
  <1>1. /\ Len(h.name) \in Nat \ {0} /\ L \in Seq(Cell) /\ Len(L) = Len(h.name) + 1
        /\ \A i \in 1..Len(h.name) : L[i] = [host |-> h, key |-> k, part |-> i]
        /\ L[Len(h.name) + 1] = EOL
    BY LineIs
  <1> HIDE DEF L
  <1>2. Len(f) \in Nat
    BY LenProperties
  <1>3. /\ g \in Seq(Cell) /\ Len(g) = Len(f) + Len(L)
        /\ \A i \in 1..(Len(f) + Len(L)) : g[i] = IF i <= Len(f) THEN f[i] ELSE L[i - Len(f)]
    BY <1>1, ConcatProperties
  <1>4. WriteAt(f, Len(f), L) = g
    <2>1. SubSeq(f, 1, Len(f)) = f
      BY SubSeqFull
    <2>2. SubSeq(f, Len(f) + Len(L) + 1, Len(f)) = <<>>
      <3>1. /\ Len(f) + Len(L) + 1 \in Int /\ Len(f) \in Int
            /\ Len(f) < Len(f) + Len(L) + 1
        BY <1>1, <1>2
      <3> QED BY <3>1, SubSeqEmpty
    <2>3. g \o <<>> = g
      BY <1>3, ConcatEmptySeq
    <2> QED BY <2>1, <2>2, <2>3 DEF WriteAt
  <1> HIDE DEF g
  <1>5. \A i \in 1..Len(f) : g[i] = f[i]
    <2>1. \A i \in 1..Len(f) : i \in 1..(Len(f) + Len(L)) /\ i <= Len(f)
      BY <1>1, <1>2
    <2> QED BY <1>3, <2>1
  <1>6. ASSUME NEW i \in 1..Len(L) PROVE g[Len(f) + i] = L[i]
    <2>1. Len(f) + i \in 1..(Len(f) + Len(L)) /\ ~(Len(f) + i <= Len(f)) /\ Len(f) + i - Len(f) = i
      BY <1>1, <1>2
    <2> QED BY <1>3, <2>1
  <1>7. Extended(f, g, h, k)
    <2>1. \A i \in 1..Len(h.name) : g[Len(f) + i] = [host |-> h, key |-> k, part |-> i]
      BY <1>1, <1>6
    <2>2. g[Len(f) + Len(h.name) + 1] = EOL
      <3>1. Len(h.name) + 1 \in 1..Len(L) /\ Len(f) + Len(h.name) + 1 = Len(f) + (Len(h.name) + 1)
        BY <1>1, <1>2
      <3> QED BY <1>1, <1>6, <3>1
    <2>3. Len(g) = Len(f) + Len(h.name) + 1
      BY <1>1, <1>2, <1>3
    <2> QED BY <1>3, <1>5, <2>1, <2>2, <2>3 DEF Extended
  <1> QED BY <1>4, <1>7 DEF L

\* Where the lines of the extended file start, and what they are.
LEMMA ExtendedLines ==
    ASSUME NEW f, NEW g, NEW h \in HostType, NEW k \in HostKeys, h.name # <<>>,
           Extended(f, g, h, k), Terminated(f)
    PROVE  /\ Starts(g) = Starts(f) \cup {Len(f) + 1}
           /\ \A p \in Starts(f) : LineFrom(g, p) = LineFrom(f, p) /\ g[p] = f[p]
           /\ LineFrom(g, Len(f) + 1) = SubSeq(g, Len(f) + 1, Len(f) + Len(h.name))
           /\ g[Len(f) + 1].host = h /\ g[Len(f) + 1].key = k
           /\ Terminated(g)
  <1> DEFINE n == Len(h.name)
  <1>1. /\ n \in Nat \ {0} /\ Len(f) \in Nat /\ Len(g) = Len(f) + n + 1
        /\ DOMAIN f = 1..Len(f) /\ DOMAIN g = 1..(Len(f) + n + 1)
    BY EmptySeq, LenProperties DEF Extended, HostType
  <1>2. \A i \in 1..Len(f) : g[i] = f[i]
    BY DEF Extended
  <1>3. \A i \in 1..n : g[Len(f) + i] = [host |-> h, key |-> k, part |-> i]
    BY DEF Extended
  <1>4. \A i \in 1..n : g[Len(f) + i] # EOL
    <2>1. ASSUME NEW i \in 1..n PROVE g[Len(f) + i].part # EOL.part
      <3>1. g[Len(f) + i] = [host |-> h, key |-> k, part |-> i]
        BY <1>3, Zenon
      <3>2. i # 0
        BY <1>1
      <3> HIDE DEF n
      <3> QED BY <3>1, <3>2 DEF EOL
    <2> QED BY <2>1
  <1>5. g[Len(f) + n + 1] = EOL
    BY DEF Extended
  <1>6. Len(f) = 0 \/ f[Len(f)] = EOL
    BY EmptySeq DEF Terminated
  <1>7. Starts(g) = Starts(f) \cup {Len(f) + 1}
    <2>1. ASSUME NEW p \in DOMAIN g
          PROVE  p \in Starts(g) <=> p \in Starts(f) \cup {Len(f) + 1}
      <3>1. CASE p \in 1..Len(f)
        <4>1. p = 1 \/ (p - 1 \in 1..Len(f) /\ g[p - 1] = f[p - 1])
          BY <1>1, <1>2, <3>1
        <4> QED BY <1>1, <3>1, <4>1 DEF Starts
      <3>2. CASE p = Len(f) + 1
        <4>1. p = 1 \/ (Len(f) \in 1..Len(f) /\ p - 1 = Len(f) /\ g[p - 1] = EOL)
          BY <1>1, <1>2, <1>6, <3>2
        <4> QED BY <1>1, <3>2, <4>1 DEF Starts
      <3>3. CASE p > Len(f) + 1
        <4>1. p - 1 - Len(f) \in 1..n /\ Len(f) + (p - 1 - Len(f)) = p - 1 /\ p # 1
          BY <1>1, <3>3
        <4>2. g[p - 1] # EOL
          BY <1>4, <4>1
        <4> QED BY <1>1, <3>3, <4>1, <4>2 DEF Starts
      <3> QED BY <1>1, <3>1, <3>2, <3>3
    <2>2. Starts(g) \subseteq DOMAIN g /\ Starts(f) \cup {Len(f) + 1} \subseteq DOMAIN g
      BY <1>1 DEF Starts
    <2> QED BY <2>1, <2>2
  <1>8. ASSUME NEW p \in Starts(f) PROVE LineFrom(g, p) = LineFrom(f, p) /\ g[p] = f[p]
    <2> DEFINE F == {q \in p..(Len(f) + 1) : q > Len(f) \/ f[q] = EOL}
               G == {q \in p..(Len(g) + 1) : q > Len(g) \/ g[q] = EOL}
    <2>1. p \in 1..Len(f) /\ f[Len(f)] = EOL
      BY <1>1, <1>6 DEF Starts
    <2>2. PICK x \in F : \A y \in F : x <= y
      <3>1. F \subseteq Nat /\ F # {}
        BY <1>1, <2>1
      <3> QED BY <3>1, Least
    <2>3. x \in p..Len(f) /\ f[x] = EOL
      BY <1>1, <2>1, <2>2
    <2>4. x \in G /\ \A y \in G : x <= y
      BY <1>1, <1>2, <2>1, <2>2, <2>3
    <2>5. Min(F) = x /\ Min(G) = x
      <3>1. F \subseteq Int /\ G \subseteq Int
        BY <1>1, <2>1
      <3> HIDE DEF F, G
      <3> QED BY <2>2, <2>4, <3>1, MinIs
    <2>6. SubSeq(g, p, x - 1) = SubSeq(f, p, x - 1)
      <3>1. /\ p \in Int /\ x - 1 \in Int
            /\ \A i \in p..(x - 1) : i \in 1..Len(f) /\ f[i] \in Cell /\ g[i] = f[i]
        BY <1>1, <1>2, <2>1, <2>3, ElementOfSeq DEF Extended
      <3>2. /\ SubSeq(f, p, x - 1) \in Seq(Cell) /\ SubSeq(g, p, x - 1) \in Seq(Cell)
            /\ Len(SubSeq(f, p, x - 1)) = IF p <= x - 1 THEN x - 1 - p + 1 ELSE 0
            /\ Len(SubSeq(g, p, x - 1)) = IF p <= x - 1 THEN x - 1 - p + 1 ELSE 0
            /\ \A i \in 1..(x - 1 - p + 1) : /\ SubSeq(f, p, x - 1)[i] = f[p + i - 1]
                                             /\ SubSeq(g, p, x - 1)[i] = g[p + i - 1]
        BY <3>1, SubSeqProperties
      <3>3. \A i \in 1..(x - 1 - p + 1) : p + i - 1 \in p..(x - 1)
        BY <3>1
      <3>4. \A i \in 1..(x - 1 - p + 1) : SubSeq(g, p, x - 1)[i] = SubSeq(f, p, x - 1)[i]
        BY <3>1, <3>2, <3>3, Zenon
      <3>5. \A i \in 1..Len(SubSeq(g, p, x - 1)) : i \in 1..(x - 1 - p + 1)
        BY <3>1, <3>2
      <3> QED BY <3>2, <3>4, <3>5, SeqEqual
    <2> QED BY <1>2, <2>1, <2>5, <2>6 DEF LineFrom
  <1>9. LineFrom(g, Len(f) + 1) = SubSeq(g, Len(f) + 1, Len(f) + n)
    <2> DEFINE G == {q \in (Len(f) + 1)..(Len(g) + 1) : q > Len(g) \/ g[q] = EOL}
    <2>1. Len(f) + n + 1 \in G
      BY <1>1, <1>5
    <2>2. ASSUME NEW y \in G PROVE Len(f) + n + 1 <= y
      <3>1. CASE y < Len(f) + n + 1
        <4>1. y - Len(f) \in 1..n /\ Len(f) + (y - Len(f)) = y /\ g[y] = EOL
          BY <1>1, <3>1
        <4> QED BY <1>4, <4>1
      <3> QED BY <1>1, <3>1
    <2>3. Min(G) = Len(f) + n + 1
      <3>1. G \subseteq Int
        BY <1>1
      <3> HIDE DEF G
      <3> QED BY <2>1, <2>2, <3>1, MinIs
    <2>4. Len(f) + n + 1 - 1 = Len(f) + n
      BY <1>1
    <2>5. LineFrom(g, Len(f) + 1) = SubSeq(g, Len(f) + 1, Min(G) - 1)
      BY Zenon DEF LineFrom
    <2> HIDE DEF G
    <2>6. Min(G) - 1 = Len(f) + n
      BY <1>1, <2>3, SMT
    <2> QED BY <2>5, <2>6, Zenon
  <1>10. g[Len(f) + 1] = [host |-> h, key |-> k, part |-> 1]
    BY <1>1, <1>3
  <1>11. Terminated(g)
    BY <1>1, <1>5 DEF Terminated
  <1> QED BY <1>7, <1>8, <1>9, <1>10, <1>11

\* The new line is a line, so a file that parsed still does.
LEMMA ExtendedParses ==
    ASSUME NEW f, NEW g, NEW h \in HostType, NEW k \in HostKeys, h.name # <<>>,
           Extended(f, g, h, k), Terminated(f), Parses(f)
    PROVE  Parses(g)
  <1>0. /\ Starts(g) = Starts(f) \cup {Len(f) + 1}
        /\ \A p \in Starts(f) : LineFrom(g, p) = LineFrom(f, p) /\ g[p] = f[p]
        /\ LineFrom(g, Len(f) + 1) = SubSeq(g, Len(f) + 1, Len(f) + Len(h.name))
    BY ExtendedLines, Zenon
  <1> DEFINE n == Len(h.name)
             cells == SubSeq(g, Len(f) + 1, Len(f) + n)
  <1>1. /\ n \in Nat \ {0} /\ Len(f) \in Nat /\ Len(g) = Len(f) + n + 1
        /\ g \in Seq(Cell)
    BY EmptySeq, LenProperties DEF Extended, HostType
  <1>2. \A i \in 1..n : g[Len(f) + i] = [host |-> h, key |-> k, part |-> i]
    BY DEF Extended
  <1>3. cells \in Seq(Cell) /\ Len(cells) = n /\ \A i \in 1..n : cells[i] = g[Len(f) + i]
    <2>1. /\ Len(f) + 1 \in Int /\ Len(f) + n \in Int
          /\ \A i \in (Len(f) + 1)..(Len(f) + n) : i \in 1..Len(g) /\ g[i] \in Cell
      BY <1>1, ElementOfSeq
    <2>2. /\ cells \in Seq(Cell)
          /\ Len(cells) = IF Len(f) + 1 <= Len(f) + n THEN Len(f) + n - (Len(f) + 1) + 1 ELSE 0
          /\ \A i \in 1..(Len(f) + n - (Len(f) + 1) + 1) : cells[i] = g[Len(f) + 1 + i - 1]
      BY <2>1, SubSeqProperties
    <2> HIDE DEF cells
    <2>3. Len(f) + n - (Len(f) + 1) + 1 = n /\ Len(f) + 1 <= Len(f) + n
      BY <1>1
    <2>4. \A i \in 1..n : Len(f) + 1 + i - 1 = Len(f) + i
      BY <1>1
    <2> QED BY <2>2, <2>3, <2>4
  <1> HIDE DEF cells
  <1>4. cells[1] = [host |-> h, key |-> k, part |-> 1]
    <2>1. 1 \in 1..n
      BY <1>1
    <2> QED BY <1>2, <1>3, <2>1, Zenon
  <1>5. Append(cells, EOL) = Line(h, k)
    <2>1. EOL \in Cell
      BY <1>1, ElementOfSeq DEF Extended
    <2>2. /\ Append(cells, EOL) \in Seq(Cell) /\ Len(Append(cells, EOL)) = n + 1
          /\ \A i \in 1..n : Append(cells, EOL)[i] = cells[i]
          /\ Append(cells, EOL)[n + 1] = EOL
      BY <1>1, <1>3, <2>1, AppendProperties
    <2>3. /\ Line(h, k) \in Seq(Cell) /\ Len(Line(h, k)) = n + 1
          /\ \A i \in 1..n : Line(h, k)[i] = [host |-> h, key |-> k, part |-> i]
          /\ Line(h, k)[n + 1] = EOL
      BY LineIs
    <2>4. ASSUME NEW i \in 1..(n + 1) PROVE Append(cells, EOL)[i] = Line(h, k)[i]
      <3>1. CASE i \in 1..n
        <4>1. cells[i] = [host |-> h, key |-> k, part |-> i]
          BY <1>2, <1>3, <3>1, Zenon
        <4> QED BY <2>2, <2>3, <3>1, <4>1, Zenon
      <3>2. CASE i = n + 1
        BY <2>2, <2>3, <3>2, Zenon
      <3>3. i \in 1..n \/ i = n + 1
        BY <1>1
      <3> QED BY <3>1, <3>2, <3>3, Zenon
    <2> QED BY <2>2, <2>3, <2>4, SeqEqual
  <1>6. IsLine(cells)
    <2>1. cells # <<>>
      BY <1>1, <1>3, EmptySeq
    <2>2. cells[1].host = h /\ cells[1].key = k
      BY <1>4
    <2> QED BY <1>5, <2>1, <2>2, Zenon DEF IsLine
  <1>7. /\ Starts(g) = Starts(f) \cup {Len(f) + 1}
        /\ \A p \in Starts(f) : LineFrom(g, p) = LineFrom(f, p)
        /\ LineFrom(g, Len(f) + 1) = cells
    BY <1>0, Zenon DEF cells
  <1>8. ASSUME NEW p \in Starts(g) PROVE IsLine(LineFrom(g, p))
    <2>1. CASE p \in Starts(f)
      BY <1>7, <2>1, Zenon DEF Parses
    <2>2. CASE p = Len(f) + 1
      BY <1>6, <1>7, <2>2, Zenon
    <2> QED BY <1>7, <2>1, <2>2, Zenon
  <1> QED BY <1>8, Zenon DEF Parses

\* The last of the lines of a host is one of its lines.
LEMMA LastLine ==
    ASSUME NEW f \in Seq(Cell), NEW x \in HostsOf(f)
    PROVE  LET P == {p \in Starts(f) : f[p].host = x}
           IN  Max(P) \in P /\ P \subseteq Nat
  <1> DEFINE P == {p \in Starts(f) : f[p].host = x}
  <1>1. P \subseteq 1..Len(f) /\ Len(f) \in Nat /\ P # {}
    BY LenProperties DEF Starts, HostsOf
  <1> HIDE DEF P
  <1>2. PICK m \in P : \A y \in P : m >= y
    BY <1>1, Greatest
  <1>3. P \subseteq Int /\ P \subseteq Nat
    BY <1>1
  <1>4. Max(P) = m
    BY <1>2, <1>3, MaxIs
  <1> QED BY <1>3, <1>4 DEF P

\* A new host is known by its new line, the others as before.
Learnt(f, g, h, k) ==
    /\ HostsOf(g) = HostsOf(f) \cup {h}
    /\ \A x \in HostsOf(f) : Known(g)[x] = Known(f)[x]
    /\ Known(g)[h] = k

LEMMA ExtendedKnown ==
    ASSUME NEW f, NEW g, NEW h \in HostType, NEW k \in HostKeys, h.name # <<>>,
           Extended(f, g, h, k), Terminated(f), h \notin HostsOf(f)
    PROVE  Learnt(f, g, h, k)
  <1>1. /\ Starts(g) = Starts(f) \cup {Len(f) + 1}
        /\ \A p \in Starts(f) : g[p] = f[p]
        /\ g[Len(f) + 1].host = h /\ g[Len(f) + 1].key = k
    BY ExtendedLines
  <1>2. f \in Seq(Cell) /\ g \in Seq(Cell) /\ Len(f) \in Nat
    BY LenProperties DEF Extended
  <1>3. HostsOf(g) = HostsOf(f) \cup {h}
    BY <1>1, Zenon DEF HostsOf
  <1>4. ASSUME NEW x \in HostsOf(f) PROVE Known(g)[x] = Known(f)[x]
    <2> DEFINE P == {p \in Starts(f) : f[p].host = x}
    <2>1. {p \in Starts(g) : g[p].host = x} = P
      <3>1. x # h
        BY Zenon
      <3> QED BY <1>1, <3>1, Zenon
    <2>2. Max(P) \in P
      BY <1>2, LastLine
    <2>3. Known(f)[x] = f[Max(P)].key
      BY Zenon DEF Known
    <2>4. Known(g)[x] = g[Max({p \in Starts(g) : g[p].host = x})].key
      BY <1>3, Zenon DEF Known
    <2>5. g[Max(P)] = f[Max(P)]
      BY <1>1, <2>2, Zenon
    <2> HIDE DEF P
    <2> QED BY <2>1, <2>3, <2>4, <2>5, Zenon
  <1>5. Known(g)[h] = k
    <2> DEFINE P == {p \in Starts(g) : g[p].host = h}
    <2>1. P = {Len(f) + 1}
      BY <1>1, Zenon DEF HostsOf
    <2>2. Max(P) = Len(f) + 1
      <3>1. Len(f) + 1 \in P /\ P \subseteq Int /\ \A y \in P : Len(f) + 1 >= y
        BY <1>2, <2>1
      <3> HIDE DEF P
      <3> QED BY <3>1, MaxIs
    <2>3. Known(g)[h] = g[Max(P)].key
      BY <1>3, Zenon DEF Known
    <2> HIDE DEF P
    <2> QED BY <1>1, <2>2, <2>3, Zenon
  <1> QED BY <1>3, <1>4, <1>5 DEF Learnt

\* All of it together: a verifier that writes where the file ends.
LEMMA LearntFile ==
    ASSUME NEW f \in Seq(Cell), Terminated(f), Parses(f),
           NEW h \in HostType, NEW k \in HostKeys, h.name # <<>>, h \notin HostsOf(f),
           NEW g, Extended(f, g, h, k)
    PROVE  /\ g \in Seq(Cell) /\ Terminated(g) /\ Parses(g)
           /\ Len(f) \in Nat /\ Len(g) \in Nat /\ Len(f) < Len(g)
           /\ Learnt(f, g, h, k)
  <1>1. Len(h.name) \in Nat
    BY LineIs
  <1>2. g \in Seq(Cell) /\ Len(g) = Len(f) + Len(h.name) + 1 /\ Len(f) \in Nat
    BY LenProperties DEF Extended
  <1>3. Len(g) \in Nat /\ Len(f) < Len(g)
    BY <1>1, <1>2
  <1>4. Terminated(g)
    BY ExtendedLines
  <1>5. Parses(g)
    BY ExtendedParses, Zenon
  <1>6. Learnt(f, g, h, k)
    BY ExtendedKnown, Zenon
  <1> QED BY <1>2, <1>3, <1>4, <1>5, <1>6, Zenon

-----------------------------------------------------------------------------
(* What the file and the verifiers have to do with each other.             *)

WorldTypes ==
    /\ pc \in [Processes -> Pcs] /\ DOMAIN known = Processes /\ DOMAIN offset = Processes
    /\ key \in [Network -> HostKeys]

Clean == ~torn /\ ~overlaid

GoodFile == file \in Seq(Cell) /\ Terminated(file) /\ Parses(file)

\* What a verifier has read is still on file, and when nobody has written since, it
\* knows all that is.
Reader(p) ==
    /\ offset[p] \in Nat /\ offset[p] <= Len(file)
    /\ \A h \in DOMAIN known[p] : h \in HostsOf(file) /\ Known(file)[h] = known[p][h]
    /\ offset[p] = Len(file) => \A h \in HostsOf(file) : h \in DOMAIN known[p]

OnFile == \A a \in accepted : a.host \in HostsOf(file) /\ Known(file)[a.host] = a.key

FileInv ==
    /\ WorldTypes
    /\ Clean => GoodFile /\ OnFile /\ \A p \in Processes : pc[p] = "dial" => Reader(p)

LEMMA FileInit == Init => FileInv
  <1> SUFFICES ASSUME Init PROVE FileInv
    OBVIOUS
  <1>1. WorldTypes
    <2>1. pc \in [Processes -> Pcs]
      BY Zenon DEF Init, Pcs
    <2>2. DOMAIN known = Processes /\ DOMAIN offset = Processes
      BY DEF Init
    <2>3. key \in [Network -> HostKeys]
      BY ConnectAssumption DEF Init, ConnectAssumption
    <2> QED BY <2>1, <2>2, <2>3 DEF WorldTypes
  <1>2. GoodFile
    BY ConnectAssumption, Zenon DEF Init, ConnectAssumption, GoodFile
  <1>3. OnFile
    BY DEF Init, OnFile
  <1>4. \A p \in Processes : pc[p] # "dial"
    BY DEF Init
  <1> QED BY <1>1, <1>2, <1>3, <1>4, Zenon DEF FileInv

\* A step that leaves file and verifiers alone and starts no dialling.
Quiet ==
    /\ pc' \in [Processes -> Pcs] /\ \A p \in Processes : pc'[p] = "dial" => pc[p] = "dial"
    /\ key' \in [Network -> HostKeys]
    /\ UNCHANGED <<known, offset, file, torn, overlaid>>

LEMMA QuietStep ==
    ASSUME FileInv, Quiet, Clean' => OnFile'
    PROVE  FileInv'
  <1>1. WorldTypes'
    BY DEF FileInv, WorldTypes, Quiet
  <1>2. ASSUME Clean' PROVE GoodFile' /\ \A p \in Processes : pc'[p] = "dial" => Reader(p)'
    <2>1. Clean /\ UNCHANGED <<known, offset, file>>
      BY <1>2 DEF Clean, Quiet
    <2>2. GoodFile'
      BY <2>1 DEF FileInv, GoodFile
    <2>3. ASSUME NEW p \in Processes, pc'[p] = "dial" PROVE Reader(p)'
      <3>1. Reader(p)
        BY <2>1, <2>3 DEF FileInv, Quiet
      <3> QED BY <2>1, <3>1 DEF Reader
    <2> QED BY <2>2, <2>3
  <1> QED BY <1>1, <1>2 DEF FileInv

LEMMA Leaves ==
    ASSUME FileInv, NEW p \in Processes, Connected(p) \/ Refused(p)
    PROVE  /\ pc' \in [Processes -> Pcs] /\ pc'[p] # "dial"
           /\ \A q \in Processes \ {p} : pc'[q] = pc[q]
  BY DEF FileInv, WorldTypes, Connected, Refused, Goto, Pcs, Ends

\* Learning a key: the file grows by a line, and other verifiers are behind.
LEMMA LearnStep ==
    ASSUME FileInv, NEW p \in Processes, NEW h \in Network, pc[p] = "dial", Learn(p, h),
           UNCHANGED <<known, offset, key>>
    PROVE  FileInv'
  <1>1. /\ pc' \in [Processes -> Pcs] /\ pc'[p] # "dial"
        /\ \A q \in Processes \ {p} : pc'[q] = pc[q]
    BY Leaves DEF Learn
  <1>2. WorldTypes'
    BY <1>1 DEF FileInv, WorldTypes
  <1>3. ASSUME Clean'
        PROVE  GoodFile' /\ OnFile' /\ \A q \in Processes : pc'[q] = "dial" => Reader(q)'
    <2>1. Clean /\ offset[p] = Len(file)
      BY <1>3 DEF Clean, Learn, Write
    <2>2. GoodFile /\ OnFile /\ \A q \in Processes : pc[q] = "dial" => Reader(q)
      BY <2>1 DEF FileInv
    <2>3. h \in HostType /\ h.name # <<>> /\ key[h] \in HostKeys
      BY ConnectAssumption DEF ConnectAssumption, FileInv, WorldTypes
    <2>4. h \notin HostsOf(file)
      BY <2>1, <2>2 DEF Reader, Learn
    <2>5. Extended(file, file', h, key[h])
      <3>1. file' = WriteAt(file, Len(file), Line(h, key[h]))
        BY <2>1 DEF Learn, Write
      <3>2. file \in Seq(Cell)
        BY <2>2 DEF GoodFile
      <3>3. Extended(file, WriteAt(file, Len(file), Line(h, key[h])), h, key[h])
        BY <2>3, <3>2, WriteExtends
      <3> QED BY <3>1, <3>3, Zenon
    <2>6. /\ file' \in Seq(Cell) /\ Terminated(file') /\ Parses(file')
          /\ Len(file) \in Nat /\ Len(file') \in Nat /\ Len(file) < Len(file')
          /\ Learnt(file, file', h, key[h])
      BY <2>2, <2>3, <2>4, <2>5, LearntFile, Zenon DEF GoodFile
    <2>7. /\ HostsOf(file') = HostsOf(file) \cup {h}
          /\ \A x \in HostsOf(file) : Known(file')[x] = Known(file)[x]
          /\ Known(file')[h] = key[h]
      BY <2>6, Zenon DEF Learnt
    <2>8. GoodFile'
      BY <2>6, Zenon DEF GoodFile
    <2>9. OnFile'
      <3>1. ASSUME NEW a \in accepted'
            PROVE  a.host \in HostsOf(file') /\ Known(file')[a.host] = a.key
        <4>1. CASE a \in accepted
          <5>1. a.host \in HostsOf(file) /\ Known(file)[a.host] = a.key
            BY <2>2, <4>1, Zenon DEF OnFile
          <5> QED BY <2>7, <5>1, Zenon
        <4>2. CASE a = [host |-> h, key |-> key[h]]
          <5>1. a.host = h /\ a.key = key[h]
            BY <4>2
          <5> QED BY <2>7, <5>1, Zenon
        <4>3. accepted' = accepted \cup {[host |-> h, key |-> key[h]]}
          BY DEF Learn
        <4> QED BY <4>1, <4>2, <4>3, Zenon
      <3> QED BY <3>1, Zenon DEF OnFile
    <2>10. ASSUME NEW q \in Processes, pc'[q] = "dial" PROVE Reader(q)'
      <3>1. Reader(q)
        BY <1>1, <2>2, <2>10
      <3>2. offset'[q] = offset[q] /\ known'[q] = known[q]
        OBVIOUS
      <3>3. offset[q] \in Nat /\ offset[q] <= Len(file') /\ offset[q] # Len(file')
        BY <2>6, <3>1 DEF Reader
      <3>4. \A x \in DOMAIN known[q] : x \in HostsOf(file') /\ Known(file')[x] = known[q][x]
        BY <2>7, <3>1, Zenon DEF Reader
      <3> QED BY <3>2, <3>3, <3>4, Zenon DEF Reader
    <2> QED BY <2>8, <2>9, <2>10
  <1> QED BY <1>2, <1>3, Zenon DEF FileInv

\* Everything else a dial may do leaves the file as it is, or cuts a line short.
LEMMA DialStep ==
    ASSUME FileInv, NEW p \in Processes, Dial(p)
    PROVE  FileInv'
  <1> DEFINE h == Host(target[p])
  <1>0. pc[p] = "dial" /\ UNCHANGED <<known, offset, key>>
    BY DEF Dial
  <1>1. key' \in [Network -> HostKeys]
    BY <1>0 DEF FileInv, WorldTypes
  <1>2. CASE (Connected(p) \/ Refused(p)) /\ UNCHANGED <<file, accepted, overlaid, torn>>
    <2>1. Quiet
      BY <1>0, <1>1, <1>2, Leaves DEF Quiet
    <2>2. Clean' => OnFile'
      BY <1>2 DEF FileInv, Clean, OnFile
    <2> QED BY <2>1, <2>2, QuietStep
  <1>3. CASE h \in Network /\ Compare(p, h)
    <2>1. Quiet
      BY <1>0, <1>1, <1>3, Leaves DEF Quiet, Compare
    <2>2. ASSUME Clean' PROVE OnFile'
      <3>1. Clean /\ UNCHANGED file
        BY <1>3, <2>2 DEF Clean, Compare
      <3>2. OnFile /\ Reader(p)
        BY <1>0, <3>1 DEF FileInv
      <3>3. ASSUME NEW a \in accepted'
            PROVE  a.host \in HostsOf(file) /\ Known(file)[a.host] = a.key
        <4>1. CASE a \in accepted
          BY <3>2, <4>1, Zenon DEF OnFile
        <4>2. CASE a = [host |-> h, key |-> key[h]] /\ h \in DOMAIN known[p] /\ known[p][h] = key[h]
          <5>1. a.host = h /\ a.key = key[h]
            BY <4>2
          <5> QED BY <3>2, <4>2, <5>1, Zenon DEF Reader
        <4> QED BY <1>3, <4>1, <4>2 DEF Compare
      <3> QED BY <3>1, <3>3 DEF OnFile
    <2> QED BY <2>1, <2>2, QuietStep
  <1>4. CASE h \in Network /\ Learn(p, h)
    BY <1>0, <1>4, LearnStep
  <1>5. CASE h \in Network /\ LearnTorn(p, h)
    <2>1. torn' = TRUE /\ Refused(p)
      BY <1>5 DEF LearnTorn
    <2>2. WorldTypes'
      BY <1>0, <1>1, <2>1, Leaves DEF FileInv, WorldTypes
    <2> QED BY <2>1, <2>2 DEF FileInv, Clean
  <1> HIDE DEF h
  <1> QED BY <1>2, <1>3, <1>4, <1>5, Zenon DEF Dial, h

\* The invariant is kept by every step.
LEMMA FileStep ==
    ASSUME FileInv, [Next]_vars
    PROVE  FileInv'
  <1>1. CASE UNCHANGED vars
    BY <1>1 DEF vars, mainVars, worldVars, FileInv, WorldTypes, Clean, GoodFile, OnFile, Reader
  <1>2. ASSUME NEW p \in Processes, Load(p) \/ Resolve(p) PROVE FileInv'
    <2>1. UNCHANGED <<known, offset>> /\ UNCHANGED worldVars
      BY <1>2 DEF Load, Resolve
    <2>2. PICK s \in Pcs \ {"dial"} : Goto(p, s)
      BY <1>2 DEF Load, Resolve, Pcs, Ends
    <2>3. Quiet
      BY <2>1, <2>2 DEF Quiet, Goto, FileInv, WorldTypes, worldVars
    <2>4. Clean' => OnFile'
      BY <2>1 DEF FileInv, Clean, OnFile, worldVars
    <2> QED BY <2>3, <2>4, QuietStep
  <1>3. ASSUME NEW p \in Processes, OpenVerifier(p) PROVE FileInv'
    <2>1. UNCHANGED worldVars
      BY <1>3 DEF OpenVerifier
    <2>2. CASE ~Parses(file)
      <3>1. Quiet
        BY <1>3, <2>1, <2>2 DEF OpenVerifier, Quiet, Goto, FileInv, WorldTypes, worldVars, Pcs, Ends
      <3>2. Clean' => OnFile'
        BY <2>1 DEF FileInv, Clean, OnFile, worldVars
      <3> QED BY <3>1, <3>2, QuietStep
    <2>3. CASE Parses(file)
      <3>1. /\ known' = [known EXCEPT ![p] = Known(file)]
            /\ offset' = [offset EXCEPT ![p] = Len(file)]
            /\ pc' = [pc EXCEPT ![p] = "dial"]
        BY <1>3, <2>3 DEF OpenVerifier, Goto
      <3>2. WorldTypes'
        BY <2>1, <3>1 DEF FileInv, WorldTypes, worldVars, Pcs
      <3>3. ASSUME Clean'
            PROVE  GoodFile' /\ OnFile' /\ \A q \in Processes : pc'[q] = "dial" => Reader(q)'
        <4>1. /\ GoodFile /\ OnFile /\ \A q \in Processes : pc[q] = "dial" => Reader(q)
              /\ file' = file /\ accepted' = accepted
          BY <2>1, <3>3 DEF FileInv, Clean, worldVars
        <4>2. GoodFile' /\ OnFile'
          BY <4>1 DEF GoodFile, OnFile
        <4>3. ASSUME NEW q \in Processes, pc'[q] = "dial" PROVE Reader(q)'
          <5>1. CASE q = p
            <6>1. offset'[q] = Len(file) /\ known'[q] = Known(file)
              BY <3>1, <5>1 DEF FileInv, WorldTypes
            <6>2. Len(file) \in Nat
              BY <4>1, LenProperties DEF GoodFile
            <6>3. DOMAIN Known(file) = HostsOf(file)
              BY Zenon DEF Known
            <6> QED BY <4>1, <6>1, <6>2, <6>3 DEF Reader
          <5>2. CASE q # p
            <6>1. offset'[q] = offset[q] /\ known'[q] = known[q] /\ Reader(q)
              BY <3>1, <4>1, <4>3, <5>2 DEF FileInv, WorldTypes
            <6> QED BY <4>1, <6>1 DEF Reader
          <5> QED BY <5>1, <5>2
        <4> QED BY <4>2, <4>3
      <3> QED BY <3>2, <3>3 DEF FileInv
    <2> QED BY <2>2, <2>3
  <1>4. ASSUME NEW h \in NewKeys, Rekey(h) PROVE FileInv'
    <2>1. key' \in [Network -> HostKeys]
      BY <1>4, ConnectAssumption DEF Rekey, FileInv, WorldTypes, ConnectAssumption
    <2>2. Quiet
      BY <1>4, <2>1 DEF Rekey, Quiet, mainVars, FileInv, WorldTypes
    <2>3. Clean' => OnFile'
      BY <1>4 DEF Rekey, FileInv, Clean, OnFile
    <2> QED BY <2>2, <2>3, QuietStep
  <1>5. CASE Next
    BY <1>1, <1>2, <1>3, <1>4, <1>5, DialStep DEF Next, Main, Ended
  <1> QED BY <1>1, <1>5

-----------------------------------------------------------------------------
(* The theorems.                                                           *)

LEMMA FileAlways == Spec => []FileInv
  <1> QED BY FileInit, FileStep, PTL DEF Spec

\* For any number of processes and hosts, any files and command lines: the
\* known-hosts file can be read, unless a write met another process's or was cut
\* (ssh.go:58-63, 103-113).
THEOREM FileCanBeRead == Spec => []FileStaysReadable
  <1>1. FileInv => FileStaysReadable
    BY Zenon DEF FileInv, FileStaysReadable, Clean, GoodFile
  <1> QED BY <1>1, FileAlways, PTL

\* For any number of processes and hosts, any files and any new keys: one key of a
\* host is ever accepted, and it is on file, under the same condition (ssh.go:44-69).
THEOREM HostsKeepTheirKey == Spec => []OneKeyPerHost
  <1>1. FileInv => OneKeyPerHost
    BY Zenon DEF FileInv, OneKeyPerHost, Clean, OnFile
  <1> QED BY <1>1, FileAlways, PTL

-----------------------------------------------------------------------------
(* Names, targets and what they are resolved to.                           *)

Entry == [name: Seq(Chars), target: Target]

LEMMA TrimType ==
    ASSUME NEW s \in Seq(Chars), NEW cut
    PROVE  Trim(s, cut) \in Seq(Chars)
  <1> DEFINE solid == {i \in DOMAIN s : s[i] \notin cut}
  <1>1. Len(s) \in Nat /\ DOMAIN s = 1..Len(s)
    BY LenProperties
  <1>2. CASE solid = {}
    <2>1. Trim(s, cut) = <<>>
      BY <1>2, Zenon DEF Trim
    <2> QED BY <2>1, EmptySeq
  <1>3. CASE solid # {}
    <2>1. solid \subseteq 1..Len(s) /\ solid \subseteq Nat /\ solid \subseteq Int
      BY <1>1
    <2>2. Trim(s, cut) = SubSeq(s, Min(solid), Max(solid))
      BY <1>3, Zenon DEF Trim
    <2> HIDE DEF solid
    <2>3. PICK a \in solid : \A y \in solid : a <= y
      BY <1>3, <2>1, Least
    <2>4. PICK b \in solid : \A y \in solid : b >= y
      BY <1>1, <1>3, <2>1, Greatest
    <2>5. Min(solid) = a /\ Max(solid) = b
      BY <2>1, <2>3, <2>4, MinIs, MaxIs
    <2>6. a \in 1..Len(s) /\ b \in 1..Len(s)
      BY <2>1, Zenon
    <2>7. a \in Int /\ b \in Int /\ \A i \in a..b : s[i] \in Chars
      BY <1>1, <2>6, ElementOfSeq
    <2>8. SubSeq(s, a, b) \in Seq(Chars)
      BY <2>7, SubSeqProperties
    <2> QED BY <2>2, <2>5, <2>8, Zenon
  <1> QED BY <1>2, <1>3

LEMMA LowerType ==
    ASSUME NEW s \in Seq(Chars)
    PROVE  Lower(s) \in Seq(Chars)
  <1>1. Len(s) \in Nat /\ DOMAIN s = 1..Len(s)
    BY LenProperties
  <1>2. \A i \in 1..Len(s) : s[i] \in Chars
    BY ElementOfSeq
  <1>3. "r" \in Chars
    BY CharsAssumption DEF CharsAssumption
  <1>4. Lower(s) = [i \in 1..Len(s) |-> IF s[i] = "R" THEN "r" ELSE s[i]]
    BY <1>1, Zenon DEF Lower
  <1>5. \A i \in 1..Len(s) : (IF s[i] = "R" THEN "r" ELSE s[i]) \in Chars
    BY <1>2, <1>3, Zenon
  <1> QED BY <1>1, <1>4, <1>5, IsASeq

LEMMA NameType ==
    ASSUME NEW s \in Seq(Chars)
    PROVE  normalizeRouterName(s) \in Seq(Chars)
  BY TrimType, LowerType DEF normalizeRouterName

LEMMA HostIs ==
    ASSUME NEW t \in Target
    PROVE  Host(t) \in HostType
  <1>1. t.address \in Seq(Chars) /\ t.port \in Nat
    BY DEF Target
  <1>2. Lower(Trim(t.address, {"space", "tab"})) \in Seq(Chars)
    BY <1>1, TrimType, LowerType
  <1> QED BY <1>1, <1>2 DEF Host, HostType

LEMMA KeysFinite ==
    ASSUME NEW f, f \subseteq Entry, IsFiniteSet(f)
    PROVE  Keys(f) \subseteq Seq(Chars) /\ IsFiniteSet(Keys(f)) /\ Cardinality(Keys(f)) \in Nat
  <1> DEFINE g == [e \in Listed(f) |-> normalizeRouterName(e.name)]
  <1>1. Listed(f) \in SUBSET f
    BY DEF Listed, Named
  <1>2. IsFiniteSet(Listed(f))
    BY <1>1, FS_Subset
  <1>3. g \in Surjection(Listed(f), Keys(f))
    <2>1. g \in [Listed(f) -> Keys(f)]
      BY DEF Keys
    <2>2. \A k \in Keys(f) : \E e \in Listed(f) : g[e] = k
      BY DEF Keys
    <2> HIDE DEF g
    <2> QED BY <2>1, <2>2 DEF Surjection
  <1> HIDE DEF g
  <1>4. IsFiniteSet(Keys(f))
    BY <1>2, <1>3, FS_Surjection
  <1>5. Keys(f) \subseteq Seq(Chars)
    <2>1. \A e \in Listed(f) : e.name \in Seq(Chars)
      BY <1>1 DEF Entry
    <2> QED BY <2>1, NameType DEF Keys
  <1> QED BY <1>4, <1>5, FS_CardinalityType

\* t is where an entry of f called n says.
Reached(t, n, f) ==
    \E e \in Listed(f) : normalizeRouterName(e.name) = n /\ Place(t) = PlaceOf(e)

LEMMA WithPortIs ==
    ASSUME NEW t \in Target
    PROVE  /\ WithPort(t) \in Target /\ WithPort(t).address = t.address
           /\ WithPort(t).port = (IF t.port = 0 THEN 22 ELSE t.port)
           /\ WithPort(t).port # 0
  <1>1. t.port \in Nat /\ t.address \in Seq(Chars)
    BY DEF Target
  <1>2. CASE t.port # 0
    <2>1. WithPort(t) = t
      BY <1>2, Zenon DEF WithPort
    <2> QED BY <1>2, <2>1
  <1>3. CASE t.port = 0
    <2>1. WithPort(t) = [t EXCEPT !.port = 22]
      BY <1>3, Zenon DEF WithPort, DefaultPort
    <2>2. [t EXCEPT !.port = 22] \in Target
      BY DEF Target
    <2>3. [t EXCEPT !.port = 22].address = t.address /\ [t EXCEPT !.port = 22].port = 22
      BY DEF Target
    <2> QED BY <1>3, <2>1, <2>2, <2>3
  <1> QED BY <1>2, <1>3

LEMMA InventoryIs ==
    ASSUME NEW f, f \subseteq Entry, NEW i \in Inventories(f)
    PROVE  /\ DOMAIN i = Keys(f)
           /\ \A k \in Keys(f) : \E e \in Listed(f) :
                 /\ normalizeRouterName(e.name) = k
                 /\ e.target \in Target /\ i[k] = WithPort(e.target)
  <1>1. \A e \in Listed(f) : e.target \in Target
    BY DEF Listed, Named, Entry
  <1> QED BY <1>1 DEF Inventories

LEMMA ResolvedIs ==
    ASSUME NEW f, f \subseteq Entry, NEW i \in Inventories(f),
           NEW name \in Seq(Chars), Found(name, i), NEW port \in Nat
    PROVE  /\ Resolved(name, i, port, "cli") \in Target
           /\ Reached(Resolved(name, i, port, "cli"), normalizeRouterName(name), f)
  <1> DEFINE k == normalizeRouterName(name)
             r == Resolved(name, i, port, "cli")
  <1>1. PICK e \in Listed(f) :
            normalizeRouterName(e.name) = k /\ e.target \in Target /\ i[k] = WithPort(e.target)
    BY InventoryIs DEF Found
  <1>2. /\ WithPort(e.target) \in Target /\ WithPort(e.target).address = e.target.address
        /\ WithPort(e.target).port = (IF e.target.port = 0 THEN 22 ELSE e.target.port)
        /\ WithPort(e.target).port # 0
    BY <1>1, WithPortIs
  <1>3. r = [address |-> i[k].address,
             port |-> IF i[k].port = 0 THEN port ELSE i[k].port,
             user |-> IF i[k].user = "" THEN "cli" ELSE i[k].user]
    BY DEF Resolved
  <1> HIDE DEF k, r
  <1>4. r \in Target
    BY <1>1, <1>2, <1>3 DEF Target
  <1>5. r.address = e.target.address /\ r.port = (IF e.target.port = 0 THEN 22 ELSE e.target.port)
    BY <1>1, <1>2, <1>3
  <1>6. Place(r) = PlaceOf(e)
    BY <1>5, Zenon DEF Place, PlaceOf
  <1> QED BY <1>1, <1>4, <1>6 DEF Reached, k, r

LEMMA DirectIs ==
    ASSUME NEW name \in Seq(Chars), NEW port \in Nat
    PROVE  Direct(name, port, "cli") \in Target
  BY DEF Direct, Target

\* main goes through the keys in some order, and through all of them.
LEMMA NamesAre ==
    ASSUME NEW f, f \subseteq Entry, IsFiniteSet(f), NEW i \in Inventories(f), NEW names \in Names(i)
    PROVE  /\ names \in Seq(Seq(Chars)) /\ Len(names) = Cardinality(Keys(f))
           /\ Stable(f) => /\ names \in Seq(Keys(f))
                           /\ \A k \in Keys(f) : \E j \in 1..Len(names) : names[j] = k
  <1> DEFINE K == Keys(f)
             n == Cardinality(K)
  <1>1. K \subseteq Seq(Chars) /\ IsFiniteSet(K) /\ n \in Nat
    BY KeysFinite
  <1>2. DOMAIN i = K
    BY InventoryIs
  <1>3. PICK keys \in SetToSeqs(K) : names = [j \in DOMAIN keys |-> normalizeRouterName(keys[j])]
    BY <1>2, Zenon DEF Names
  <1>4. keys \in [1..n -> K] /\ \A a, b \in 1..n : a # b => keys[a] # keys[b]
    BY <1>3 DEF SetToSeqs
  <1>5. names = [j \in 1..n |-> normalizeRouterName(keys[j])]
    BY <1>3, <1>4
  <1>6. keys \in Surjection(1..n, K)
    <2>1. keys \in Injection(1..n, K)
      BY <1>4 DEF Injection, IsInjective
    <2>2. IsFiniteSet(1..n) /\ Cardinality(1..n) = n
      BY <1>1, FS_Interval
    <2> QED BY <1>1, <2>1, <2>2, FS_Injection
  <1> HIDE DEF n
  <1>7. names \in Seq(Seq(Chars)) /\ Len(names) = n
    <2>1. \A j \in 1..n : normalizeRouterName(keys[j]) \in Seq(Chars)
      BY <1>1, <1>4, NameType
    <2> QED BY <1>1, <1>5, <2>1, IsASeq, LenProperties
  <1>8. ASSUME Stable(f)
        PROVE  names \in Seq(K) /\ \A k \in K : \E j \in 1..Len(names) : names[j] = k
    <2>1. \A k \in K : normalizeRouterName(k) = k
      BY <1>8 DEF Stable, Keys, Listed, Named
    <2>2. \A j \in 1..n : normalizeRouterName(keys[j]) = keys[j] /\ keys[j] \in K
      BY <1>4, <2>1
    <2>3. names \in Seq(K)
      BY <1>1, <1>5, <2>2, IsASeq
    <2>4. \A k \in K : \E j \in 1..n : keys[j] = k
      BY <1>6 DEF Surjection
    <2>5. \A j \in 1..n : names[j] = keys[j]
      BY <1>5, <2>2
    <2> QED BY <1>7, <2>3, <2>4, <2>5
  <1> QED BY <1>7, <1>8 DEF n

\* A write keeps a file one, and does not make it shorter, wherever it begins.
LEMMA WriteKeeps ==
    ASSUME NEW f \in Seq(Cell), NEW o \in Nat, o <= Len(f), NEW cells \in Seq(Cell)
    PROVE  WriteAt(f, o, cells) \in Seq(Cell) /\ Len(f) <= Len(WriteAt(f, o, cells))
  <1> DEFINE a == SubSeq(f, 1, o)
             b == SubSeq(f, o + Len(cells) + 1, Len(f))
  <1>1. Len(f) \in Nat /\ Len(cells) \in Nat
    BY LenProperties
  <1>2. a \in Seq(Cell) /\ Len(a) = o
    <2>1. 1 \in Int /\ o \in Int /\ \A i \in 1..o : f[i] \in Cell
      BY <1>1, ElementOfSeq
    <2>2. a \in Seq(Cell) /\ Len(a) = IF 1 <= o THEN o - 1 + 1 ELSE 0
      BY <2>1, SubSeqProperties
    <2> QED BY <2>2
  <1>3. b \in Seq(Cell) /\ Len(b) \in Nat /\ Len(b) >= Len(f) - o - Len(cells)
    <2> DEFINE from == o + Len(cells) + 1
    <2>1. from \in Int /\ from >= 1 /\ Len(f) \in Int
      BY <1>1
    <2>2. \A i \in from..Len(f) : f[i] \in Cell
      BY <1>1, <2>1, ElementOfSeq
    <2> HIDE DEF from
    <2>3. /\ SubSeq(f, from, Len(f)) \in Seq(Cell)
          /\ Len(SubSeq(f, from, Len(f))) = IF from <= Len(f) THEN Len(f) - from + 1 ELSE 0
      BY <2>1, <2>2, SubSeqProperties
    <2>4. b = SubSeq(f, from, Len(f))
      BY DEF from
    <2> HIDE DEF b
    <2> QED BY <1>1, <2>1, <2>3, <2>4 DEF from
  <1> HIDE DEF a, b
  <1>4. a \o cells \in Seq(Cell) /\ Len(a \o cells) = o + Len(cells)
    BY <1>2, ConcatProperties
  <1>5. (a \o cells) \o b \in Seq(Cell) /\ Len((a \o cells) \o b) = o + Len(cells) + Len(b)
    <2>1. \A u, v \in Seq(Cell) : u \o v \in Seq(Cell) /\ Len(u \o v) = Len(u) + Len(v)
      BY ConcatProperties
    <2>2. (a \o cells) \o b \in Seq(Cell) /\ Len((a \o cells) \o b) = Len(a \o cells) + Len(b)
      BY <1>3, <1>4, <2>1, Zenon
    <2> QED BY <1>4, <2>2
  <1>6. WriteAt(f, o, cells) = (a \o cells) \o b
    BY DEF WriteAt, a, b
  <1> QED BY <1>1, <1>3, <1>5, <1>6

-----------------------------------------------------------------------------
(* What main knows of the inventory, and what of it is done.               *)

LoadedFrom(p) == call[p].hasFile /\ pc[p] \notin {"load", "panicked"}

Locals(p) ==
    /\ routers[p] \in Seq(Seq(Chars)) /\ dialed[p] \in Seq(Target)
    /\ pc[p] = "load" => dialed[p] = <<>>
    /\ pc[p] \in {"verifier", "dial"} => routers[p] # <<>>
    /\ LoadedFrom(p) => inv[p] \in Inventories(call[p].file)

TypeInv ==
    /\ TypeOK /\ WorldTypes /\ file \in Seq(Cell)
    /\ DOMAIN call = Processes /\ DOMAIN inv = Processes /\ DOMAIN routers = Processes
    /\ DOMAIN target = Processes /\ DOMAIN dialed = Processes
    /\ \A p \in Processes : Locals(p)

LEMMA CallIs ==
    ASSUME NEW p \in Processes, call[p] \in Calls[p]
    PROVE  /\ call[p].name \in Seq(Chars) /\ call[p].hasFile \in BOOLEAN
           /\ call[p].file \subseteq Entry /\ IsFiniteSet(call[p].file)
           /\ call[p].port \in Nat /\ call[p].port # 0
  BY ConnectAssumption DEF ConnectAssumption, CallType, Entry

\* A dial ends, and may have written cells at the offset of its verifier.
LEMMA DialDoes ==
    ASSUME TypeInv, NEW p \in Processes, Dial(p)
    PROVE  /\ Connected(p) \/ Refused(p)
           /\ file' = file \/ \E cells \in Seq(Cell) : file' = WriteAt(file, offset[p], cells)
           /\ overlaid' \in BOOLEAN /\ torn' \in BOOLEAN
  <1> DEFINE h == Host(target[p])
             Writes == \E cells \in Seq(Cell) : file' = WriteAt(file, offset[p], cells)
  <1>1. overlaid \in BOOLEAN /\ torn \in BOOLEAN
    BY DEF TypeInv, TypeOK
  <1>2. CASE Refused(p) /\ UNCHANGED <<file, accepted, overlaid, torn>>
    BY <1>1, <1>2
  <1>3. CASE Connected(p) /\ UNCHANGED <<file, accepted, overlaid, torn>>
    BY <1>1, <1>3
  <1>4. CASE h \in Network /\ Compare(p, h)
    BY <1>1, <1>4 DEF Compare
  <1>5. ASSUME h \in Network
        PROVE  /\ Line(h, key[h]) \in Seq(Cell) /\ Len(Line(h, key[h])) = Len(h.name) + 1
               /\ Len(h.name) \in Nat
    <2>1. h \in HostType /\ h.name # <<>> /\ key[h] \in HostKeys
      BY <1>5, ConnectAssumption DEF ConnectAssumption, TypeInv, WorldTypes
    <2> HIDE DEF h
    <2> QED BY <2>1, LineIs
  <1>6. CASE h \in Network /\ Learn(p, h)
    <2>1. Writes /\ (Connected(p) \/ Refused(p)) /\ torn' = torn
      BY <1>5, <1>6 DEF Learn, Write
    <2>2. overlaid' \in BOOLEAN
      BY <1>1, <1>6, Zenon DEF Learn, Write
    <2> QED BY <1>1, <2>1, <2>2
  <1>7. CASE h \in Network /\ LearnTorn(p, h)
    <2>1. PICK n \in 0..Len(h.name) : Write(SubSeq(Line(h, key[h]), 1, n), p)
      BY <1>7, Zenon DEF LearnTorn
    <2>2. SubSeq(Line(h, key[h]), 1, n) \in Seq(Cell)
      <3> DEFINE L == Line(h, key[h])
      <3>1. L \in Seq(Cell) /\ Len(L) = Len(h.name) + 1 /\ Len(h.name) \in Nat
        BY <1>5, <1>7
      <3> HIDE DEF L, h
      <3>2. n \in 0..Len(h.name)
        BY <2>1
      <3>3. 1 \in Int /\ n \in Int /\ \A i \in 1..n : L[i] \in Cell
        BY <3>1, <3>2, ElementOfSeq
      <3>4. SubSeq(L, 1, n) \in Seq(Cell)
        BY <3>3, SubSeqProperties
      <3> QED BY <3>4 DEF L
    <2>3. Writes /\ overlaid' \in BOOLEAN
      BY <1>1, <2>1, <2>2, Zenon DEF Write
    <2>4. Refused(p) /\ torn' \in BOOLEAN
      BY <1>7 DEF LearnTorn
    <2> QED BY <2>3, <2>4
  <1> HIDE DEF h
  <1> QED BY <1>2, <1>3, <1>4, <1>6, <1>7, Zenon DEF Dial, h

\* Where a process is after a router, and with how many it is left.
LEMMA AfterDial ==
    ASSUME TypeInv, NEW p \in Processes, pc[p] = "dial", Connected(p) \/ Refused(p)
    PROVE  /\ pc' \in [Processes -> Pcs] /\ pc'[p] \in {"resolve", "failed"}
           /\ DOMAIN routers' = Processes
           /\ routers'[p] = Tail(routers[p]) \/ (pc'[p] = "failed" /\ routers'[p] = routers[p])
           /\ \A q \in Processes \ {p} : pc'[q] = pc[q] /\ routers'[q] = routers[q]
  <1>1. pc \in [Processes -> Pcs] /\ DOMAIN routers = Processes
    BY DEF TypeInv, WorldTypes
  <1>2. \/ pc' = [pc EXCEPT ![p] = "resolve"] /\ routers' = [routers EXCEPT ![p] = Tail(@)]
        \/ pc' = [pc EXCEPT ![p] = "failed"] /\ routers' = routers
    BY Zenon DEF Connected, Refused, Goto
  <1> QED BY <1>1, <1>2 DEF Pcs, Ends

LEMMA TailType ==
    ASSUME NEW S, NEW s \in Seq(S), s # <<>>
    PROVE  /\ Head(s) \in S /\ Tail(s) \in Seq(S) /\ Len(s) \in Nat /\ Len(Tail(s)) = Len(s) - 1
           /\ s[1] = Head(s) /\ \A i \in 2..Len(s) : i - 1 \in 1..Len(Tail(s)) /\ s[i] = Tail(s)[i - 1]
  <1>1. /\ Head(s) \in S /\ Tail(s) \in Seq(S) /\ Len(s) \in Nat /\ Len(Tail(s)) = Len(s) - 1
        /\ \A i \in 1..Len(Tail(s)) : Tail(s)[i] = s[i + 1]
    BY HeadTailProperties, LenProperties
  <1>2. s[1] = Head(s)
    OBVIOUS
  <1>3. \A i \in 2..Len(s) : i - 1 \in 1..Len(Tail(s)) /\ i - 1 + 1 = i
    BY <1>1
  <1> QED BY <1>1, <1>2, <1>3

\* What a step of p is about its own locals.
Others(p) ==
    \A q \in Processes \ {p} :
        /\ pc'[q] = pc[q] /\ inv'[q] = inv[q] /\ routers'[q] = routers[q]
        /\ target'[q] = target[q] /\ dialed'[q] = dialed[q] /\ offset'[q] = offset[q]

Framed ==
    /\ DOMAIN inv' = Processes /\ DOMAIN routers' = Processes
    /\ DOMAIN target' = Processes /\ DOMAIN dialed' = Processes
    /\ WorldTypes'

LEMMA OwnStep ==
    ASSUME TypeInv, NEW p \in Processes, call' = call, Framed, Others(p), Locals(p)',
           offset'[p] \in Nat, target'[p] \in Target, pc'[p] = "dial" => offset'[p] <= Len(file'),
           file' \in Seq(Cell), Len(file) <= Len(file'),
           rekeyed' \in BOOLEAN, overlaid' \in BOOLEAN, torn' \in BOOLEAN
    PROVE  TypeInv'
  <1>1. Len(file) \in Nat /\ Len(file') \in Nat
    BY LenProperties DEF TypeInv
  <1>2. TypeOK'
    <2>1. \A q \in Processes : call'[q] \in Calls[q] /\ pc'[q] \in Pcs
      BY DEF TypeInv, TypeOK, Framed, WorldTypes
    <2>2. ASSUME NEW q \in Processes
          PROVE  /\ offset'[q] \in Nat /\ target'[q] \in Target
                 /\ pc'[q] = "dial" => offset'[q] <= Len(file')
      <3>1. CASE q = p
        BY <3>1
      <3>2. CASE q # p
        <4>1. /\ offset[q] \in Nat /\ target[q] \in Target
              /\ pc[q] = "dial" => offset[q] <= Len(file)
          BY DEF TypeInv, TypeOK
        <4>2. offset'[q] = offset[q] /\ target'[q] = target[q] /\ pc'[q] = pc[q]
          BY <3>2 DEF Others
        <4> QED BY <1>1, <4>1, <4>2
      <3> QED BY <3>1, <3>2
    <2>3. DOMAIN key' = Network
      BY DEF Framed, WorldTypes
    <2> QED BY <2>1, <2>2, <2>3 DEF TypeOK
  <1>3. ASSUME NEW q \in Processes PROVE Locals(q)'
    <2>1. CASE q # p
      <3>1. Locals(q)
        BY DEF TypeInv
      <3> QED BY <2>1, <3>1 DEF Others, Locals, LoadedFrom
    <2> QED BY <2>1
  <1> QED BY <1>2, <1>3 DEF TypeInv, Framed

\* Everything of p but what Load, Resolve and OpenVerifier are about.
LEMMA LoadTypes ==
    ASSUME TypeInv, NEW p \in Processes, Load(p)
    PROVE  TypeInv'
  <1>1. /\ call' = call /\ target' = target /\ offset' = offset /\ dialed' = dialed
        /\ known' = known /\ file' = file /\ key' = key
        /\ UNCHANGED <<rekeyed, overlaid, torn>> /\ pc[p] = "load"
    BY DEF Load, worldVars
  <1>2. /\ call[p].name \in Seq(Chars) /\ call[p].file \subseteq Entry /\ IsFiniteSet(call[p].file)
    BY CallIs DEF TypeInv, TypeOK
  <1>3. DOMAIN inv = Processes /\ DOMAIN routers = Processes /\ pc \in [Processes -> Pcs]
    BY DEF TypeInv, WorldTypes
  <1>4. Locals(p)
    BY DEF TypeInv
  <1>5. /\ pc' \in [Processes -> Pcs] /\ pc'[p] \in {"panicked", "resolve"}
        /\ DOMAIN inv' = Processes /\ DOMAIN routers' = Processes
        /\ \A q \in Processes \ {p} : pc'[q] = pc[q] /\ inv'[q] = inv[q] /\ routers'[q] = routers[q]
    BY <1>3 DEF Load, Goto, Pcs, Ends
  <1>6. /\ routers'[p] \in Seq(Seq(Chars))
        /\ call[p].hasFile /\ pc'[p] # "panicked" => inv'[p] \in Inventories(call[p].file)
    <2>1. CASE call[p].hasFile /\ Panics(call[p].file) /\ Goto(p, "panicked")
               /\ UNCHANGED <<inv, routers>>
      <3>1. pc'[p] = "panicked" /\ routers'[p] = routers[p]
        BY <1>3, <2>1 DEF Goto
      <3> QED BY <1>4, <3>1 DEF Locals
    <2>2. CASE ~call[p].hasFile /\ routers' = [routers EXCEPT ![p] = <<call[p].name>>]
      BY <1>2, <1>3, <2>2
    <2>3. ASSUME NEW i \in Inventories(call[p].file), inv' = [inv EXCEPT ![p] = i],
                 NEW names \in IF Single(p) THEN {<<call[p].name>>} ELSE Names(i),
                 routers' = [routers EXCEPT ![p] = names]
          PROVE  routers'[p] \in Seq(Seq(Chars)) /\ inv'[p] \in Inventories(call[p].file)
      <3>1. routers'[p] = names /\ inv'[p] = i
        BY <1>3, <2>3
      <3>2. CASE Single(p)
        <4>1. names = <<call[p].name>>
          BY <2>3, <3>2, Zenon
        <4>2. <<call[p].name>> \in Seq(Seq(Chars))
          BY <1>2
        <4> QED BY <2>3, <3>1, <4>1, <4>2, Zenon
      <3>3. CASE ~Single(p)
        <4>1. names \in Names(i)
          BY <2>3, <3>3
        <4>2. names \in Seq(Seq(Chars))
          BY <1>2, <4>1, NamesAre
        <4> QED BY <3>1, <4>2
      <3> QED BY <3>2, <3>3
    <2> QED BY <2>1, <2>2, <2>3, Zenon DEF Load
  <1>7. Locals(p)'
    BY <1>1, <1>4, <1>5, <1>6 DEF Locals, LoadedFrom
  <1>8. Framed
    BY <1>1, <1>5 DEF Framed, TypeInv, WorldTypes
  <1>9. Others(p)
    BY <1>1, <1>5 DEF Others
  <1>10. /\ offset'[p] \in Nat /\ target'[p] \in Target /\ pc'[p] # "dial"
         /\ file' \in Seq(Cell) /\ Len(file) <= Len(file')
         /\ rekeyed' \in BOOLEAN /\ overlaid' \in BOOLEAN /\ torn' \in BOOLEAN
    <2>1. file \in Seq(Cell) /\ Len(file) \in Nat
      BY LenProperties DEF TypeInv
    <2> QED BY <1>1, <1>5, <2>1 DEF TypeInv, TypeOK
  <1> QED BY <1>1, <1>7, <1>8, <1>9, <1>10, OwnStep

LEMMA ResolveTypes ==
    ASSUME TypeInv, NEW p \in Processes, Resolve(p)
    PROVE  TypeInv'
  <1>1. /\ call' = call /\ inv' = inv /\ routers' = routers /\ offset' = offset
        /\ dialed' = dialed /\ known' = known /\ file' = file /\ key' = key
        /\ UNCHANGED <<rekeyed, overlaid, torn>> /\ pc[p] = "resolve"
    BY DEF Resolve, worldVars
  <1>2. /\ call[p].file \subseteq Entry /\ call[p].port \in Nat
    BY CallIs DEF TypeInv, TypeOK
  <1>3. DOMAIN target = Processes /\ pc \in [Processes -> Pcs]
    BY DEF TypeInv, WorldTypes
  <1>4. Locals(p)
    BY DEF TypeInv
  <1>5. /\ pc' \in [Processes -> Pcs] /\ pc'[p] \in {"over", "verifier"}
        /\ pc'[p] = "verifier" => routers[p] # <<>>
        /\ DOMAIN target' = Processes
        /\ \A q \in Processes \ {p} : pc'[q] = pc[q] /\ target'[q] = target[q]
    BY <1>3 DEF Resolve, Goto, Pcs, Ends
  <1>6. target'[p] \in Target
    <2>1. CASE routers[p] = <<>>
      BY <2>1 DEF Resolve, TypeInv, TypeOK
    <2>2. CASE routers[p] # <<>>
      <3> DEFINE name == Head(routers[p])
      <3>1. name \in Seq(Chars)
        BY <1>4, <2>2, TailType DEF Locals
      <3>2. target'[p] = IF call[p].hasFile /\ Found(name, inv[p])
                         THEN Resolved(name, inv[p], call[p].port, "cli")
                         ELSE Direct(name, call[p].port, "cli")
        BY <1>3, <2>2 DEF Resolve
      <3> HIDE DEF name
      <3>3. CASE call[p].hasFile /\ Found(name, inv[p])
        <4>1. inv[p] \in Inventories(call[p].file)
          BY <1>1, <1>4, <3>3 DEF Locals, LoadedFrom
        <4>2. Resolved(name, inv[p], call[p].port, "cli") \in Target
          BY <1>2, <3>1, <3>3, <4>1, ResolvedIs
        <4> QED BY <3>2, <3>3, <4>2
      <3>4. CASE ~(call[p].hasFile /\ Found(name, inv[p]))
        BY <1>2, <3>1, <3>2, <3>4, DirectIs
      <3> QED BY <3>3, <3>4
    <2> QED BY <2>1, <2>2
  <1>7. Locals(p)'
    BY <1>1, <1>4, <1>5 DEF Locals, LoadedFrom
  <1>8. Framed
    BY <1>1, <1>5 DEF Framed, TypeInv, WorldTypes
  <1>9. Others(p)
    BY <1>1, <1>5 DEF Others
  <1>10. /\ offset'[p] \in Nat /\ pc'[p] # "dial"
         /\ file' \in Seq(Cell) /\ Len(file) <= Len(file')
         /\ rekeyed' \in BOOLEAN /\ overlaid' \in BOOLEAN /\ torn' \in BOOLEAN
    <2>1. file \in Seq(Cell) /\ Len(file) \in Nat
      BY LenProperties DEF TypeInv
    <2> QED BY <1>1, <1>5, <2>1 DEF TypeInv, TypeOK
  <1> QED BY <1>1, <1>6, <1>7, <1>8, <1>9, <1>10, OwnStep

LEMMA OpenTypes ==
    ASSUME TypeInv, NEW p \in Processes, OpenVerifier(p)
    PROVE  TypeInv'
  <1>1. /\ call' = call /\ inv' = inv /\ routers' = routers /\ target' = target
        /\ dialed' = dialed /\ file' = file /\ key' = key
        /\ UNCHANGED <<rekeyed, overlaid, torn>> /\ pc[p] = "verifier"
    BY DEF OpenVerifier, worldVars
  <1>2. pc \in [Processes -> Pcs] /\ DOMAIN known = Processes /\ DOMAIN offset = Processes
    BY DEF TypeInv, WorldTypes
  <1>3. Locals(p) /\ target[p] \in Target /\ offset[p] \in Nat
    BY DEF TypeInv, TypeOK
  <1>4. file \in Seq(Cell) /\ Len(file) \in Nat
    BY LenProperties DEF TypeInv
  <1>5. /\ pc' \in [Processes -> Pcs] /\ pc'[p] \in {"dial", "failed"}
        /\ DOMAIN known' = Processes /\ DOMAIN offset' = Processes
        /\ pc'[p] = "dial" => offset'[p] = Len(file)
        /\ offset'[p] = Len(file) \/ offset'[p] = offset[p]
        /\ \A q \in Processes \ {p} : pc'[q] = pc[q] /\ offset'[q] = offset[q]
    <2>1. CASE Parses(file)
      <3>1. /\ known' = [known EXCEPT ![p] = Known(file)]
            /\ offset' = [offset EXCEPT ![p] = Len(file)]
            /\ pc' = [pc EXCEPT ![p] = "dial"]
        BY <2>1 DEF OpenVerifier, Goto
      <3> QED BY <1>2, <3>1 DEF Pcs, Ends
    <2>2. CASE ~Parses(file)
      <3>1. known' = known /\ offset' = offset /\ pc' = [pc EXCEPT ![p] = "failed"]
        BY <2>2 DEF OpenVerifier, Goto
      <3> QED BY <1>2, <3>1 DEF Pcs, Ends
    <2> QED BY <2>1, <2>2
  <1>6. Locals(p)'
    BY <1>1, <1>3, <1>5 DEF Locals, LoadedFrom
  <1>7. Framed
    BY <1>1, <1>5 DEF Framed, TypeInv, WorldTypes
  <1>8. Others(p)
    BY <1>1, <1>5 DEF Others
  <1>9. /\ offset'[p] \in Nat /\ target'[p] \in Target /\ (pc'[p] = "dial" => offset'[p] <= Len(file'))
        /\ file' \in Seq(Cell) /\ Len(file) <= Len(file')
        /\ rekeyed' \in BOOLEAN /\ overlaid' \in BOOLEAN /\ torn' \in BOOLEAN
    <2>1. rekeyed \in BOOLEAN /\ overlaid \in BOOLEAN /\ torn \in BOOLEAN
      BY DEF TypeInv, TypeOK
    <2> QED BY <1>1, <1>3, <1>4, <1>5, <2>1
  <1> QED BY <1>1, <1>6, <1>7, <1>8, <1>9, OwnStep

LEMMA DialTypes ==
    ASSUME TypeInv, NEW p \in Processes, Dial(p)
    PROVE  TypeInv'
  <1>1. /\ call' = call /\ inv' = inv /\ target' = target /\ offset' = offset
        /\ known' = known /\ key' = key /\ rekeyed' = rekeyed /\ pc[p] = "dial"
        /\ dialed' = [dialed EXCEPT ![p] = Append(@, target[p])]
    BY DEF Dial
  <1>2. /\ Connected(p) \/ Refused(p)
        /\ file' = file \/ \E cells \in Seq(Cell) : file' = WriteAt(file, offset[p], cells)
        /\ overlaid' \in BOOLEAN /\ torn' \in BOOLEAN
    BY DialDoes
  <1>3. /\ pc' \in [Processes -> Pcs] /\ pc'[p] \in {"resolve", "failed"}
        /\ DOMAIN routers' = Processes
        /\ routers'[p] = Tail(routers[p]) \/ (pc'[p] = "failed" /\ routers'[p] = routers[p])
        /\ \A q \in Processes \ {p} : pc'[q] = pc[q] /\ routers'[q] = routers[q]
    BY <1>1, <1>2, AfterDial
  <1>4. Locals(p) /\ target[p] \in Target /\ offset[p] \in Nat /\ offset[p] <= Len(file)
        /\ DOMAIN dialed = Processes
    BY <1>1 DEF TypeInv, TypeOK
  <1>5. /\ DOMAIN dialed' = Processes /\ dialed'[p] = Append(dialed[p], target[p])
        /\ \A q \in Processes \ {p} : dialed'[q] = dialed[q]
    BY <1>1, <1>4
  <1>6. Locals(p)'
    <2>1. routers[p] \in Seq(Seq(Chars)) /\ routers[p] # <<>> /\ dialed[p] \in Seq(Target)
      BY <1>1, <1>4 DEF Locals
    <2>2. Tail(routers[p]) \in Seq(Seq(Chars)) /\ Append(dialed[p], target[p]) \in Seq(Target)
      BY <1>4, <2>1, TailType, AppendProperties
    <2>3. routers'[p] \in Seq(Seq(Chars)) /\ dialed'[p] \in Seq(Target)
      BY <1>3, <1>5, <2>1, <2>2, Zenon
    <2> QED BY <1>1, <1>3, <1>4, <2>3 DEF Locals, LoadedFrom
  <1>7. Framed
    BY <1>1, <1>3, <1>5 DEF Framed, TypeInv, WorldTypes
  <1>8. Others(p)
    BY <1>1, <1>3, <1>5 DEF Others
  <1>9. file' \in Seq(Cell) /\ Len(file) <= Len(file')
    <2>1. file \in Seq(Cell) /\ Len(file) \in Nat
      BY LenProperties DEF TypeInv
    <2> QED BY <1>2, <1>4, <2>1, WriteKeeps
  <1>10. rekeyed' \in BOOLEAN
    BY <1>1 DEF TypeInv, TypeOK
  <1> QED BY <1>1, <1>2, <1>3, <1>4, <1>6, <1>7, <1>8, <1>9, <1>10, OwnStep

LEMMA TypeInvInductive == TypeInv /\ [Next]_vars => TypeInv'
  <1> SUFFICES ASSUME TypeInv, [Next]_vars PROVE TypeInv'
    OBVIOUS
  <1>1. CASE UNCHANGED vars
    BY <1>1 DEF vars, mainVars, worldVars, TypeInv, TypeOK, WorldTypes, Locals, LoadedFrom
  <1>2. ASSUME NEW h \in NewKeys, Rekey(h) PROVE TypeInv'
    <2>1. key \in [Network -> HostKeys] /\ "newkey" \in HostKeys
      BY ConnectAssumption DEF ConnectAssumption, TypeInv, WorldTypes
    <2>2. key' \in [Network -> HostKeys]
      BY <1>2, <2>1 DEF Rekey
    <2>3. rekeyed' \in BOOLEAN /\ UNCHANGED <<file, overlaid, torn>> /\ UNCHANGED mainVars
      BY <1>2 DEF Rekey
    <2> QED BY <2>2, <2>3 DEF mainVars, TypeInv, TypeOK, WorldTypes, Locals, LoadedFrom
  <1> QED BY <1>1, <1>2, LoadTypes, ResolveTypes, OpenTypes, DialTypes DEF Next, Main, Ended

LEMMA TypeInvInitially == Init => TypeInv
  <1> SUFFICES ASSUME Init PROVE TypeInv
    OBVIOUS
  <1>1. WorldTypes
    <2>1. Init => FileInv
      BY FileInit
    <2> QED BY <2>1 DEF FileInv
  <1>2. /\ call \in [Processes -> UNION Range(Calls)] /\ \A p \in Processes : call[p] \in Calls[p]
        /\ file \in Seq(Cell) /\ Len(file) \in Nat
    BY ConnectAssumption, LenProperties DEF Init, ConnectAssumption
  <1>3. None \in Target
    BY EmptySeq DEF None, Target
  <1>4. TypeOK
    BY <1>1, <1>2, <1>3 DEF Init, TypeOK, Pcs, WorldTypes
  <1>5. ASSUME NEW p \in Processes PROVE Locals(p)
    BY EmptySeq DEF Init, Locals, LoadedFrom
  <1> QED BY <1>1, <1>2, <1>4, <1>5 DEF Init, TypeInv

\* main is at a statement of the code and its locals are of their types, whatever the
\* inventory and the command line say; a verifier never writes beyond the end of the
\* known-hosts file, whoever has written since it was read (ssh.go:103-126).
THEOREM ConnectTypes == Spec => []TypeOK
  <1>1. TypeInv => TypeOK
    BY DEF TypeInv
  <1> QED BY <1>1, TypeInvInitially, TypeInvInductive, PTL DEF Spec

-----------------------------------------------------------------------------
(* How far a process is through its inventory.                             *)

Through(p) == LoadedFrom(p) /\ ~Single(p) /\ Stable(call[p].file)

\* The names still to come, and what has been done for the others.
Contacts(f, rest, done, there) ==
    /\ rest \in Seq(Keys(f))
    /\ there \in {"resolve", "verifier", "dial", "over"} =>
          Len(done) + Len(rest) = Cardinality(Keys(f))
    /\ \A n \in Keys(f) : \/ \E i \in 1..Len(rest) : rest[i] = n
                          \/ \E i \in 1..Len(done) : Reached(done[i], n, f)
    /\ \A i \in 1..Len(done) : \E n \in Keys(f) : Reached(done[i], n, f)

ContactInv(p) ==
    Through(p) =>
        /\ Contacts(call[p].file, routers[p], dialed[p], pc[p])
        /\ pc[p] = "over" => routers[p] = <<>>
        /\ pc[p] \in {"verifier", "dial"} =>
              Reached(target[p], Head(routers[p]), call[p].file)

\* One router less, and it was contacted.
LEMMA ContactsGoOn ==
    ASSUME NEW f, IsFiniteSet(f), f \subseteq Entry, NEW rest, NEW done \in Seq(Target),
           NEW t \in Target, rest # <<>>, Contacts(f, rest, done, "dial"),
           Reached(t, Head(rest), f)
    PROVE  /\ Contacts(f, Tail(rest), Append(done, t), "resolve")
           /\ Contacts(f, rest, Append(done, t), "failed")
  <1> DEFINE K == Keys(f)
             after == Append(done, t)
  <1>1. rest \in Seq(K) /\ Len(done) + Len(rest) = Cardinality(K)
    BY DEF Contacts
  <1>2. /\ Head(rest) \in K /\ Tail(rest) \in Seq(K) /\ Len(rest) \in Nat
        /\ Len(Tail(rest)) = Len(rest) - 1 /\ rest[1] = Head(rest)
        /\ \A i \in 2..Len(rest) : i - 1 \in 1..Len(Tail(rest)) /\ rest[i] = Tail(rest)[i - 1]
    BY <1>1, TailType
  <1>3. /\ Len(done) \in Nat /\ Len(after) = Len(done) + 1
        /\ \A i \in 1..Len(done) : after[i] = done[i]
        /\ after[Len(done) + 1] = t
    BY AppendProperties, LenProperties
  <1>4. \A n \in K : \/ \E i \in 1..Len(rest) : rest[i] = n
                     \/ \E i \in 1..Len(done) : Reached(done[i], n, f)
    BY DEF Contacts
  <1>5. \A i \in 1..Len(done) : \E n \in K : Reached(done[i], n, f)
    BY DEF Contacts
  <1> HIDE DEF K, after
  <1>6. \A i \in 1..Len(done) : i \in 1..Len(after)
    BY <1>3
  <1>7. \A i \in 1..Len(after) : i \in 1..Len(done) \/ i = Len(done) + 1
    BY <1>3
  <1>8. Len(done) + 1 \in 1..Len(after)
    BY <1>3
  <1>9. \A i \in 1..Len(after) : \E n \in K : Reached(after[i], n, f)
    BY <1>2, <1>3, <1>5, <1>7, Zenon
  <1>10. \A n : (\E i \in 1..Len(done) : Reached(done[i], n, f)) =>
                    \E i \in 1..Len(after) : Reached(after[i], n, f)
    BY <1>3, <1>6, Zenon
  <1>11. \A n \in K : \/ \E i \in 1..Len(Tail(rest)) : Tail(rest)[i] = n
                      \/ \E i \in 1..Len(after) : Reached(after[i], n, f)
    <2> TAKE n \in K
    <2>1. CASE n = Head(rest)
      BY <1>3, <1>8, <2>1, Zenon
    <2>2. ASSUME NEW i \in 1..Len(rest), rest[i] = n, n # Head(rest)
          PROVE  \E j \in 1..Len(Tail(rest)) : Tail(rest)[j] = n
      <3>1. i # 1
        BY <1>2, <2>2, Zenon
      <3>2. i \in 2..Len(rest)
        BY <1>2, <3>1
      <3> QED BY <1>2, <2>2, <3>2, Zenon
    <2> QED BY <1>4, <1>10, <2>1, <2>2, Zenon
  <1>12. Len(after) + Len(Tail(rest)) = Cardinality(K)
    BY <1>1, <1>2, <1>3 DEF K
  <1>13. Contacts(f, Tail(rest), after, "resolve")
    BY <1>2, <1>9, <1>11, <1>12, Zenon DEF Contacts, K
  <1>14. \A n \in K : \/ \E i \in 1..Len(rest) : rest[i] = n
                      \/ \E i \in 1..Len(after) : Reached(after[i], n, f)
    BY <1>4, <1>10, Zenon
  <1>15. Contacts(f, rest, after, "failed")
    BY <1>1, <1>9, <1>14 DEF Contacts, K
  <1> QED BY <1>13, <1>15 DEF after

\* The list main makes of the inventory.
LEMMA ContactsBegin ==
    ASSUME NEW f, f \subseteq Entry, IsFiniteSet(f), NEW i \in Inventories(f),
           NEW names \in Names(i), Stable(f)
    PROVE  Contacts(f, names, <<>>, "resolve")
  <1>1. /\ Len(names) = Cardinality(Keys(f)) /\ names \in Seq(Keys(f))
        /\ \A k \in Keys(f) : \E j \in 1..Len(names) : names[j] = k
    BY NamesAre
  <1>2. Len(<<>>) = 0 /\ 1..0 = {}
    OBVIOUS
  <1>3. Len(<<>>) + Len(names) = Cardinality(Keys(f))
    <2>1. Cardinality(Keys(f)) \in Nat
      BY KeysFinite
    <2> QED BY <1>1, <1>2, <2>1
  <1>4. \A j \in 1..Len(<<>>) : FALSE
    BY <1>2
  <1> QED BY <1>1, <1>3, <1>4, Zenon DEF Contacts

\* Steps of p to another statement, with the same names to go through.
LEMMA ContactStays ==
    ASSUME NEW p \in Processes, ContactInv(p),
           call' = call, inv'[p] = inv[p], routers'[p] = routers[p], dialed'[p] = dialed[p],
           pc[p] # "load", pc[p] # "panicked",
           Through(p)' => \/ pc'[p] = "failed"
                          \/ /\ pc[p] \in {"resolve", "verifier", "dial", "over"}
                             /\ pc'[p] = "over" => routers[p] = <<>>
                             /\ pc'[p] \in {"verifier", "dial"} =>
                                   Reached(target'[p], Head(routers[p]), call[p].file)
    PROVE  ContactInv(p)'
  <1> SUFFICES ASSUME Through(p)'
               PROVE  /\ Contacts(call[p].file, routers[p], dialed[p], pc'[p])
                      /\ pc'[p] = "over" => routers[p] = <<>>
                      /\ pc'[p] \in {"verifier", "dial"} =>
                            Reached(target'[p], Head(routers[p]), call[p].file)
    BY DEF ContactInv
  <1>1. Through(p)
    BY DEF Through, LoadedFrom, Single
  <1>2. Contacts(call[p].file, routers[p], dialed[p], pc[p])
    BY <1>1 DEF ContactInv
  <1> QED BY <1>2 DEF Contacts

LEMMA ContactInvInductive ==
    TypeInv /\ (\A p \in Processes : ContactInv(p)) /\ [Next]_vars
        => \A p \in Processes : ContactInv(p)'
  <1> SUFFICES ASSUME TypeInv, \A p \in Processes : ContactInv(p), [Next]_vars, NEW p \in Processes
               PROVE  ContactInv(p)'
    OBVIOUS
  <1>0. /\ ContactInv(p) /\ Locals(p) /\ pc \in [Processes -> Pcs] /\ target[p] \in Target
        /\ call[p].name \in Seq(Chars) /\ call[p].file \subseteq Entry
        /\ IsFiniteSet(call[p].file) /\ call[p].port \in Nat
        /\ DOMAIN inv = Processes /\ DOMAIN routers = Processes
        /\ DOMAIN target = Processes /\ DOMAIN dialed = Processes
    BY CallIs DEF TypeInv, TypeOK, WorldTypes
  <1>1. ASSUME call' = call, pc'[p] = pc[p], inv'[p] = inv[p], routers'[p] = routers[p],
               target'[p] = target[p], dialed'[p] = dialed[p]
        PROVE  ContactInv(p)'
    BY <1>0, <1>1 DEF ContactInv, Through, LoadedFrom, Single
  <1>2. CASE UNCHANGED vars
    BY <1>1, <1>2 DEF vars, mainVars
  <1>3. ASSUME NEW h \in NewKeys, Rekey(h) PROVE ContactInv(p)'
    BY <1>1, <1>3 DEF Rekey, mainVars
  <1>4. ASSUME NEW q \in Processes \ {p}, Main(q) PROVE ContactInv(p)'
    <2>1. CASE Load(q)
      BY <1>0, <1>1, <2>1 DEF Load, Goto
    <2>2. CASE Resolve(q)
      BY <1>0, <1>1, <2>2 DEF Resolve, Goto
    <2>3. CASE OpenVerifier(q)
      BY <1>0, <1>1, <2>3 DEF OpenVerifier, Goto
    <2>4. CASE Dial(q)
      <3>1. pc'[p] = pc[p] /\ routers'[p] = routers[p]
        <4>1. pc[q] = "dial" /\ (Connected(q) \/ Refused(q))
          BY <2>4, DialDoes DEF Dial
        <4> QED BY <4>1, AfterDial
      <3> QED BY <1>0, <1>1, <2>4, <3>1 DEF Dial
    <2> QED BY <1>4, <2>1, <2>2, <2>3, <2>4 DEF Main
  <1>5. CASE Load(p)
    <2> SUFFICES ASSUME Through(p)' PROVE ContactInv(p)'
      BY DEF ContactInv
    <2>1. call' = call /\ dialed' = dialed /\ target' = target /\ dialed[p] = <<>>
      BY <1>0, <1>5 DEF Load, Locals
    <2>2. call[p].hasFile /\ ~Single(p) /\ Stable(call[p].file) /\ pc'[p] # "panicked"
      BY <2>1 DEF Through, LoadedFrom, Single
    <2>3. PICK i \in Inventories(call[p].file) :
              /\ \E names \in IF Single(p) THEN {<<call[p].name>>} ELSE Names(i) :
                    routers' = [routers EXCEPT ![p] = names]
              /\ Goto(p, "resolve")
      BY <1>0, <1>5, <2>2 DEF Load, Goto
    <2>4. PICK names \in Names(i) : routers' = [routers EXCEPT ![p] = names]
      BY <2>2, <2>3
    <2>5. routers'[p] = names /\ pc'[p] = "resolve"
      BY <1>0, <2>3, <2>4 DEF Goto
    <2>6. Contacts(call[p].file, names, <<>>, "resolve")
      BY <1>0, <2>2, ContactsBegin
    <2> QED BY <2>1, <2>5, <2>6 DEF ContactInv
  <1>6. CASE Resolve(p)
    <2>1. /\ call' = call /\ inv' = inv /\ routers' = routers /\ dialed' = dialed
          /\ pc[p] = "resolve"
      BY <1>6 DEF Resolve
    <2>2. ASSUME Through(p)'
          PROVE  /\ pc'[p] = "over" => routers[p] = <<>>
                 /\ pc'[p] = "verifier" => Reached(target'[p], Head(routers[p]), call[p].file)
                 /\ pc'[p] # "dial"
      <3>1. CASE routers[p] = <<>>
        BY <1>0, <1>6, <3>1 DEF Resolve, Goto
      <3>2. CASE routers[p] # <<>>
        <4> DEFINE name == Head(routers[p])
                   f == call[p].file
        <4>1. Through(p)
          BY <2>1, <2>2 DEF Through, LoadedFrom, Single
        <4>2. inv[p] \in Inventories(f) /\ Stable(f) /\ call[p].hasFile
          BY <1>0, <4>1 DEF Through, Locals, LoadedFrom
        <4>3. routers[p] \in Seq(Keys(f))
          BY <1>0, <4>1 DEF ContactInv, Contacts
        <4>4. name \in Keys(f)
          BY <3>2, <4>3, TailType
        <4>5. normalizeRouterName(name) = name
          BY <4>2, <4>4 DEF Stable, Keys, Listed, Named
        <4>6. name \in Seq(Chars)
          BY <1>0, <4>4, KeysFinite
        <4>7. Found(name, inv[p])
          BY <1>0, <4>2, <4>4, <4>5, InventoryIs DEF Found
        <4>8. Reached(Resolved(name, inv[p], call[p].port, "cli"), name, f)
          BY <1>0, <4>2, <4>5, <4>6, <4>7, ResolvedIs
        <4>9. /\ target' = [target EXCEPT ![p] =
                    IF call[p].hasFile /\ Found(name, inv[p])
                    THEN Resolved(name, inv[p], call[p].port, "cli")
                    ELSE Direct(name, call[p].port, "cli")]
              /\ Goto(p, "verifier")
          BY <1>6, <3>2, Zenon DEF Resolve
        <4> HIDE DEF name, f
        <4>10. target'[p] = Resolved(name, inv[p], call[p].port, "cli") /\ pc'[p] = "verifier"
          BY <1>0, <4>2, <4>7, <4>9 DEF Goto
        <4> QED BY <4>8, <4>10 DEF name, f
      <3> QED BY <3>1, <3>2
    <2> QED BY <1>0, <2>1, <2>2, ContactStays
  <1>7. CASE OpenVerifier(p)
    <2>1. /\ call' = call /\ inv' = inv /\ routers' = routers /\ dialed' = dialed
          /\ target' = target /\ pc[p] = "verifier" /\ pc'[p] \in {"dial", "failed"}
      BY <1>0, <1>7 DEF OpenVerifier, Goto
    <2>2. Through(p)' => Reached(target'[p], Head(routers[p]), call[p].file)
      BY <1>0, <2>1 DEF ContactInv, Through, LoadedFrom, Single
    <2> QED BY <1>0, <2>1, <2>2, ContactStays
  <1>8. CASE Dial(p)
    <2> SUFFICES ASSUME Through(p)' PROVE ContactInv(p)'
      BY DEF ContactInv
    <2>1. /\ call' = call /\ pc[p] = "dial"
          /\ dialed' = [dialed EXCEPT ![p] = Append(@, target[p])]
          /\ Connected(p) \/ Refused(p)
      BY <1>8, DialDoes DEF Dial
    <2>2. /\ pc'[p] \in {"resolve", "failed"}
          /\ routers'[p] = Tail(routers[p]) \/ (pc'[p] = "failed" /\ routers'[p] = routers[p])
      BY <2>1, AfterDial
    <2>3. dialed'[p] = Append(dialed[p], target[p])
      BY <1>0, <2>1
    <2>4. Through(p)
      BY <2>1 DEF Through, LoadedFrom, Single
    <2>5. /\ Contacts(call[p].file, routers[p], dialed[p], "dial")
          /\ Reached(target[p], Head(routers[p]), call[p].file)
      BY <1>0, <2>1, <2>4 DEF ContactInv
    <2>6. routers[p] # <<>> /\ dialed[p] \in Seq(Target)
      BY <1>0, <2>1 DEF Locals
    <2>7. /\ Contacts(call[p].file, Tail(routers[p]), Append(dialed[p], target[p]), "resolve")
          /\ Contacts(call[p].file, routers[p], Append(dialed[p], target[p]), "failed")
      BY <1>0, <2>5, <2>6, ContactsGoOn
    <2>8. Contacts(call[p].file, Tail(routers[p]), Append(dialed[p], target[p]), "failed")
      BY <2>7 DEF Contacts
    <2>9. Contacts(call[p].file, routers'[p], dialed'[p], pc'[p])
      BY <2>2, <2>3, <2>7, <2>8
    <2> QED BY <2>1, <2>2, <2>9 DEF ContactInv
  <1> QED BY <1>2, <1>3, <1>4, <1>5, <1>6, <1>7, <1>8 DEF Next, Main, Ended

\* A process that goes through the inventory to its end contacts each entry it lists
\* once and nothing else, for any inventory, whatever order the map has, which routers
\* refuse, and what other processes do (routercommander.go:219-221, 291-313).
THEOREM InventoryIsContacted == Spec => []InventoryContacted
  <1> DEFINE Inv == TypeInv /\ \A p \in Processes : ContactInv(p)
  <1>1. Init => Inv
    <2> SUFFICES ASSUME Init PROVE Inv
      OBVIOUS
    <2>1. TypeInv
      BY TypeInvInitially
    <2>2. \A p \in Processes : ~Through(p)
      BY DEF Init, Through, LoadedFrom
    <2> QED BY <2>1, <2>2 DEF ContactInv
  <1>2. Inv /\ [Next]_vars => Inv'
    BY TypeInvInductive, ContactInvInductive
  <1>3. Inv => InventoryContacted
    <2> SUFFICES ASSUME Inv, NEW p \in Processes, pc[p] = "over", call[p].hasFile, ~Single(p),
                        Stable(call[p].file)
                 PROVE  /\ Len(dialed[p]) = Cardinality(Keys(call[p].file))
                        /\ \A n \in Keys(call[p].file) : \E i \in DOMAIN dialed[p] :
                              \E e \in Listed(call[p].file) :
                                 normalizeRouterName(e.name) = n /\ Place(dialed[p][i]) = PlaceOf(e)
                        /\ \A i \in DOMAIN dialed[p] : \E e \in Listed(call[p].file) :
                              Place(dialed[p][i]) = PlaceOf(e)
      BY DEF InventoryContacted
    <2> DEFINE f == call[p].file
               done == dialed[p]
    <2>1. Through(p)
      BY DEF Through, LoadedFrom
    <2>2. routers[p] = <<>> /\ Contacts(f, <<>>, done, "over")
      BY <2>1 DEF ContactInv
    <2>3. done \in Seq(Target) /\ Len(done) \in Nat /\ DOMAIN done = 1..Len(done)
      BY LenProperties DEF TypeInv, Locals
    <2>4. Len(<<>>) = 0 /\ \A i \in 1..Len(<<>>) : FALSE
      OBVIOUS
    <2>5. Len(done) = Cardinality(Keys(f))
      <3>1. Len(done) + Len(<<>>) = Cardinality(Keys(f))
        BY <2>2 DEF Contacts
      <3> QED BY <2>3, <2>4, <3>1
    <2>6. \A n \in Keys(f) : \E i \in DOMAIN done : Reached(done[i], n, f)
      BY <2>2, <2>3, <2>4 DEF Contacts
    <2>7. \A i \in DOMAIN done : \E n \in Keys(f) : Reached(done[i], n, f)
      BY <2>2, <2>3 DEF Contacts
    <2> QED BY <2>5, <2>6, <2>7 DEF Reached
  <1> HIDE DEF Inv
  <1> QED BY <1>1, <1>2, <1>3, PTL DEF Spec
=============================================================================
