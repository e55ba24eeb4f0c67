------------------------- MODULE ShellSessionProofs -------------------------
(***************************************************************************)
(* Proofs about ShellSession, for any number of commands and anything a    *)
(* router may print: a session never has two readers, and its results are  *)
(* what the router printed, wherever the reads cut the stream.             *)
(***************************************************************************)
EXTENDS ShellSession, SequenceTheorems, FiniteSetTheorems, TLAPS

-----------------------------------------------------------------------------
(* The stream of a session: what is left of Trim, Complete and Extract when *)
(* a reader cuts the output of its command, with pieces of earlier outputs  *)
(* before it, wherever its reads happen to end.                             *)

Kinds == {"text", "mention", "hash", "soft", "ansi", "mark"}

LEMMA Least ==
    ASSUME NEW S, S \subseteq Nat, S # {}
    PROVE  First(S) \in S /\ \A y \in S : First(S) <= y
  <1> DEFINE R == OpToRel(<, Nat)
  <1>1. \A x, y \in Nat : <<x, y>> \in R <=> x < y
    BY DEF OpToRel
  <1>2. IsWellFoundedOn(R, Nat)
    BY NatLessThanWellFounded
  <1> HIDE DEF R
  <1>3. PICK x \in S : \A y \in S : <<y, x>> \notin R
    BY <1>2, WFMin
  <1>4. ASSUME NEW y \in S PROVE x <= y
    <2>1. x \in Nat /\ y \in Nat
      BY Zenon
    <2>2. ~(y < x)
      BY <1>1, <1>3, <2>1, Zenon
    <2> QED BY <2>1, <2>2, SMT
  <1> QED BY <1>4, Zenon DEF First

\* What a concatenation and a part of a sequence hold, place by place.
LEMMA Joined ==
    ASSUME NEW S, NEW s \in Seq(S), NEW t \in Seq(S)
    PROVE  /\ s \o t \in Seq(S) /\ Len(s \o t) = Len(s) + Len(t)
           /\ \A n \in 1..Len(s) : (s \o t)[n] = s[n]
           /\ \A n \in 1..Len(t) : (s \o t)[Len(s) + n] = t[n]
  <1>1. Len(s) \in Nat /\ Len(t) \in Nat
    BY LenProperties
  <1>2. /\ s \o t \in Seq(S) /\ Len(s \o t) = Len(s) + Len(t)
        /\ \A n \in 1..(Len(s) + Len(t)) :
             (s \o t)[n] = IF n <= Len(s) THEN s[n] ELSE t[n - Len(s)]
    BY ConcatProperties
  <1>3. ASSUME NEW n \in 1..Len(s) PROVE (s \o t)[n] = s[n]
    <2>1. n \in 1..(Len(s) + Len(t)) /\ n <= Len(s)
      BY <1>1
    <2> QED BY <1>2, <2>1
  <1>4. ASSUME NEW n \in 1..Len(t) PROVE (s \o t)[Len(s) + n] = t[n]
    <2>1. Len(s) + n \in 1..(Len(s) + Len(t)) /\ ~(Len(s) + n <= Len(s)) /\ Len(s) + n - Len(s) = n
      BY <1>1
    <2>2. (s \o t)[Len(s) + n] = IF Len(s) + n <= Len(s) THEN s[Len(s) + n] ELSE t[Len(s) + n - Len(s)]
      BY <1>2, <2>1
    <2> QED BY <2>1, <2>2
  <1> QED BY <1>2, <1>3, <1>4

LEMMA Part ==
    ASSUME NEW S, NEW s \in Seq(S), NEW m \in 1..(Len(s) + 1), NEW k \in (m - 1)..Len(s)
    PROVE  /\ SubSeq(s, m, k) \in Seq(S) /\ Len(SubSeq(s, m, k)) = k - m + 1
           /\ \A n \in 1..(k - m + 1) : SubSeq(s, m, k)[n] = s[m - 1 + n]
  <1>1. Len(s) \in Nat
    BY LenProperties
  <1>2. m \in Int /\ k \in Int /\ \A n \in m..k : s[n] \in S
    <2>1. \A n \in m..k : n \in 1..Len(s)
      BY <1>1
    <2> QED BY <1>1, <2>1, ElementOfSeq
  <1>3. /\ SubSeq(s, m, k) \in Seq(S)
        /\ Len(SubSeq(s, m, k)) = IF m <= k THEN k - m + 1 ELSE 0
        /\ \A n \in 1..(k - m + 1) : SubSeq(s, m, k)[n] = s[m + n - 1]
    BY <1>2, SubSeqProperties
  <1>4. k - m + 1 = (IF m <= k THEN k - m + 1 ELSE 0) /\ \A n \in Nat : m + n - 1 = m - 1 + n
    BY <1>1
  <1> QED BY <1>3, <1>4

LEMMA Front ==
    ASSUME NEW S, NEW s \in Seq(S), NEW k \in 0..Len(s)
    PROVE  /\ SubSeq(s, 1, k) \in Seq(S) /\ Len(SubSeq(s, 1, k)) = k
           /\ \A n \in 1..k : SubSeq(s, 1, k)[n] = s[n]
  <1>1. Len(s) \in Nat
    BY LenProperties
  <1>2. 1 \in 1..(Len(s) + 1) /\ k \in (1 - 1)..Len(s) /\ k - 1 + 1 = k /\ \A n \in 1..k : 1 - 1 + n = n
    BY <1>1
  <1> DEFINE m == 1
  <1>3. m \in 1..(Len(s) + 1) /\ k \in (m - 1)..Len(s)
    BY <1>2
  <1> HIDE DEF m
  <1>4. /\ SubSeq(s, m, k) \in Seq(S) /\ Len(SubSeq(s, m, k)) = k - m + 1
        /\ \A n \in 1..(k - m + 1) : SubSeq(s, m, k)[n] = s[m - 1 + n]
    BY <1>3, Part
  <1> QED BY <1>2, <1>4 DEF m

LEMMA Back ==
    ASSUME NEW S, NEW s \in Seq(S), NEW k \in 0..Len(s)
    PROVE  /\ SubSeq(s, k + 1, Len(s)) \in Seq(S) /\ Len(SubSeq(s, k + 1, Len(s))) = Len(s) - k
           /\ \A n \in 1..(Len(s) - k) : SubSeq(s, k + 1, Len(s))[n] = s[k + n]
  <1>1. Len(s) \in Nat
    BY LenProperties
  <1> DEFINE m == k + 1
             e == Len(s)
  <1>2. m \in 1..(Len(s) + 1) /\ e \in (m - 1)..Len(s)
    BY <1>1
  <1>3. e - m + 1 = Len(s) - k /\ m - 1 = k
    BY <1>1
  <1> HIDE DEF m, e
  <1>4. /\ SubSeq(s, m, e) \in Seq(S) /\ Len(SubSeq(s, m, e)) = e - m + 1
        /\ \A n \in 1..(e - m + 1) : SubSeq(s, m, e)[n] = s[m - 1 + n]
    BY <1>2, Part
  <1> QED BY <1>3, <1>4 DEF m, e

\* The output of a command: its echo, if it is one, its body and the prompt.
Lead(i) == IF i = 0 THEN 0 ELSE 1

LEMMA OutputIs ==
    ASSUME NEW i \in Index, NEW b \in Bodies
    PROVE  /\ b \in Seq(Kinds) /\ Len(b) \in Nat
           /\ Output(i, b) \in Seq(Piece) /\ Len(Output(i, b)) = Lead(i) + Len(b) + 1
           /\ \A n \in 1..Len(Output(i, b)) : Output(i, b)[n].of = i
           /\ i # 0 => Output(i, b)[1].kind = "echo"
           /\ \A n \in 1..Len(b) : Output(i, b)[Lead(i) + n] = [kind |-> b[n], of |-> i]
           /\ Output(i, b)[Lead(i) + Len(b) + 1].kind = "prompt"
           /\ Body(i, b) \in Seq(Piece) /\ Len(Body(i, b)) = Len(b)
           /\ \A n \in 1..Len(b) : Body(i, b)[n] = [kind |-> b[n], of |-> i]
  <1> DEFINE E == IF i = 0 THEN <<>> ELSE <<[kind |-> "echo", of |-> i]>>
             P == <<[kind |-> "prompt", of |-> i]>>
             B == Body(i, b)
             O == Output(i, b)
  <1>1. b \in Seq(Kinds) /\ Len(b) \in Nat /\ DOMAIN b = 1..Len(b)
    BY SessionAssumption, LenProperties DEF SessionAssumption, Kinds
  <1>2. /\ B \in Seq(Piece) /\ Len(B) = Len(b)
        /\ \A n \in 1..Len(b) : B[n] = [kind |-> b[n], of |-> i]
    <2>1. \A n \in 1..Len(b) : [kind |-> b[n], of |-> i] \in Piece
      <3>1. \A n \in 1..Len(b) : b[n] \in Kinds
        BY <1>1, ElementOfSeq
      <3> QED BY <3>1 DEF Kinds, Piece
    <2>2. B = [n \in 1..Len(b) |-> [kind |-> b[n], of |-> i]]
      BY <1>1, Zenon DEF Body
    <2>3. B \in [1..Len(b) -> Piece]
      BY <2>1, <2>2
    <2>4. B \in Seq(Piece) /\ DOMAIN B = 1..Len(b)
      BY <1>1, <2>3
    <2>5. Len(B) = Len(b)
      BY <1>1, <2>4, LenProperties
    <2> QED BY <2>2, <2>4, <2>5
  <1>3. /\ E \in Seq(Piece) /\ Len(E) = Lead(i) /\ Lead(i) \in {0, 1}
        /\ i # 0 => Lead(i) = 1 /\ E[1] = [kind |-> "echo", of |-> i]
    <2>1. [kind |-> "echo", of |-> i] \in Piece
      BY DEF Piece
    <2>2. CASE i = 0
      BY <2>2, EmptySeq DEF Lead
    <2>3. CASE i # 0
      BY <2>1, <2>3 DEF Lead
    <2> QED BY <2>2, <2>3
  <1>4. P \in Seq(Piece) /\ Len(P) = 1 /\ P[1] = [kind |-> "prompt", of |-> i]
    <2>1. [kind |-> "prompt", of |-> i] \in Piece
      BY DEF Piece
    <2> QED BY <2>1
  <1> HIDE DEF E, P, B
  <1> DEFINE C == E \o B
             l == Lead(i)
             m == Len(b)
  <1>5. /\ C \in Seq(Piece) /\ Len(C) = l + m
        /\ \A n \in 1..l : C[n] = E[n]
        /\ \A n \in 1..m : C[l + n] = B[n]
    <2>1. Len(E) = l /\ Len(B) = m
      BY <1>2, <1>3
    <2>2. /\ C \in Seq(Piece) /\ Len(C) = Len(E) + Len(B)
          /\ \A n \in 1..Len(E) : C[n] = E[n]
          /\ \A n \in 1..Len(B) : C[Len(E) + n] = B[n]
      BY <1>2, <1>3, Joined
    <2> HIDE DEF C, l, m
    <2> QED BY <2>1, <2>2
  <1>6. O = C \o P
    BY Zenon DEF Output, E, B, P
  <1> HIDE DEF C, O
  <1>61. /\ O \in Seq(Piece) /\ Len(O) = l + m + 1
         /\ \A n \in 1..(l + m) : O[n] = C[n]
         /\ O[l + m + 1] = P[1]
    <2>1. C \in Seq(Piece) /\ P \in Seq(Piece)
      BY <1>4, <1>5
    <2>2. /\ O \in Seq(Piece) /\ Len(O) = Len(C) + Len(P)
          /\ \A n \in 1..Len(C) : O[n] = C[n]
          /\ \A n \in 1..Len(P) : O[Len(C) + n] = P[n]
      <3>1. /\ C \o P \in Seq(Piece) /\ Len(C \o P) = Len(C) + Len(P)
            /\ \A n \in 1..Len(C) : (C \o P)[n] = C[n]
            /\ \A n \in 1..Len(P) : (C \o P)[Len(C) + n] = P[n]
        BY <2>1, Joined
      <3> QED BY <3>1, <1>6, Zenon
    <2>3. 1 \in 1..Len(P)
      BY <1>4
    <2>4. Len(C) = l + m /\ Len(P) = 1
      BY <1>4, <1>5
    <2> HIDE DEF l, m
    <2> QED BY <2>2, <2>3, <2>4
  <1>62. m \in Nat /\ l \in {0, 1}
    BY <1>1, <1>3
  <1> HIDE DEF l, m
  <1>7. ASSUME NEW n \in 1..m PROVE O[l + n] = [kind |-> b[n], of |-> i]
    <2>1. l + n \in 1..(l + m)
      BY <1>62
    <2>2. C[l + n] = B[n]
      BY <1>5, Zenon
    <2>3. O[l + n] = C[l + n]
      BY <1>61, <2>1, Zenon
    <2> QED BY <1>2, <2>2, <2>3, Zenon DEF m
  <1>8. i # 0 => O[1] = [kind |-> "echo", of |-> i]
    <2> SUFFICES ASSUME i # 0 PROVE O[1] = [kind |-> "echo", of |-> i]
      OBVIOUS
    <2>1. l = 1 /\ E[1] = [kind |-> "echo", of |-> i]
      BY <1>3 DEF l
    <2>2. 1 \in 1..(l + m) /\ 1 \in 1..l
      BY <1>62, <2>1
    <2>3. C[1] = E[1] /\ O[1] = C[1]
      BY <1>5, <1>61, <2>2, Zenon
    <2> QED BY <2>1, <2>3
  <1>9. O[l + m + 1] = [kind |-> "prompt", of |-> i]
    BY <1>4, <1>61
  <1>10. ASSUME NEW n \in 1..Len(O) PROVE O[n].of = i
    <2>1. CASE n <= l
      <3>1. n = 1 /\ i # 0
        BY <1>62, <2>1 DEF l, Lead
      <3> QED BY <1>8, <3>1
    <2>2. CASE n = l + m + 1
      BY <1>9, <2>2
    <2>3. CASE n > l /\ n # l + m + 1
      <3>1. n - l \in 1..m /\ l + (n - l) = n
        BY <1>61, <1>62, <2>3
      <3>2. O[n] = [kind |-> b[n - l], of |-> i]
        BY <1>7, <3>1
      <3> QED BY <3>2
    <2> QED BY <1>61, <1>62, <2>1, <2>2, <2>3
  <1>11. i # 0 => O[1].kind = "echo"
    BY <1>8
  <1>12. O[l + m + 1].kind = "prompt"
    BY <1>9
  <1> QED BY <1>1, <1>2, <1>61, <1>7, <1>10, <1>11, <1>12 DEF O, B, l, m

-----------------------------------------------------------------------------
(* What the reader of a command has in its buffer and before it on the     *)
(* wire: d pieces left over from earlier outputs, then the output itself.  *)

Leftover(x, i) == x.of < i /\ x.kind \notin {"echo", "mention"}

Placed(x, n, d, o, i) == IF n <= d THEN Leftover(x, i) ELSE n - d <= Len(o) /\ x = o[n - d]

Follows(u, w, d, o, i) ==
    /\ \A n \in 1..Len(u) : Placed(u[n], n, d, o, i)
    /\ \A n \in 1..Len(w) : Placed(w[n], Len(u) + n, d, o, i)

IsOutput(o, i) ==
    /\ o \in Seq(Piece)
    /\ \A n \in 1..Len(o) : o[n].of = i
    /\ i # 0 /\ Len(o) > 0 => o[1].kind = "echo"

\* A read moves the first pieces of the wire to the end of the buffer.
LEMMA Moved ==
    ASSUME NEW u \in Seq(Piece), NEW w \in Seq(Piece), NEW k \in 1..Len(w),
           NEW d \in Nat, NEW o, NEW i, Follows(u, w, d, o, i)
    PROVE  Follows(u \o SubSeq(w, 1, k), SubSeq(w, k + 1, Len(w)), d, o, i)
  <1> DEFINE p == SubSeq(w, 1, k)
             r == SubSeq(w, k + 1, Len(w))
             B == u \o p
  <1>0. Len(u) \in Nat /\ Len(w) \in Nat
    BY LenProperties
  <1>1. /\ p \in Seq(Piece) /\ Len(p) = k
        /\ \A n \in 1..k : p[n] = w[n]
    <2>1. k \in 0..Len(w)
      BY <1>0
    <2> QED BY <2>1, Front
  <1>2. /\ r \in Seq(Piece) /\ Len(r) = Len(w) - k
        /\ \A n \in 1..(Len(w) - k) : r[n] = w[k + n]
    <2>1. k \in 0..Len(w)
      BY <1>0
    <2> QED BY <2>1, Back
  <1>3. /\ Len(B) = Len(u) + k
        /\ \A n \in 1..Len(u) : B[n] = u[n]
        /\ \A n \in 1..k : B[Len(u) + n] = p[n]
    <2>1. p \in Seq(Piece) /\ Len(p) = k
      BY <1>1
    <2>2. /\ Len(u \o p) = Len(u) + Len(p)
          /\ \A n \in 1..Len(u) : (u \o p)[n] = u[n]
          /\ \A n \in 1..Len(p) : (u \o p)[Len(u) + n] = p[n]
      BY <2>1, Joined
    <2> QED BY <2>1, <2>2
  <1> HIDE DEF p, r, B
  <1>4. ASSUME NEW n \in 1..Len(B) PROVE Placed(B[n], n, d, o, i)
    <2>1. CASE n <= Len(u)
      <3>1. n \in 1..Len(u)
        BY <1>0, <1>3, <2>1
      <3>2. B[n] = u[n] /\ Placed(u[n], n, d, o, i)
        BY <1>3, <3>1 DEF Follows
      <3> QED BY <3>2
    <2>2. CASE n > Len(u)
      <3>1. n - Len(u) \in 1..k /\ n - Len(u) \in 1..Len(w) /\ Len(u) + (n - Len(u)) = n
        BY <1>0, <1>3, <2>2
      <3>2. B[n] = w[n - Len(u)]
        BY <1>1, <1>3, <3>1
      <3>3. Placed(w[n - Len(u)], n, d, o, i)
        BY <3>1 DEF Follows
      <3> QED BY <3>2, <3>3
    <2> QED BY <1>0, <1>3, <2>1, <2>2
  <1>5. ASSUME NEW n \in 1..Len(r) PROVE Placed(r[n], Len(B) + n, d, o, i)
    <2>1. n \in 1..(Len(w) - k) /\ k + n \in 1..Len(w) /\ Len(u) + (k + n) = Len(B) + n
      BY <1>0, <1>2, <1>3
    <2>2. r[n] = w[k + n] /\ Placed(w[k + n], Len(u) + (k + n), d, o, i)
      BY <1>2, <2>1 DEF Follows
    <2> QED BY <2>1, <2>2
  <1> QED BY <1>4, <1>5 DEF Follows, p, r, B

\* A lost connection keeps a first part of the wire.
LEMMA Kept ==
    ASSUME NEW u \in Seq(Piece), NEW w \in Seq(Piece), NEW k \in 0..Len(w),
           NEW d \in Nat, NEW o, NEW i, Follows(u, w, d, o, i)
    PROVE  SubSeq(w, 1, k) \in Seq(Piece) /\ Follows(u, SubSeq(w, 1, k), d, o, i)
  <1> DEFINE p == SubSeq(w, 1, k)
  <1>0. Len(w) \in Nat
    BY LenProperties
  <1>1. /\ p \in Seq(Piece) /\ Len(p) = k
        /\ \A n \in 1..k : p[n] = w[n]
    <2>1. k \in 0..Len(w)
      BY <1>0
    <2> QED BY <2>1, Front
  <1> HIDE DEF p
  <1>2. ASSUME NEW n \in 1..Len(p) PROVE Placed(p[n], Len(u) + n, d, o, i)
    <2>1. n \in 1..k /\ n \in 1..Len(w)
      BY <1>0, <1>1
    <2> QED BY <1>1, <2>1 DEF Follows
  <1> QED BY <1>1, <1>2 DEF Follows, p

LEMMA InPlace ==
    ASSUME NEW u \in Seq(Piece), NEW w, NEW d, NEW o, NEW i, Follows(u, w, d, o, i), NEW n \in 1..Len(u)
    PROVE  /\ u[n] \in Piece /\ n <= d => Leftover(u[n], i)
           /\ ~(n <= d) => n - d <= Len(o) /\ u[n] = o[n - d]
  <1> QED BY ElementOfSeq DEF Follows, Placed

\* Where the start word is first seen, the output of the command begins.
LEMMA StartIsEcho ==
    ASSUME NEW u \in Seq(Piece), NEW w \in Seq(Piece), NEW i \in Index, i # 0,
           NEW o, IsOutput(o, i), NEW d \in Nat, Follows(u, w, d, o, i),
           StartsAt(i, u) # {}
    PROVE  /\ d + 1 \in 1..Len(u) /\ First(StartsAt(i, u)) = d + 1 /\ Len(o) > 0
  <1> DEFINE S == StartsAt(i, u)
             f == First(S)
  <1>0. Len(u) \in Nat /\ DOMAIN u = 1..Len(u) /\ Len(o) \in Nat
    BY LenProperties DEF IsOutput
  <1>1. S \subseteq 1..Len(u) /\ S \subseteq Nat
    BY <1>0 DEF StartsAt
  <1>2. f \in S /\ \A y \in S : f <= y
    <2>1. S # {}
      OBVIOUS
    <2> HIDE DEF S
    <2> QED BY <1>1, <2>1, Least
  <1>3. f \in 1..Len(u) /\ u[f].kind \in {"echo", "mention"}
    BY <1>1, <1>2 DEF StartsAt
  <1> HIDE DEF f
  <1>4. ~(f <= d)
    BY <1>3, InPlace DEF Leftover
  <1>5. f - d <= Len(o)
    BY <1>3, <1>4, InPlace
  <1>6. d + 1 \in 1..Len(u) /\ Len(o) > 0 /\ ~(d + 1 <= d) /\ d + 1 - d = 1 /\ 1 \in 1..Len(o)
    BY <1>0, <1>3, <1>4, <1>5
  <1>7. u[d + 1] = o[1]
    <2>1. u[d + 1] = o[d + 1 - d]
      BY <1>6, InPlace
    <2> QED BY <1>6, <2>1
  <1>8. o[1].kind = "echo" /\ o[1].of = i
    BY <1>6 DEF IsOutput
  <1>9. d + 1 \in S
    BY <1>0, <1>6, <1>7, <1>8 DEF StartsAt
  <1>10. f <= d + 1
    BY <1>2, <1>9
  <1>11. f = d + 1
    BY <1>3, <1>4, <1>10
  <1> QED BY <1>6, <1>11 DEF f

\* Dropping what comes before the start word leaves the output from its first
\* piece on; and no buffer is complete before that was done.
LEMMA Trimmed ==
    ASSUME NEW u \in Seq(Piece), NEW w \in Seq(Piece), NEW i \in Index,
           NEW o, IsOutput(o, i), NEW d \in Nat, Follows(u, w, d, o, i)
    PROVE  /\ \E e \in Nat : Follows(Trim(i, u), w, e, o, i)
           /\ Complete(i, Trim(i, u)) => Follows(Trim(i, u), w, 0, o, i)
  <1>0. Len(u) \in Nat /\ DOMAIN u = 1..Len(u)
    BY LenProperties
  <1>1. CASE i = 0
    <2>1. Trim(i, u) = u
      BY <1>1 DEF Trim
    <2>2. ASSUME Complete(i, u) PROVE d = 0
      <3>1. 1 \in 1..Len(u)
        BY <1>0, <2>2 DEF Complete, PromptsAt, IsEscape
      <3>2. u[1].of \in Nat
        <4>1. u[1] \in Piece
          BY <3>1, ElementOfSeq
        <4> QED BY <4>1, SessionAssumption DEF SessionAssumption, Piece, Index
      <3>3. ~(1 <= d)
        BY <1>1, <3>1, <3>2, InPlace DEF Leftover
      <3> QED BY <3>3
    <2> QED BY <2>1, <2>2
  <1>2. CASE i # 0 /\ StartsAt(i, u) = {}
    <2>1. Trim(i, u) = u /\ ~Complete(i, u)
      BY <1>2 DEF Trim, Complete
    <2> QED BY <2>1
  <1>3. CASE i # 0 /\ StartsAt(i, u) # {}
    <2> DEFINE T == SubSeq(u, d + 1, Len(u))
    <2>1. d + 1 \in 1..Len(u) /\ First(StartsAt(i, u)) = d + 1
      BY <1>3, StartIsEcho
    <2>2. Trim(i, u) = T
      BY <1>3, <2>1 DEF Trim
    <2>3. /\ Len(T) = Len(u) - d
          /\ \A n \in 1..(Len(u) - d) : T[n] = u[d + n]
      <3>1. d \in 0..Len(u)
        BY <1>0, <2>1
      <3> QED BY <3>1, Back
    <2> HIDE DEF T
    <2>4. ASSUME NEW n \in 1..Len(T) PROVE Placed(T[n], n, 0, o, i)
      <3>1. d + n \in 1..Len(u) /\ n \in 1..(Len(u) - d) /\ ~(d + n <= d) /\ d + n - d = n
            /\ n - 0 = n /\ ~(n <= 0)
        BY <1>0, <2>1, <2>3
      <3>2. d + n - d <= Len(o) /\ u[d + n] = o[d + n - d]
        BY <3>1, InPlace
      <3>3. T[n] = o[n] /\ n <= Len(o)
        BY <2>3, <3>1, <3>2
      <3> QED BY <3>1, <3>3 DEF Placed
    <2>5. ASSUME NEW n \in 1..Len(w) PROVE Placed(w[n], Len(T) + n, 0, o, i)
      <3>1. /\ ~(Len(u) + n <= d) /\ Len(u) + n - d = Len(T) + n
            /\ Len(T) + n - 0 = Len(T) + n /\ ~(Len(T) + n <= 0)
        <4>1. Len(w) \in Nat
          BY LenProperties
        <4> QED BY <1>0, <2>1, <2>3, <4>1
      <3>2. Placed(w[n], Len(u) + n, d, o, i)
        BY DEF Follows
      <3>3. Len(T) + n <= Len(o) /\ w[n] = o[Len(T) + n]
        BY <3>1, <3>2 DEF Placed
      <3> QED BY <3>1, <3>3 DEF Placed
    <2>6. Follows(T, w, 0, o, i)
      BY <2>4, <2>5 DEF Follows
    <2> QED BY <2>2, <2>6
  <1> QED BY <1>1, <1>2, <1>3

\* What follows a complete buffer on the wire is left over for the next command:
\* the echo is behind it, and nothing after an end looks like another.
LEMMA TailIsLeftover ==
    ASSUME NEW u \in Seq(Piece), NEW w \in Seq(Piece), NEW i \in Index, NEW b \in Bodies,
           Follows(u, w, 0, Output(i, b), i), Complete(i, u), ~Misleading(b)
    PROVE  \A n \in 1..Len(w) : Leftover(w[n], i + 1)
  <1> DEFINE o == Output(i, b)
             l == Lead(i)
             m == Len(b)
  <1>0. /\ Len(u) \in Nat /\ DOMAIN u = 1..Len(u) /\ l \in {0, 1} /\ i \in Nat
        /\ i = 0 <=> l = 0
    BY LenProperties, SessionAssumption DEF Lead, Index, SessionAssumption
  <1>1. /\ m \in Nat /\ DOMAIN b = 1..m /\ Len(o) = l + m + 1
        /\ \A n \in 1..Len(o) : o[n].of = i
        /\ \A n \in 1..m : o[l + n] = [kind |-> b[n], of |-> i] /\ b[n] \in Kinds
        /\ o[l + m + 1].kind = "prompt"
        /\ i # 0 => o[1].kind = "echo"
    <2>1. b \in Seq(Kinds)
      BY OutputIs
    <2> QED BY <2>1, OutputIs, LenProperties, ElementOfSeq
  <1> HIDE DEF o, l, m
  <1>2. PICK e \in 1..Len(u) : u[e].kind \in {"prompt", "hash", "soft"}
    BY <1>0 DEF Complete, PromptsAt, IsEscape
  <1>3. e <= Len(o) /\ u[e] = o[e]
    <2>1. ~(e <= 0) /\ e - 0 = e
      BY <1>0
    <2> QED BY <2>1, InPlace DEF o
  <1> SUFFICES ASSUME NEW n \in 1..Len(w) PROVE Leftover(w[n], i + 1)
    OBVIOUS
  <1> DEFINE p == Len(u) + n
  <1>4. p \in Nat /\ e < p /\ p <= Len(o) /\ w[n] = o[p]
    <2>0. Len(w) \in Nat
      BY LenProperties
    <2>1. ~(p <= 0) /\ p - 0 = p /\ p \in Nat /\ e < p
      BY <1>0, <2>0
    <2>2. Placed(w[n], p, 0, Output(i, b), i)
      BY DEF Follows
    <2> HIDE DEF p
    <2> QED BY <2>1, <2>2 DEF Placed, o
  <1> HIDE DEF p
  <1>5. l < e /\ e - l \in 1..m /\ l + (e - l) = e
    <2>1. e < l + m + 1
      BY <1>1, <1>4
    <2>2. e # 1 \/ l = 0
      BY <1>0, <1>1, <1>2, <1>3
    <2> QED BY <1>0, <1>1, <2>1, <2>2
  <1>6. b[e - l] \in {"hash", "soft"}
    <2>1. o[e] = [kind |-> b[e - l], of |-> i] /\ b[e - l] \in Kinds
      BY <1>1, <1>5
    <2> QED BY <1>2, <1>3, <2>1 DEF Kinds
  <1>7. w[n].of = i /\ i < i + 1
    BY <1>0, <1>1, <1>4
  <1>8. w[n].kind \notin {"echo", "mention"}
    <2>1. CASE p = l + m + 1
      BY <1>1, <1>4, <2>1
    <2>2. CASE p # l + m + 1
      <3>1. p - l \in 1..m /\ l + (p - l) = p /\ e - l < p - l
        BY <1>0, <1>1, <1>4, <1>5, <2>2
      <3>2. o[p] = [kind |-> b[p - l], of |-> i] /\ b[p - l] \in Kinds
        BY <1>1, <3>1
      <3>3. b[p - l] # "mention"
        BY <1>1, <1>5, <1>6, <3>1 DEF Misleading
      <3> QED BY <1>4, <3>2, <3>3 DEF Kinds
    <2> QED BY <2>1, <2>2
  <1> QED BY <1>7, <1>8 DEF Leftover

\* The prompt is looked for where one is, and found no later than that.
LEMMA PromptFound ==
    ASSUME NEW u \in Seq(Piece), PromptsAt(u) # {}
    PROVE  /\ First(PreferredAt(u)) \in PreferredAt(u)
           /\ PreferredAt(u) # {} /\ PreferredAt(u) \subseteq PromptsAt(u)
           /\ PromptsAt(u) \subseteq 1..Len(u)
           /\ FindPromptIndex(u) \in 1..First(PreferredAt(u))
  <1> DEFINE S == PreferredAt(u)
             f == First(S)
             T == {n \in 1..(f - 1) : ~IsEscape(u[n])}
  <1>1. Len(u) \in Nat /\ DOMAIN u = 1..Len(u)
    BY LenProperties
  <1>2. S # {} /\ S \subseteq PromptsAt(u)
    BY DEF PreferredAt, PromptsAt, IsEscape
  <1>3. PromptsAt(u) \subseteq 1..Len(u) /\ S \subseteq Nat
    BY <1>1, <1>2 DEF PromptsAt, IsEscape
  <1> HIDE DEF S
  <1>4. f \in S
    BY <1>2, <1>3, Least
  <1>5. f \in 1..Len(u)
    BY <1>2, <1>3, <1>4
  <1> HIDE DEF f
  <1>6. IsFiniteSet(1..(f - 1)) /\ Cardinality(1..(f - 1)) = f - 1
    <2>1. 1 \in Int /\ f - 1 \in Int /\ (1 > f - 1 => f - 1 = 0) /\ f - 1 - 1 + 1 = f - 1
      BY <1>5
    <2> DEFINE g == f - 1
    <2> HIDE DEF g
    <2>2. IsFiniteSet(1..g) /\ Cardinality(1..g) = IF 1 > g THEN 0 ELSE g - 1 + 1
      BY <2>1, FS_Interval DEF g
    <2> QED BY <2>1, <2>2 DEF g
  <1>7. T \in SUBSET (1..(f - 1))
    OBVIOUS
  <1> HIDE DEF T
  <1>8. Cardinality(T) \in Nat /\ Cardinality(T) <= f - 1
    BY <1>6, <1>7, FS_Subset, FS_CardinalityType
  <1>9. 1 + Cardinality(T) \in 1..f
    BY <1>5, <1>8
  <1>10. FindPromptIndex(u) = 1 + Cardinality(T)
    BY DEF FindPromptIndex, T, f, S
  <1> QED BY <1>2, <1>3, <1>4, <1>9, <1>10 DEF f, S

\* A result is a part of the buffer.
LEMMA ExtractIs ==
    ASSUME NEW u \in Seq(Piece), NEW i \in Index, i # 0, Complete(i, u)
    PROVE  /\ Extract(i, u) \in Seq(Piece)
           /\ \A n \in DOMAIN Extract(i, u) : \E m \in 1..Len(u) : Extract(i, u)[n] = u[m]
  <1> DEFINE f == StartLineEnd(i, u)
             q == FindPromptIndex(u)
             X == SubSeq(u, f + 1, q - 1)
  <1>1. Len(u) \in Nat /\ DOMAIN u = 1..Len(u)
    BY LenProperties
  <1>2. f \in 1..Len(u)
    <2> DEFINE S == StartsAt(i, u)
    <2>1. S # {} /\ S \subseteq 1..Len(u) /\ S \subseteq Nat
      BY <1>1 DEF Complete, StartsAt
    <2> HIDE DEF S
    <2>2. First(S) \in S
      BY <2>1, Least
    <2> DEFINE s == First(S)
    <2>6. s \in 1..Len(u)
      BY <2>1, <2>2
    <2> HIDE DEF s
    <2> DEFINE E == {n \in s..Len(u) : n = Len(u) \/ u[n + 1].kind # "mark"}
    <2>3. E \subseteq 1..Len(u) /\ E \subseteq Nat /\ Len(u) \in E
      BY <1>1, <2>6
    <2>4. f = First(E)
      BY DEF StartLineEnd, S, s
    <2> HIDE DEF E, f
    <2>5. First(E) \in E
      BY <2>3, Least
    <2> QED BY <2>3, <2>4, <2>5
  <1>3. q \in 1..Len(u)
    <2>1. PromptsAt(u) # {}
      BY DEF Complete
    <2>2. First(PreferredAt(u)) \in 1..Len(u) /\ q \in 1..First(PreferredAt(u))
      BY <2>1, PromptFound
    <2> QED BY <1>1, <2>2
  <1>4. Extract(i, u) = X
    BY DEF Extract
  <1> HIDE DEF f, q
  <1>5. f + 1 \in Int /\ q - 1 \in Int
    BY <1>2, <1>3
  <1>6. CASE q - 1 < f + 1
    <2>1. X = <<>>
      BY <1>5, <1>6, SubSeqEmpty
    <2>2. Extract(i, u) = <<>>
      BY <1>4, <2>1
    <2>3. <<>> \in Seq(Piece) /\ DOMAIN <<>> = {}
      OBVIOUS
    <2> QED BY <2>2, <2>3, Zenon
  <1>7. CASE ~(q - 1 < f + 1)
    <2> DEFINE a == f + 1
               z == q - 1
    <2>1. a \in 1..(Len(u) + 1) /\ z \in (a - 1)..Len(u)
      BY <1>1, <1>2, <1>3, <1>7
    <2> HIDE DEF a, z
    <2>2. /\ SubSeq(u, a, z) \in Seq(Piece) /\ Len(SubSeq(u, a, z)) = z - a + 1
          /\ \A n \in 1..(z - a + 1) : SubSeq(u, a, z)[n] = u[a - 1 + n]
      BY <2>1, Part
    <2>3. DOMAIN SubSeq(u, a, z) = 1..(z - a + 1)
      BY <2>2, LenProperties
    <2>4. \A n \in 1..(z - a + 1) : a - 1 + n \in 1..Len(u)
      BY <1>1, <1>2, <1>3 DEF a, z
    <2> QED BY <1>4, <2>2, <2>3, <2>4 DEF a, z
  <1> QED BY <1>6, <1>7

\* A result cut from the command's own output holds nothing else.
LEMMA ResultIsOwn ==
    ASSUME NEW u \in Seq(Piece), NEW w, NEW i \in Index, i # 0, Complete(i, u),
           NEW o, IsOutput(o, i), Follows(u, w, 0, o, i)
    PROVE  \A n \in DOMAIN Extract(i, u) : Extract(i, u)[n].of = i
  <1> SUFFICES ASSUME NEW n \in DOMAIN Extract(i, u) PROVE Extract(i, u)[n].of = i
    OBVIOUS
  <1>1. PICK m \in 1..Len(u) : Extract(i, u)[n] = u[m]
    BY ExtractIs
  <1>2. ~(m <= 0) /\ m - 0 = m /\ m \in Nat /\ 1 <= m
    BY LenProperties
  <1>3. m <= Len(o) /\ u[m] = o[m]
    BY <1>2, InPlace
  <1>4. m \in 1..Len(o)
    BY <1>2, <1>3, LenProperties DEF IsOutput
  <1> QED BY <1>1, <1>3, <1>4 DEF IsOutput

LEMMA OutputIsOutput ==
    ASSUME NEW i \in Index, NEW b \in Bodies
    PROVE  IsOutput(Output(i, b), i) /\ Len(Output(i, b)) > 0
  <1>1. /\ Output(i, b) \in Seq(Piece)
        /\ \A n \in 1..Len(Output(i, b)) : Output(i, b)[n].of = i
        /\ i # 0 => Output(i, b)[1].kind = "echo"
    BY OutputIs
  <1>2. Len(b) \in Nat /\ Lead(i) \in {0, 1} /\ Len(Output(i, b)) = Lead(i) + Len(b) + 1
    BY OutputIs DEF Lead
  <1>3. Len(Output(i, b)) > 0
    BY <1>2
  <1> QED BY <1>1, <1>3 DEF IsOutput

\* Where the body holds no end and no escape, the result is the body, all of it.
LEMMA ResultIsBody ==
    ASSUME NEW u \in Seq(Piece), NEW w \in Seq(Piece), NEW i \in Index, i # 0, NEW b \in Bodies,
           Complete(i, u), Follows(u, w, 0, Output(i, b), i),
           ~LooksEnded(b), ~Escaped(b)
    PROVE  Extract(i, u) = Body(i, b)
  <1> DEFINE o == Output(i, b)
             m == Len(b)
  <1>0. Len(u) \in Nat /\ DOMAIN u = 1..Len(u)
    BY LenProperties
  <1>1. /\ m \in Nat /\ DOMAIN b = 1..m /\ Len(o) = m + 2
        /\ \A n \in 1..m : o[1 + n] = [kind |-> b[n], of |-> i]
        /\ o[1].kind = "echo" /\ o[m + 2].kind = "prompt"
    <2>1. Lead(i) = 1 /\ b \in Seq(Kinds) /\ m \in Nat /\ 1 + m + 1 = m + 2
      BY OutputIs DEF Lead
    <2>2. DOMAIN b = 1..m
      BY <2>1, LenProperties
    <2>3. /\ Len(o) = Lead(i) + m + 1
          /\ \A n \in 1..m : o[Lead(i) + n] = [kind |-> b[n], of |-> i]
          /\ o[1].kind = "echo" /\ o[Lead(i) + m + 1].kind = "prompt"
      BY OutputIs
    <2> HIDE DEF o, m
    <2> QED BY <2>1, <2>2, <2>3
  <1>2. \A n \in 1..m : b[n] \notin {"hash", "soft", "ansi", "mark"}
    BY <1>1 DEF LooksEnded, Escaped
  <1>3. StartsAt(i, u) # {} /\ PromptsAt(u) # {}
    BY DEF Complete
  <1>4. First(StartsAt(i, u)) = 1
    <2> DEFINE d == 0
    <2>1. d \in Nat /\ d + 1 = 1 /\ IsOutput(Output(i, b), i) /\ Follows(u, w, d, Output(i, b), i)
      BY OutputIsOutput
    <2> HIDE DEF d
    <2>2. First(StartsAt(i, u)) = d + 1
      BY <1>3, <2>1, StartIsEcho
    <2> QED BY <2>1, <2>2
  <1>5. \A n \in 1..Len(u) : n <= m + 2 /\ u[n] = o[n]
    <2> SUFFICES ASSUME NEW n \in 1..Len(u) PROVE n <= m + 2 /\ u[n] = o[n]
      OBVIOUS
    <2>1. ~(n <= 0) /\ n - 0 = n
      BY <1>0
    <2> QED BY <1>1, <2>1, InPlace
  <1> HIDE DEF o, m
  <1>6. \A n \in 1..Len(u) : n # m + 2 => u[n].kind \notin {"prompt", "hash", "soft", "ansi", "mark"}
    <2> SUFFICES ASSUME NEW n \in 1..Len(u), n # m + 2
                 PROVE  u[n].kind \notin {"prompt", "hash", "soft", "ansi", "mark"}
      OBVIOUS
    <2>1. CASE n = 1
      BY <1>1, <1>5, <2>1
    <2>2. CASE n # 1
      <3>1. n - 1 \in 1..m /\ 1 + (n - 1) = n
        BY <1>0, <1>1, <1>5, <2>2
      <3>2. u[n] = [kind |-> b[n - 1], of |-> i]
        BY <1>1, <1>5, <3>1
      <3>3. b[n - 1] \in Kinds
        BY <3>1, OutputIs, ElementOfSeq DEF m
      <3> QED BY <1>2, <3>1, <3>2, <3>3 DEF Kinds
    <2> QED BY <2>1, <2>2
  <1>7. PromptsAt(u) \subseteq {m + 2}
    BY <1>0, <1>6 DEF PromptsAt, IsEscape
  <1>8. Len(u) = m + 2 /\ First(PreferredAt(u)) = m + 2
    <2>1. First(PreferredAt(u)) = m + 2 /\ m + 2 \in 1..Len(u)
      BY <1>3, <1>7, PromptFound
    <2>2. Len(u) \in 1..Len(u)
      BY <1>0, <2>1
    <2>3. Len(u) <= m + 2
      BY <1>5, <2>2
    <2>4. Len(u) = m + 2
      <3>1. m + 2 <= Len(u)
        BY <1>0, <2>1
      <3>2. m \in Nat /\ Len(u) \in Nat
        BY <1>0, <1>1
      <3> QED BY <2>3, <3>1, <3>2
    <2> QED BY <2>1, <2>4
  <1>9. FindPromptIndex(u) = m + 2
    <2> DEFINE g == m + 1
               T == {n \in 1..(First(PreferredAt(u)) - 1) : ~IsEscape(u[n])}
    <2>1. First(PreferredAt(u)) - 1 = g /\ g \in Nat
      BY <1>1, <1>8
    <2>2. T = 1..g
      <3>1. \A n \in 1..g : n \in 1..Len(u) /\ n # m + 2
        BY <1>1, <1>8
      <3> QED BY <1>6, <2>1, <3>1 DEF IsEscape
    <2> HIDE DEF g
    <2>3. Cardinality(1..g) = g
      <3>1. Cardinality(1..g) = IF 1 > g THEN 0 ELSE g - 1 + 1
        BY <2>1, FS_Interval
      <3> QED BY <2>1, <3>1
    <2>4. FindPromptIndex(u) = 1 + Cardinality(T)
      BY DEF FindPromptIndex
    <2> HIDE DEF T
    <2>5. FindPromptIndex(u) = 1 + g
      BY <2>2, <2>3, <2>4
    <2> QED BY <1>1, <2>5 DEF g
  <1> DEFINE a == 2
             z == m + 1
  <1>16. StartLineEnd(i, u) = 1
    <2> DEFINE E == {n \in 1..Len(u) : n = Len(u) \/ u[n + 1].kind # "mark"}
    <2>1. u[2].kind # "mark"
      <3>1. CASE m = 0
        BY <1>1, <1>5, <1>8, <3>1
      <3>2. CASE m # 0
        <4>1. 2 \in 1..Len(u) /\ 2 # m + 2
          BY <1>1, <1>8, <3>2
        <4> QED BY <1>6, <4>1
      <3> QED BY <3>1, <3>2
    <2>2. 1 \in E /\ E \subseteq 1..Len(u) /\ E \subseteq Nat
      BY <1>1, <1>8, <2>1
    <2>3. StartLineEnd(i, u) = First(E)
      BY <1>4 DEF StartLineEnd
    <2> HIDE DEF E
    <2>4. First(E) \in E /\ First(E) <= 1
      BY <2>2, Least
    <2>5. First(E) \in 1..Len(u)
      BY <2>2, <2>4
    <2> QED BY <1>1, <1>8, <2>3, <2>4, <2>5
  <1>10. Extract(i, u) = SubSeq(u, a, z)
    <2>1. StartLineEnd(i, u) + 1 = a /\ FindPromptIndex(u) - 1 = z
      BY <1>1, <1>9, <1>16
    <2> HIDE DEF a, z
    <2> QED BY <2>1, Zenon DEF Extract
  <1>11. a \in 1..(Len(u) + 1) /\ z \in (a - 1)..Len(u) /\ z - a + 1 = m /\ a - 1 = 1
    BY <1>1, <1>8
  <1> HIDE DEF a, z
  <1>12. /\ SubSeq(u, a, z) \in Seq(Piece) /\ Len(SubSeq(u, a, z)) = z - a + 1
         /\ \A n \in 1..(z - a + 1) : SubSeq(u, a, z)[n] = u[a - 1 + n]
    BY <1>11, Part
  <1>13. /\ Body(i, b) \in Seq(Piece) /\ Len(Body(i, b)) = m
         /\ \A n \in 1..m : Body(i, b)[n] = [kind |-> b[n], of |-> i]
    BY OutputIs DEF m
  <1>14. \A n \in 1..m : SubSeq(u, a, z)[n] = Body(i, b)[n]
    <2> SUFFICES ASSUME NEW n \in 1..m PROVE SubSeq(u, a, z)[n] = Body(i, b)[n]
      OBVIOUS
    <2>1. 1 + n \in 1..Len(u)
      BY <1>1, <1>8
    <2>2. SubSeq(u, a, z)[n] = u[1 + n] /\ u[1 + n] = o[1 + n]
      BY <1>5, <1>11, <1>12, <2>1
    <2> QED BY <1>1, <1>13, <2>2
  <1>15. Len(SubSeq(u, a, z)) = Len(Body(i, b)) /\ Len(SubSeq(u, a, z)) = m
    BY <1>11, <1>12, <1>13
  <1> QED BY <1>10, <1>12, <1>13, <1>14, <1>15, SeqEqual

\* Dropping pieces makes no others.
LEMMA TrimType ==
    ASSUME NEW u \in Seq(Piece), NEW i \in Index
    PROVE  Trim(i, u) \in Seq(Piece)
  <1>1. CASE i = 0 \/ StartsAt(i, u) = {}
    BY <1>1 DEF Trim
  <1>2. CASE ~(i = 0 \/ StartsAt(i, u) = {})
    <2> DEFINE S == StartsAt(i, u)
               f == First(S)
    <2>1. Len(u) \in Nat /\ S # {} /\ S \subseteq 1..Len(u) /\ S \subseteq Nat
      BY <1>2, LenProperties DEF StartsAt
    <2>2. f \in 1..Len(u)
      <3> HIDE DEF S
      <3>1. f \in S
        BY <2>1, Least
      <3> QED BY <2>1, <3>1
    <2>3. Trim(i, u) = SubSeq(u, f, Len(u))
      BY <1>2 DEF Trim
    <2> DEFINE e == Len(u)
    <2>4. f \in 1..(Len(u) + 1) /\ e \in (f - 1)..Len(u)
      BY <2>1, <2>2
    <2> HIDE DEF f, e
    <2>5. SubSeq(u, f, e) \in Seq(Piece)
      BY <2>4, Part
    <2> QED BY <2>3, <2>5 DEF e
  <1> QED BY <1>1, <1>2

-----------------------------------------------------------------------------
(* Readers, commands and results.                                           *)

\* What the argument needs to know of the types (doneCh is a function).
ReaderType ==
    /\ cur \in Nat
    /\ reader \in [Index -> {"none", "reading", "ended"}]
    /\ doneCh = [i \in Index |-> doneCh[i]]

\* A goroutine reads for the command at hand only, and only until its caller
\* went on; whoever has handed over a result reads no more; and no goroutine
\* was started for a command to come.
ReaderInv ==
    /\ ReaderType
    /\ pc = "dial" => cur = 0
    /\ \A i \in Index :
         /\ reader[i] = "reading" => i = cur /\ pc \in {"drain", "write", "select", "over", "panicked"}
         /\ doneCh[i] # <<>> => reader[i] = "ended"
         /\ i > cur \/ (i = cur /\ pc \in {"dial", "next"}) => reader[i] = "none"

LEMMA ReaderInvInductive == ReaderInv /\ [Next]_vars => ReaderInv'
  <1> SUFFICES ASSUME ReaderInv, [Next]_vars PROVE ReaderInv'
    OBVIOUS
  <1>0. Commands \in Nat /\ Index = 0..Commands
    BY SessionAssumption DEF Index
  <1> USE DEF ReaderInv, ReaderType
  <1>1. CASE Dial
    <2>1. pc = "dial" /\ UNCHANGED <<cur, doneCh>> /\ pc' \in {"drain", "over"}
      BY <1>1 DEF Dial, Leave
    <2>2. \/ reader' = [reader EXCEPT ![0] = "reading"] /\ pc' = "drain"
          \/ reader' = reader
      BY <1>1 DEF Dial
    <2> QED BY <1>0, <2>1, <2>2
  <1>2. CASE StartReader
    BY <1>0, <1>2 DEF StartReader
  <1>3. CASE WriteCommand
    BY <1>3 DEF WriteCommand, Leave
  <1>4. CASE TakeDone
    <2>1. /\ pc \in {"drain", "select"} /\ doneCh[cur] # <<>> /\ reader' = reader
          /\ doneCh' = [doneCh EXCEPT ![cur] = <<>>] /\ cur' = cur + 1 /\ pc' = "next"
      BY <1>4 DEF TakeDone
    <2>2. \A i \in Index : reader[i] # "reading"
      BY <2>1
    <2>3. ReaderType'
      BY <2>1
    <2>4. \A i \in Index : doneCh'[i] # <<>> => reader'[i] = "ended"
      BY <2>1
    <2>5. \A i \in Index : i > cur' \/ i = cur' => reader'[i] = "none"
      BY <1>0, <2>1
    <2> QED BY <2>1, <2>2, <2>3, <2>4, <2>5
  <1>5. CASE TakeError \/ Timeout \/ Close
    BY <1>5 DEF TakeError, Timeout, Close, Leave
  <1>9. CASE SlicePanics
    BY <1>9 DEF SlicePanics
  <1>6. ASSUME NEW i \in Index, Read(i) PROVE ReaderInv'
    <2>1. reader[i] = "reading" /\ UNCHANGED <<pc, cur>>
      BY <1>6 DEF Read
    <2>2. CASE UNCHANGED <<reader, doneCh>>
      BY <2>1, <2>2
    <2>3. CASE reader' = [reader EXCEPT ![i] = "ended"] /\ \E buf :
                 doneCh' = [doneCh EXCEPT ![i] = Append(@, buf)]
      BY <2>1, <2>3
    <2> QED BY <1>6, <2>2, <2>3 DEF Read
  <1>7. ASSUME NEW i \in Index, ReadError(i) PROVE ReaderInv'
    BY <1>7 DEF ReadError
  <1>8. CASE Answer \/ LoseConnection \/ UNCHANGED vars
    BY <1>8 DEF Answer, LoseConnection, vars
  <1> QED BY <1>1, <1>2, <1>3, <1>4, <1>5, <1>6, <1>7, <1>8, <1>9
          DEF Next, Caller, Waits, Reader, Over

\* Two goroutines never read the output of one session, whatever timers, errors
\* and lost connections do: a goroutine left behind is left behind by a session
\* that starts no other (router.go:505-535, 547-580).
THEOREM SessionHasOneReader == Spec => []OneReader
  <1>1. Init => ReaderInv
    BY SessionAssumption DEF Init, ReaderInv, ReaderType, Index
  <1>2. ReaderInv => OneReader
    BY DEF ReaderInv, OneReader
  <1> QED BY <1>1, <1>2, ReaderInvInductive, PTL DEF Spec

-----------------------------------------------------------------------------
\* Where the caller is, so is the command at hand.
CallerInv ==
    /\ pc \in {"dial", "drain"} => cur = 0
    /\ pc \in {"write", "select"} => cur \in 1..Commands
    /\ pc = "next" => cur >= 1

\* A buffer is filled by its goroutine alone, and handed over complete, once.
ChannelInv ==
    \A i \in Index :
      /\ reader[i] = "none" => buffer[i] = <<>>
      /\ doneCh[i] # <<>> => Len(doneCh[i]) = 1 /\ Complete(i, Head(doneCh[i]))

\* The router gets each command once and answers it once, in their order.
OrderInv ==
    /\ \A n \in 1..Len(stdin) : stdin[n] <= cur /\ printed[stdin[n]] = <<>>
    /\ \A m, n \in 1..Len(stdin) : stdin[m] = stdin[n] => m = n
    /\ \A i \in Index : printed[i] # <<>> => i <= cur /\ Len(printed[i]) = 1
    /\ pc = "dial" => stdin = <<>> /\ \A i \in Index : printed[i] = <<>>
    /\ pc \in {"next", "write"} =>
         /\ \A n \in 1..Len(stdin) : stdin[n] < cur
         /\ \A i \in Index : printed[i] # <<>> => i < cur

Out(i) == IF printed[i] = <<>> THEN <<>> ELSE Output(i, Head(printed[i]))

\* The command at hand is the next the router answers, and between its reader and
\* the router are leftovers and its own output, nothing lost and nothing doubled.
StreamInv ==
    pc \in {"drain", "next", "write", "select"} /\ cur \in Index /\ Undisturbed(cur) =>
      /\ stdin = <<>> \/ (stdin = <<cur>> /\ pc = "select")
      /\ doneCh[cur] = <<>> => \E d \in Nat : Follows(buffer[cur], wire, d, Out(cur), cur)
      /\ doneCh[cur] # <<>> =>
           printed[cur] # <<>> /\ Follows(Head(doneCh[cur]), wire, 0, Out(cur), cur)

Answered(i) ==
    /\ printed[i] # <<>>
    /\ \A n \in DOMAIN Head(results[i]) : Head(results[i])[n].of = i
    /\ ~LooksEnded(Head(printed[i])) /\ ~Escaped(Head(printed[i])) =>
         Head(results[i]) = Body(i, Head(printed[i]))

ResultInv == \A i \in 1..Commands : results[i] # <<>> /\ Undisturbed(i) => Answered(i)

SessionInv == TypeOK /\ CallerInv /\ ChannelInv /\ OrderInv /\ StreamInv /\ ResultInv

LEMMA LeaveKeeps ==
    ASSUME SessionInv, pc' \in {"over", "panicked"}, conn' \in {"none", "up", "down", "closed"},
           errCh' \in [Index -> Seq({"EOF"})], doneCh' \in [Index -> Seq(Seq(Piece))],
           \A i \in Index : doneCh'[i] \in {doneCh[i], <<>>},
           UNCHANGED <<family, cur, stdin, wire, reader, buffer, results, printed>>
    PROVE  SessionInv'
  <1>1. TypeOK'
    BY DEF SessionInv, TypeOK
  <1>2. CallerInv' /\ StreamInv'
    BY DEF CallerInv, StreamInv
  <1>3. ChannelInv'
    <2> SUFFICES ASSUME NEW i \in Index
                 PROVE  /\ reader[i] = "none" => buffer[i] = <<>>
                        /\ doneCh'[i] # <<>> =>
                             Len(doneCh'[i]) = 1 /\ Complete(i, Head(doneCh'[i]))
      BY DEF ChannelInv, Complete, StartsAt, PromptsAt, IsEscape
    <2>1. doneCh'[i] # <<>> => doneCh'[i] = doneCh[i]
      OBVIOUS
    <2> QED BY <2>1 DEF SessionInv, ChannelInv
  <1>4. OrderInv'
    BY DEF SessionInv, OrderInv
  <1>5. ResultInv'
    BY DEF SessionInv, ResultInv, Answered, Undisturbed, LooksEnded, Escaped, Misleading, Body
  <1> QED BY <1>1, <1>2, <1>3, <1>4, <1>5 DEF SessionInv

\* A fresh reader finds the output at the head of the wire.
LEMMA Fresh ==
    ASSUME NEW o \in Seq(Piece), NEW i
    PROVE  Follows(<<>>, o, 0, o, i)
  <1>1. Len(o) \in Nat /\ Len(<<>>) = 0
    BY LenProperties
  <1>2. ASSUME NEW n \in 1..Len(o) PROVE Placed(o[n], Len(<<>>) + n, 0, o, i)
    BY <1>1 DEF Placed
  <1> QED BY <1>1, <1>2 DEF Follows

LEMMA DialKeeps ==
    ASSUME ReaderInv, SessionInv, Dial
    PROVE  SessionInv'
  <1>0. /\ pc = "dial" /\ cur = 0 /\ cur \in Index
        /\ UNCHANGED <<family, cur, stdin, buffer, doneCh, errCh, results>>
    BY SessionAssumption DEF Dial, SessionInv, CallerInv, SessionAssumption, Index
  <1>1. CASE /\ conn' = "up" /\ pc' = "drain"
             /\ reader' = [reader EXCEPT ![0] = "reading"]
             /\ \E b \in Bodies : wire' = Output(0, b) /\ printed' = [printed EXCEPT ![0] = <<b>>]
    <2> PICK b \in Bodies : wire' = Output(0, b) /\ printed' = [printed EXCEPT ![0] = <<b>>]
      BY <1>1
    <2>0. /\ printed \in [Index -> Seq(Bodies)] /\ reader \in [Index -> {"none", "reading", "ended"}]
          /\ stdin = <<>> /\ (\A i \in Index : printed[i] = <<>>)
          /\ buffer[0] = <<>> /\ doneCh[0] = <<>>
      BY <1>0 DEF SessionInv, TypeOK, OrderInv, ChannelInv, ReaderInv
    <2>1. printed'[0] = <<b>> /\ \A i \in Index : i # 0 => printed'[i] = <<>>
      BY <1>0, <2>0
    <2>2. Output(0, b) \in Seq(Piece)
      BY <1>0, OutputIs
    <2>3. TypeOK'
      <3>1. <<b>> \in Seq(Bodies)
        OBVIOUS
      <3>2. printed' \in [Index -> Seq(Bodies)] /\ reader' \in [Index -> {"none", "reading", "ended"}]
        BY <1>1, <2>0, <3>1
      <3> QED BY <1>0, <1>1, <2>2, <3>2 DEF SessionInv, TypeOK
    <2>4. CallerInv'
      BY <1>0, <1>1 DEF CallerInv
    <2>5. ChannelInv'
      BY <1>0, <1>1, <2>0 DEF SessionInv, ChannelInv, Complete, StartsAt, PromptsAt, IsEscape
    <2>6. OrderInv'
      BY <1>0, <1>1, <2>0, <2>1 DEF OrderInv
    <2>7. StreamInv'
      <3>1. Out(0)' = Output(0, b)
        BY <2>1 DEF Out, Output, Body
      <3>2. Follows(buffer'[0], wire', 0, Out(0)', 0)
        BY <1>0, <2>0, <2>2, <3>1, Fresh
      <3> QED BY <1>0, <1>1, <2>0, <3>1, <3>2 DEF StreamInv, Out
    <2>8. ResultInv'
      <3>1. \A i \in 1..Commands : results[i] # <<>> => ~Undisturbed(i)
        BY <1>0, <2>0, SessionAssumption DEF SessionInv, ResultInv, Answered, Index, SessionAssumption
      <3> QED BY <1>0, <2>0, <3>1 DEF ResultInv, Undisturbed
    <2> QED BY <2>3, <2>4, <2>5, <2>6, <2>7, <2>8 DEF SessionInv
  <1>2. CASE /\ pc' = "over" /\ conn' \in {"none", "closed"}
             /\ UNCHANGED <<reader, wire, printed>>
    <2>1. errCh' \in [Index -> Seq({"EOF"})] /\ doneCh' \in [Index -> Seq(Seq(Piece))]
      BY <1>0 DEF SessionInv, TypeOK
    <2> QED BY <1>0, <1>2, <2>1, LeaveKeeps
  <1> QED BY <1>1, <1>2 DEF Dial

LEMMA StartReaderKeeps ==
    ASSUME ReaderInv, SessionInv, StartReader
    PROVE  SessionInv'
  <1>0. /\ pc = "next" /\ cur \in Index /\ cur \in 1..Commands /\ pc' = "write"
        /\ reader' = [reader EXCEPT ![cur] = "reading"]
        /\ UNCHANGED <<family, cur, conn, stdin, wire, buffer, doneCh, errCh, results, printed>>
    BY SessionAssumption DEF StartReader, SessionInv, TypeOK, CallerInv, SessionAssumption, Index
  <1>1. TypeOK'
    BY <1>0 DEF SessionInv, TypeOK
  <1>2. CallerInv'
    BY <1>0 DEF CallerInv
  <1>3. ChannelInv'
    <2>1. \A i \in Index : reader'[i] = "none" => reader[i] = "none"
      BY <1>0 DEF SessionInv, TypeOK
    <2> QED BY <1>0, <2>1 DEF SessionInv, ChannelInv, Complete, StartsAt, PromptsAt, IsEscape
  <1>4. OrderInv'
    BY <1>0 DEF SessionInv, OrderInv
  <1>5. StreamInv'
    <2> SUFFICES ASSUME Undisturbed(cur)
                 PROVE  StreamInv'
      BY <1>0 DEF StreamInv, Undisturbed, Misleading
    <2>1. /\ stdin = <<>>
          /\ doneCh[cur] = <<>> => \E d \in Nat : Follows(buffer[cur], wire, d, Out(cur), cur)
          /\ doneCh[cur] # <<>> =>
               printed[cur] # <<>> /\ Follows(Head(doneCh[cur]), wire, 0, Out(cur), cur)
      BY <1>0 DEF SessionInv, StreamInv
    <2>2. Out(cur)' = Out(cur)
      BY <1>0 DEF Out, Output, Body
    <2> QED BY <1>0, <2>1, <2>2 DEF StreamInv
  <1>6. ResultInv'
    BY <1>0 DEF SessionInv, ResultInv, Answered, Undisturbed, LooksEnded, Escaped, Misleading, Body
  <1> QED BY <1>1, <1>2, <1>3, <1>4, <1>5, <1>6 DEF SessionInv

LEMMA WriteCommandKeeps ==
    ASSUME ReaderInv, SessionInv, WriteCommand
    PROVE  SessionInv'
  <1>0. /\ pc = "write" /\ cur \in Index /\ cur \in 1..Commands
        /\ UNCHANGED <<family, cur, wire, reader, buffer, doneCh, errCh, results, printed>>
        /\ stdin \in Seq(Index)
    BY SessionAssumption DEF WriteCommand, SessionInv, TypeOK, CallerInv, SessionAssumption, Index
  <1>1. CASE stdin' = Append(stdin, cur) /\ pc' = "select" /\ UNCHANGED conn
    <2>1. /\ stdin' \in Seq(Index) /\ Len(stdin') = Len(stdin) + 1 /\ Len(stdin) \in Nat
          /\ \A n \in 1..Len(stdin) : stdin'[n] = stdin[n]
          /\ stdin'[Len(stdin) + 1] = cur
      BY <1>0, <1>1, AppendProperties, LenProperties
    <2>2. /\ \A n \in 1..Len(stdin) : stdin[n] < cur /\ printed[stdin[n]] = <<>>
          /\ \A m, n \in 1..Len(stdin) : stdin[m] = stdin[n] => m = n
          /\ \A i \in Index : printed[i] # <<>> => i < cur /\ i <= cur /\ Len(printed[i]) = 1
      BY <1>0 DEF SessionInv, OrderInv
    <2>3. cur \in Nat /\ \A n \in 1..Len(stdin) : stdin[n] \in Nat
      <3>1. \A n \in 1..Len(stdin) : stdin[n] \in Index
        BY <1>0, ElementOfSeq
      <3> QED BY <1>0, <3>1, SessionAssumption DEF Index, SessionAssumption
    <2>4. \A n \in 1..Len(stdin') : n # Len(stdin) + 1 => n \in 1..Len(stdin)
      BY <2>1
    <2>5. TypeOK'
      BY <1>0, <1>1, <2>1 DEF SessionInv, TypeOK
    <2>6. CallerInv'
      BY <1>0, <1>1 DEF CallerInv
    <2>7. ChannelInv'
      BY <1>0, <1>1 DEF SessionInv, ChannelInv, Complete, StartsAt, PromptsAt, IsEscape
    <2>8. OrderInv'
      <3>1. printed[cur] = <<>>
        BY <1>0, <2>2, <2>3
      <3>2. \A n \in 1..Len(stdin') : stdin'[n] <= cur /\ printed[stdin'[n]] = <<>>
        BY <2>1, <2>2, <2>3, <2>4, <3>1
      <3>3. ASSUME NEW m \in 1..Len(stdin'), NEW n \in 1..Len(stdin'), stdin'[m] = stdin'[n] PROVE m = n
        <4>1. CASE m \in 1..Len(stdin) /\ n \in 1..Len(stdin)
          BY <2>1, <2>2, <3>3, <4>1
        <4>2. CASE m \in 1..Len(stdin) /\ n = Len(stdin) + 1
          BY <2>1, <2>2, <2>3, <3>3, <4>2
        <4>3. CASE n \in 1..Len(stdin) /\ m = Len(stdin) + 1
          BY <2>1, <2>2, <2>3, <3>3, <4>3
        <4>4. CASE m = Len(stdin) + 1 /\ n = Len(stdin) + 1
          BY <4>4
        <4> QED BY <2>4, <4>1, <4>2, <4>3, <4>4
      <3> QED BY <1>0, <1>1, <2>2, <3>2, <3>3 DEF OrderInv
    <2>9. StreamInv'
      <3> SUFFICES ASSUME Undisturbed(cur)
                   PROVE  StreamInv'
        BY <1>0 DEF StreamInv, Undisturbed, Misleading
      <3>1. /\ stdin = <<>>
            /\ doneCh[cur] = <<>> => \E d \in Nat : Follows(buffer[cur], wire, d, Out(cur), cur)
            /\ doneCh[cur] # <<>> =>
                 printed[cur] # <<>> /\ Follows(Head(doneCh[cur]), wire, 0, Out(cur), cur)
        BY <1>0 DEF SessionInv, StreamInv
      <3>2. stdin' = <<cur>>
        BY <1>1, <3>1
      <3>3. Out(cur)' = Out(cur)
        BY <1>0 DEF Out, Output, Body
      <3> QED BY <1>0, <1>1, <3>1, <3>2, <3>3 DEF StreamInv
    <2>10. ResultInv'
      BY <1>0 DEF SessionInv, ResultInv, Answered, Undisturbed, LooksEnded, Escaped, Misleading, Body
    <2> QED BY <2>5, <2>6, <2>7, <2>8, <2>9, <2>10 DEF SessionInv
  <1>2. CASE Leave /\ UNCHANGED stdin
    <2>1. /\ conn' \in {"none", "up", "down", "closed"} /\ errCh' \in [Index -> Seq({"EOF"})]
          /\ doneCh' \in [Index -> Seq(Seq(Piece))]
      BY <1>0, <1>2 DEF Leave, SessionInv, TypeOK
    <2> QED BY <1>0, <1>2, <2>1, LeaveKeeps DEF Leave
  <1> QED BY <1>1, <1>2 DEF WriteCommand

LEMMA LeavingKeeps ==
    ASSUME SessionInv, TakeError \/ Timeout \/ Close
    PROVE  SessionInv'
  <1>1. /\ pc' = "over" /\ conn' \in {"none", "up", "down", "closed"}
        /\ UNCHANGED <<family, cur, stdin, wire, reader, buffer, doneCh, results, printed>>
    BY DEF TakeError, Timeout, Close, Leave, SessionInv, TypeOK
  <1>2. errCh \in [Index -> Seq({"EOF"})] /\ <<>> \in Seq({"EOF"})
    BY DEF SessionInv, TypeOK
  <1>3. errCh' = errCh \/ errCh' = [errCh EXCEPT ![cur] = <<>>]
    BY DEF TakeError, Timeout, Close
  <1>4. errCh' \in [Index -> Seq({"EOF"})]
    BY <1>2, <1>3
  <1>5. doneCh' \in [Index -> Seq(Seq(Piece))]
    BY <1>1 DEF SessionInv, TypeOK
  <1> QED BY <1>1, <1>4, <1>5, LeaveKeeps

LEMMA SlicePanicsKeeps ==
    ASSUME SessionInv, SlicePanics
    PROVE  SessionInv'
  <1>1. /\ pc' = "panicked" /\ conn' \in {conn, "closed"}
        /\ doneCh' = [doneCh EXCEPT ![cur] = <<>>]
        /\ UNCHANGED <<family, cur, stdin, wire, reader, buffer, errCh, results, printed>>
    BY DEF SlicePanics
  <1>2. /\ doneCh \in [Index -> Seq(Seq(Piece))] /\ errCh \in [Index -> Seq({"EOF"})]
        /\ conn \in {"none", "up", "down", "closed"}
    BY DEF SessionInv, TypeOK
  <1>3. /\ doneCh' \in [Index -> Seq(Seq(Piece))]
        /\ \A i \in Index : doneCh'[i] \in {doneCh[i], <<>>}
    <2>1. <<>> \in Seq(Seq(Piece))
      OBVIOUS
    <2> QED BY <1>1, <1>2, <2>1
  <1> QED BY <1>1, <1>2, <1>3, LeaveKeeps

LEMMA TakeDoneKeeps ==
    ASSUME ReaderInv, SessionInv, TakeDone
    PROVE  SessionInv'
  <1> DEFINE u == Head(doneCh[cur])
             c == cur + 1
             b == Head(printed[cur])
  <1>0. /\ pc \in {"drain", "select"} /\ doneCh[cur] # <<>> /\ cur \in Index /\ cur \in Nat
        /\ cur' = c /\ pc' = "next" /\ doneCh' = [doneCh EXCEPT ![cur] = <<>>]
        /\ results' = IF cur = 0 THEN results ELSE [results EXCEPT ![cur] = <<Extract(cur, u)>>]
        /\ UNCHANGED <<family, conn, stdin, wire, reader, buffer, errCh, printed>>
    BY SessionAssumption DEF TakeDone, SessionInv, CallerInv, Index, SessionAssumption
  <1>1. /\ doneCh \in [Index -> Seq(Seq(Piece))] /\ results \in [Index -> Seq(Seq(Piece))]
        /\ printed \in [Index -> Seq(Bodies)] /\ wire \in Seq(Piece) /\ stdin \in Seq(Index)
        /\ \A i \in Index : reader[i] = "none" => doneCh[i] = <<>> /\ buffer[i] = <<>>
        /\ \A i \in Index : i > cur => reader[i] = "none"
        /\ \A i \in Index : printed[i] # <<>> => i <= cur /\ Len(printed[i]) = 1
    BY DEF SessionInv, TypeOK, ChannelInv, ReaderInv, OrderInv
  <1>2. u \in Seq(Piece) /\ Complete(cur, u)
    <2>1. doneCh[cur] \in Seq(Seq(Piece))
      BY <1>0, <1>1
    <2>2. u \in Seq(Piece)
      BY <1>0, <2>1, HeadTailProperties
    <2> QED BY <1>0, <2>2 DEF SessionInv, ChannelInv
  <1>3. cur # 0 => Extract(cur, u) \in Seq(Piece)
    BY <1>0, <1>2, ExtractIs
  <1> HIDE DEF u
  <1>4. /\ \A i \in Index : i # cur => doneCh'[i] = doneCh[i] /\ results'[i] = results[i]
        /\ doneCh'[cur] = <<>> /\ doneCh' \in [Index -> Seq(Seq(Piece))]
        /\ cur # 0 => results'[cur] = <<Extract(cur, u)>>
        /\ results' \in [Index -> Seq(Seq(Piece))]
    <2>1. <<>> \in Seq(Seq(Piece))
      OBVIOUS
    <2>2. cur # 0 => <<Extract(cur, u)>> \in Seq(Seq(Piece))
      BY <1>3
    <2>3. doneCh'[cur] = <<>> /\ doneCh' \in [Index -> Seq(Seq(Piece))]
          /\ \A i \in Index : i # cur => doneCh'[i] = doneCh[i]
      BY <1>0, <1>1, <2>1
    <2>4. CASE cur = 0
      BY <1>0, <1>1, <2>3, <2>4
    <2>5. CASE cur # 0
      <3>1. results' = [results EXCEPT ![cur] = <<Extract(cur, u)>>]
        BY <1>0, <2>5
      <3> QED BY <1>0, <1>1, <2>2, <2>3, <2>5, <3>1
    <2> QED BY <2>4, <2>5
  <1>5. TypeOK'
    <2>1. c \in 0..(Commands + 1)
      BY <1>0, SessionAssumption DEF Index, SessionAssumption
    <2> QED BY <1>0, <1>4, <2>1 DEF SessionInv, TypeOK
  <1>6. CallerInv'
    BY <1>0 DEF CallerInv
  <1>7. ChannelInv'
    <2>1. \A i \in Index : doneCh'[i] # <<>> => doneCh'[i] = doneCh[i]
      BY <1>4
    <2> QED BY <1>0, <2>1 DEF SessionInv, ChannelInv, Complete, StartsAt, PromptsAt, IsEscape
  <1>8. OrderInv'
    <2>1. \A n \in 1..Len(stdin) : stdin[n] \in Nat
      <3>1. \A n \in 1..Len(stdin) : stdin[n] \in Index
        BY <1>1, ElementOfSeq
      <3> QED BY <3>1, SessionAssumption DEF Index, SessionAssumption
    <2>2. /\ \A n \in 1..Len(stdin) : stdin[n] < c /\ stdin[n] <= c /\ printed[stdin[n]] = <<>>
          /\ \A m, n \in 1..Len(stdin) : stdin[m] = stdin[n] => m = n
      BY <1>0, <2>1 DEF SessionInv, OrderInv
    <2>3. \A i \in Index : printed[i] # <<>> => i < c /\ i <= c /\ Len(printed[i]) = 1
      BY <1>0, <1>1, SessionAssumption DEF Index, SessionAssumption
    <2> QED BY <1>0, <2>2, <2>3 DEF OrderInv
  <1>9. Undisturbed(cur) => /\ stdin = <<>> \/ stdin = <<cur>>
                            /\ printed[cur] # <<>> /\ b \in Bodies
                            /\ Out(cur) = Output(cur, b)
                            /\ Follows(u, wire, 0, Output(cur, b), cur)
    <2> SUFFICES ASSUME Undisturbed(cur)
                 PROVE  /\ stdin = <<>> \/ stdin = <<cur>>
                        /\ printed[cur] # <<>> /\ b \in Bodies
                        /\ Out(cur) = Output(cur, b)
                        /\ Follows(u, wire, 0, Output(cur, b), cur)
      OBVIOUS
    <2>1. /\ stdin = <<>> \/ stdin = <<cur>>
          /\ printed[cur] # <<>> /\ Follows(u, wire, 0, Out(cur), cur)
      BY <1>0 DEF SessionInv, StreamInv, u
    <2>2. printed[cur] \in Seq(Bodies)
      BY <1>0, <1>1
    <2>3. b \in Bodies
      BY <2>1, <2>2, HeadTailProperties
    <2>4. Out(cur) = Output(cur, b)
      BY <2>1 DEF Out
    <2> QED BY <2>1, <2>3, <2>4
  <1>10. StreamInv'
    <2> SUFFICES ASSUME c \in Index, Undisturbed(c)
                 PROVE  StreamInv'
      BY <1>0 DEF StreamInv, Undisturbed, Misleading
    <2>1. Undisturbed(cur) /\ (printed[cur] # <<>> => ~Misleading(b))
      BY <1>0 DEF Undisturbed
    <2>2. stdin = <<>>
      <3>1. stdin = <<cur>> => printed[cur] = <<>>
        BY DEF SessionInv, OrderInv
      <3> QED BY <1>9, <2>1, <3>1
    <2>3. \A n \in 1..Len(wire) : Leftover(wire[n], c)
      BY <1>0, <1>1, <1>2, <1>9, <2>1, TailIsLeftover
    <2>4. buffer[c] = <<>> /\ doneCh'[c] = <<>> /\ printed[c] = <<>>
      <3>1. c \in Index /\ c > cur /\ c # cur /\ ~(c <= cur)
        BY <1>0
      <3> HIDE DEF c
      <3>2. reader[c] = "none"
        BY <1>1, <3>1
      <3> QED BY <1>1, <1>4, <3>1, <3>2
    <2>5. Out(cur)' = <<>>
      BY <1>0, <2>4 DEF Out
    <2>6. Len(wire) \in Nat /\ Follows(<<>>, wire, Len(wire), <<>>, c)
      <3>1. Len(wire) \in Nat /\ Len(<<>>) = 0
        BY <1>1, LenProperties
      <3>2. \A n \in 1..Len(wire) : Placed(wire[n], Len(<<>>) + n, Len(wire), <<>>, c)
        BY <2>3, <3>1 DEF Placed
      <3> QED BY <3>1, <3>2 DEF Follows
    <2>7. /\ stdin' = <<>> /\ doneCh'[cur'] = <<>>
          /\ Follows(buffer'[cur'], wire', Len(wire), Out(cur)', cur')
      BY <1>0, <2>2, <2>4, <2>5, <2>6
    <2> QED BY <2>6, <2>7 DEF StreamInv
  <1>11. ResultInv'
    <2> SUFFICES ASSUME NEW i \in 1..Commands, results'[i] # <<>>, Undisturbed(i)
                 PROVE  Answered(i)'
      BY <1>0 DEF ResultInv, Undisturbed, Misleading
    <2>1. i \in Index /\ i # 0
      BY SessionAssumption DEF Index, SessionAssumption
    <2>2. CASE i # cur
      <3>1. results'[i] = results[i]
        BY <1>4, <2>1, <2>2
      <3>2. Answered(i)
        BY <3>1 DEF SessionInv, ResultInv
      <3> QED BY <1>0, <3>1, <3>2 DEF Answered, LooksEnded, Escaped, Body
    <2>3. CASE i = cur
      <3>1. /\ printed[cur] # <<>> /\ b \in Bodies
            /\ Follows(u, wire, 0, Output(cur, b), cur)
        BY <1>9, <2>3
      <3>2. Head(results'[cur]) = Extract(cur, u)
        BY <1>4, <2>1, <2>3
      <3>3. IsOutput(Output(cur, b), cur)
        BY <1>0, <3>1, OutputIsOutput
      <3>4. \A n \in DOMAIN Extract(cur, u) : Extract(cur, u)[n].of = cur
        BY <1>0, <1>2, <2>1, <2>3, <3>1, <3>3, ResultIsOwn
      <3>5. ~LooksEnded(b) /\ ~Escaped(b) => Extract(cur, u) = Body(cur, b)
        BY <1>0, <1>1, <1>2, <2>1, <2>3, <3>1, ResultIsBody
      <3> QED BY <1>0, <2>3, <3>1, <3>2, <3>4, <3>5 DEF Answered, LooksEnded, Escaped, Body
    <2> QED BY <2>2, <2>3
  <1> QED BY <1>5, <1>6, <1>7, <1>8, <1>10, <1>11 DEF SessionInv

LEMMA ReadKeeps ==
    ASSUME ReaderInv, SessionInv, NEW i \in Index, Read(i)
    PROVE  SessionInv'
  <1>0. /\ reader[i] = "reading" /\ i = cur /\ doneCh[i] = <<>> /\ cur \in Index
        /\ UNCHANGED <<family, pc, cur, conn, stdin, errCh, results, printed>>
    BY DEF Read, ReaderInv
  <1>1. /\ doneCh \in [Index -> Seq(Seq(Piece))] /\ buffer \in [Index -> Seq(Piece)]
        /\ reader \in [Index -> {"none", "reading", "ended"}]
        /\ printed \in [Index -> Seq(Bodies)] /\ wire \in Seq(Piece) /\ buffer[i] \in Seq(Piece)
    BY DEF SessionInv, TypeOK
  <1> PICK k \in 1..Len(wire) :
         LET buf == Trim(i, buffer[i] \o SubSeq(wire, 1, k))
         IN  /\ wire' = SubSeq(wire, k + 1, Len(wire))
             /\ IF Complete(i, buf)
                THEN /\ CanPut(i, doneCh)
                     /\ doneCh' = [doneCh EXCEPT ![i] = Append(@, buf)]
                     /\ reader' = [reader EXCEPT ![i] = "ended"]
                     /\ buffer' = [buffer EXCEPT ![i] = <<>>]
                ELSE /\ buffer' = [buffer EXCEPT ![i] = buf]
                     /\ UNCHANGED <<doneCh, reader>>
    BY DEF Read
  <1> DEFINE raw == buffer[i] \o SubSeq(wire, 1, k)
             r == SubSeq(wire, k + 1, Len(wire))
             t == Trim(i, raw)
  <1>2. raw \in Seq(Piece) /\ r \in Seq(Piece)
    <2>1. k \in 0..Len(wire)
      BY <1>1, LenProperties
    <2>2. SubSeq(wire, 1, k) \in Seq(Piece) /\ r \in Seq(Piece)
      BY <1>1, <2>1, Front, Back
    <2> QED BY <1>1, <2>2, Joined
  <1>3. t \in Seq(Piece)
    BY <1>2, TrimType
  <1>4. \A d \in Nat : Follows(buffer[i], wire, d, Out(i), i) => Follows(raw, r, d, Out(i), i)
    BY <1>1, Moved
  <1>5. /\ wire' = r
        /\ \/ /\ Complete(i, t)
              /\ doneCh' = [doneCh EXCEPT ![i] = Append(@, t)]
              /\ reader' = [reader EXCEPT ![i] = "ended"]
              /\ buffer' = [buffer EXCEPT ![i] = <<>>]
           \/ /\ ~Complete(i, t)
              /\ buffer' = [buffer EXCEPT ![i] = t]
              /\ UNCHANGED <<doneCh, reader>>
    BY Zenon
  <1> HIDE DEF raw, r
  <1>6. ASSUME NEW d \in Nat, Follows(buffer[i], wire, d, Out(i), i)
        PROVE  /\ \E e \in Nat : Follows(t, r, e, Out(i), i)
               /\ Complete(i, t) => Follows(t, r, 0, Out(i), i)
    <2>1. IsOutput(Out(i), i)
      <3>1. CASE printed[i] = <<>>
        BY <3>1 DEF Out, IsOutput
      <3>2. CASE printed[i] # <<>>
        <4>1. printed[i] \in Seq(Bodies)
          BY <1>1
        <4>2. Head(printed[i]) \in Bodies
          BY <3>2, <4>1, HeadTailProperties
        <4> QED BY <3>2, <4>2, OutputIsOutput DEF Out
      <3> QED BY <3>1, <3>2
    <2>2. Follows(raw, r, d, Out(i), i)
      BY <1>4, <1>6
    <2> QED BY <1>2, <2>1, <2>2, Trimmed
  <1> HIDE DEF t
  <1>7. ASSUME Complete(i, t), Follows(t, r, 0, Out(i), i) PROVE printed[i] # <<>>
    <2>1. DOMAIN t = 1..Len(t) /\ Len(t) \in Nat
      BY <1>3, LenProperties
    <2>2. 1 \in 1..Len(t) /\ ~(1 <= 0) /\ 1 - 0 = 1
      BY <1>7, <2>1 DEF Complete, PromptsAt, IsEscape
    <2>3. 1 <= Len(Out(i))
      BY <1>3, <1>7, <2>2, InPlace
    <2> QED BY <2>3 DEF Out
  <1>8. OrderInv' /\ CallerInv'
    BY <1>0 DEF SessionInv, OrderInv, CallerInv
  <1>9. ResultInv'
    BY <1>0 DEF SessionInv, ResultInv, Answered, Undisturbed, LooksEnded, Escaped, Misleading, Body
  <1>10. Out(cur)' = Out(i)
    BY <1>0 DEF Out, Output, Body
  <1>11. ASSUME pc \in {"drain", "next", "write", "select"}, Undisturbed(cur)
         PROVE  /\ stdin = <<>> \/ (stdin = <<cur>> /\ pc = "select")
                /\ \E d \in Nat : Follows(buffer[i], wire, d, Out(i), i)
    BY <1>0, <1>11 DEF SessionInv, StreamInv
  <1>12. Undisturbed(cur)' => Undisturbed(cur)
    BY <1>0 DEF Undisturbed, Misleading
  <1>13. CASE /\ Complete(i, t)
              /\ doneCh' = [doneCh EXCEPT ![i] = Append(@, t)]
              /\ reader' = [reader EXCEPT ![i] = "ended"]
              /\ buffer' = [buffer EXCEPT ![i] = <<>>]
    <2>1. Append(<<>>, t) \in Seq(Seq(Piece)) /\ Append(<<>>, t) # <<>>
          /\ Len(Append(<<>>, t)) = 1 /\ Head(Append(<<>>, t)) = t
      <3>1. <<>> \in Seq(Seq(Piece)) /\ Len(<<>>) + 1 = 1
        BY EmptySeq
      <3> QED BY <1>3, <3>1, AppendProperties, HeadTailAppend
    <2>2. /\ doneCh' \in [Index -> Seq(Seq(Piece))] /\ doneCh'[i] = Append(<<>>, t)
          /\ \A j \in Index : j # i => doneCh'[j] = doneCh[j]
      BY <1>0, <1>1, <1>13, <2>1
    <2>3. /\ reader' \in [Index -> {"none", "reading", "ended"}] /\ reader'[i] = "ended"
          /\ \A j \in Index : j # i => reader'[j] = reader[j] /\ buffer'[j] = buffer[j]
          /\ buffer' \in [Index -> Seq(Piece)]
      <3>1. <<>> \in Seq(Piece)
        OBVIOUS
      <3> QED BY <1>1, <1>13, <3>1
    <2>4. TypeOK'
      BY <1>0, <1>2, <1>5, <2>2, <2>3 DEF SessionInv, TypeOK
    <2>5. ChannelInv'
      <3>1. Complete(i, Head(doneCh'[i])) /\ Len(doneCh'[i]) = 1
        BY <1>13, <2>1, <2>2
      <3>2. \A j \in Index : j # i =>
               /\ reader'[j] = "none" => buffer'[j] = <<>>
               /\ doneCh'[j] # <<>> => Len(doneCh'[j]) = 1 /\ Complete(j, Head(doneCh'[j]))
        BY <2>2, <2>3 DEF SessionInv, ChannelInv
      <3> QED BY <2>3, <3>1, <3>2 DEF ChannelInv
    <2>6. StreamInv'
      <3> SUFFICES ASSUME pc \in {"drain", "next", "write", "select"}, Undisturbed(cur)
                   PROVE  StreamInv'
        BY <1>0, <1>12 DEF StreamInv
      <3>1. Follows(t, r, 0, Out(i), i) /\ printed[i] # <<>>
        BY <1>6, <1>7, <1>11, <1>13
      <3>2. doneCh'[cur'] # <<>> /\ Head(doneCh'[cur']) = t
        BY <1>0, <2>1, <2>2
      <3> QED BY <1>0, <1>5, <1>10, <1>11, <3>1, <3>2 DEF StreamInv
    <2> QED BY <1>8, <1>9, <2>4, <2>5, <2>6 DEF SessionInv
  <1>14. CASE /\ ~Complete(i, t)
              /\ buffer' = [buffer EXCEPT ![i] = t]
              /\ UNCHANGED <<doneCh, reader>>
    <2>1. /\ buffer' \in [Index -> Seq(Piece)] /\ buffer'[i] = t
          /\ \A j \in Index : j # i => buffer'[j] = buffer[j]
      BY <1>1, <1>3, <1>14
    <2>2. TypeOK'
      BY <1>0, <1>2, <1>5, <1>14, <2>1 DEF SessionInv, TypeOK
    <2>3. ChannelInv'
      BY <1>0, <1>14, <2>1 DEF SessionInv, ChannelInv, Complete, StartsAt, PromptsAt, IsEscape
    <2>4. StreamInv'
      <3> SUFFICES ASSUME pc \in {"drain", "next", "write", "select"}, Undisturbed(cur)
                   PROVE  StreamInv'
        BY <1>0, <1>12 DEF StreamInv
      <3>1. \E e \in Nat : Follows(t, r, e, Out(i), i)
        BY <1>6, <1>11
      <3>2. doneCh'[cur'] = <<>> /\ buffer'[cur'] = t
        BY <1>0, <1>14, <2>1
      <3> QED BY <1>0, <1>5, <1>10, <1>11, <3>1, <3>2 DEF StreamInv
    <2> QED BY <1>8, <1>9, <2>2, <2>3, <2>4 DEF SessionInv
  <1> QED BY <1>5, <1>13, <1>14

LEMMA ReadErrorKeeps ==
    ASSUME ReaderInv, SessionInv, NEW i \in Index, ReadError(i)
    PROVE  SessionInv'
  <1>0. /\ errCh' = [errCh EXCEPT ![i] = Append(@, "EOF")]
        /\ reader' = [reader EXCEPT ![i] = "ended"]
        /\ UNCHANGED <<family, pc, cur, conn, stdin, wire, buffer, doneCh, results, printed>>
    BY DEF ReadError
  <1>1. /\ errCh \in [Index -> Seq({"EOF"})] /\ errCh[i] \in Seq({"EOF"})
        /\ reader \in [Index -> {"none", "reading", "ended"}]
    BY DEF SessionInv, TypeOK
  <1>2. Append(errCh[i], "EOF") \in Seq({"EOF"})
    BY <1>1, AppendProperties
  <1>3. errCh' \in [Index -> Seq({"EOF"})] /\ reader' \in [Index -> {"none", "reading", "ended"}]
        /\ \A j \in Index : reader'[j] = "none" => reader[j] = "none"
    BY <1>0, <1>1, <1>2
  <1>4. TypeOK'
    BY <1>0, <1>3 DEF SessionInv, TypeOK
  <1>5. ChannelInv'
    BY <1>0, <1>3 DEF SessionInv, ChannelInv, Complete, StartsAt, PromptsAt, IsEscape
  <1>6. OrderInv' /\ CallerInv'
    BY <1>0 DEF SessionInv, OrderInv, CallerInv
  <1>7. StreamInv'
    <2>1. Out(cur)' = Out(cur) /\ (Undisturbed(cur)' => Undisturbed(cur))
      BY <1>0 DEF Out, Output, Body, Undisturbed, Misleading
    <2> QED BY <1>0, <2>1 DEF SessionInv, StreamInv
  <1>8. ResultInv'
    BY <1>0 DEF SessionInv, ResultInv, Answered, Undisturbed, LooksEnded, Escaped, Misleading, Body
  <1> QED BY <1>4, <1>5, <1>6, <1>7, <1>8 DEF SessionInv

LEMMA AnswerKeeps ==
    ASSUME ReaderInv, SessionInv, Answer
    PROVE  SessionInv'
  <1> DEFINE h == Head(stdin)
  <1>0. /\ stdin # <<>> /\ stdin' = Tail(stdin)
        /\ UNCHANGED <<family, pc, cur, conn, reader, buffer, doneCh, errCh, results>>
    BY DEF Answer
  <1>1. /\ stdin \in Seq(Index) /\ printed \in [Index -> Seq(Bodies)] /\ wire \in Seq(Piece)
        /\ buffer \in [Index -> Seq(Piece)]
    BY DEF SessionInv, TypeOK
  <1> PICK b \in Bodies : wire' = wire \o Output(h, b) /\ printed' = [printed EXCEPT ![h] = <<b>>]
    BY DEF Answer
  <1>2. /\ h \in Index /\ h = stdin[1] /\ Len(stdin) \in Nat /\ 1 \in 1..Len(stdin)
        /\ stdin' \in Seq(Index) /\ Len(stdin') = Len(stdin) - 1
        /\ \A n \in 1..Len(stdin') : stdin'[n] = stdin[n + 1] /\ n + 1 \in 1..Len(stdin) /\ n + 1 # 1
    <2>1. Len(stdin) \in Nat \ {0}
      BY <1>0, <1>1, EmptySeq
    <2>2. /\ h \in Index /\ Tail(stdin) \in Seq(Index) /\ Len(Tail(stdin)) = Len(stdin) - 1
          /\ \A n \in 1..Len(Tail(stdin)) : Tail(stdin)[n] = stdin[n + 1]
      BY <1>0, <1>1, HeadTailProperties
    <2>3. h = stdin[1]
      BY <1>0, <1>1
    <2>4. \A n \in 1..Len(stdin') : n + 1 \in 1..Len(stdin) /\ n + 1 # 1
      BY <1>0, <2>1, <2>2
    <2> QED BY <1>0, <2>1, <2>2, <2>3, <2>4
  <1>3. /\ \A n \in 1..Len(stdin) : stdin[n] <= cur /\ printed[stdin[n]] = <<>>
        /\ \A m, n \in 1..Len(stdin) : stdin[m] = stdin[n] => m = n
        /\ \A i \in Index : printed[i] # <<>> => i <= cur /\ Len(printed[i]) = 1
        /\ pc # "dial"
        /\ pc \in {"next", "write"} =>
             /\ \A n \in 1..Len(stdin) : stdin[n] < cur
             /\ \A i \in Index : printed[i] # <<>> => i < cur
    BY <1>0 DEF SessionInv, OrderInv
  <1> HIDE DEF h
  <1>4. /\ printed' \in [Index -> Seq(Bodies)] /\ printed'[h] = <<b>> /\ printed[h] = <<>>
        /\ \A i \in Index : i # h => printed'[i] = printed[i]
        /\ h <= cur /\ (pc \in {"next", "write"} => h < cur)
    <2>1. <<b>> \in Seq(Bodies)
      OBVIOUS
    <2> QED BY <1>1, <1>2, <1>3, <2>1
  <1>5. \A n \in 1..Len(stdin') : stdin'[n] \in Index /\ stdin'[n] # h
    <2>1. \A n \in 1..Len(stdin') : stdin'[n] \in Index
      BY <1>2, ElementOfSeq
    <2> QED BY <1>2, <1>3, <2>1
  <1>6. Output(h, b) \in Seq(Piece)
    BY <1>2, OutputIs
  <1>7. /\ wire' \in Seq(Piece) /\ Len(wire') = Len(wire) + Len(Output(h, b))
        /\ Len(wire) \in Nat /\ Len(Output(h, b)) \in Nat
        /\ \A n \in 1..Len(wire) : wire'[n] = wire[n]
        /\ \A n \in 1..Len(Output(h, b)) : wire'[Len(wire) + n] = Output(h, b)[n]
    BY <1>1, <1>6, Joined, LenProperties
  <1>8. TypeOK'
    BY <1>0, <1>2, <1>4, <1>7 DEF SessionInv, TypeOK
  <1>9. ChannelInv' /\ CallerInv'
    BY <1>0 DEF SessionInv, ChannelInv, CallerInv, Complete, StartsAt, PromptsAt, IsEscape
  <1>10. OrderInv'
    <2>1. ASSUME NEW n \in 1..Len(stdin')
          PROVE  stdin'[n] <= cur /\ printed'[stdin'[n]] = <<>>
      <3>1. stdin'[n] = stdin[n + 1] /\ n + 1 \in 1..Len(stdin)
        BY <1>2
      <3>2. stdin'[n] <= cur /\ printed[stdin'[n]] = <<>>
        BY <1>3, <3>1
      <3>3. printed'[stdin'[n]] = printed[stdin'[n]]
        BY <1>4, <1>5
      <3> QED BY <3>2, <3>3
    <2>2. \A m, n \in 1..Len(stdin') : stdin'[m] = stdin'[n] => m = n
      BY <1>2, <1>3
    <2>3. \A i \in Index : printed'[i] # <<>> => i <= cur /\ Len(printed'[i]) = 1
      BY <1>3, <1>4
    <2>4. pc \in {"next", "write"} =>
             /\ \A n \in 1..Len(stdin') : stdin'[n] < cur
             /\ \A i \in Index : printed'[i] # <<>> => i < cur
      BY <1>2, <1>3, <1>4
    <2> QED BY <1>0, <1>3, <2>1, <2>2, <2>3, <2>4 DEF OrderInv
  <1>11. \A i \in 0..(Commands + 1) : Undisturbed(i)' => Undisturbed(i)
    <2> SUFFICES ASSUME NEW i \in 0..(Commands + 1), Undisturbed(i)', NEW j \in 0..(i - 1),
                        printed[j] # <<>>
                 PROVE  ~Misleading(Head(printed[j]))
      BY DEF Undisturbed
    <2>1. j \in Index
      BY SessionAssumption DEF Index, SessionAssumption
    <2>2. j # h /\ printed'[j] = printed[j]
      BY <1>4, <2>1
    <2> QED BY <2>2 DEF Undisturbed, Misleading
  <1>12. StreamInv'
    <2> SUFFICES ASSUME pc \in {"drain", "next", "write", "select"}, cur \in Index, Undisturbed(cur)'
                 PROVE  StreamInv'
      BY <1>0 DEF StreamInv, Undisturbed, Misleading
    <2>1. cur \in 0..(Commands + 1) /\ Undisturbed(cur)
      BY <1>0, <1>11 DEF SessionInv, TypeOK, Undisturbed, Misleading
    <2>2. /\ stdin = <<cur>> /\ pc = "select"
          /\ doneCh[cur] = <<>> => \E d \in Nat : Follows(buffer[cur], wire, d, Out(cur), cur)
          /\ doneCh[cur] # <<>> => printed[cur] # <<>>
      BY <1>0, <2>1 DEF SessionInv, StreamInv
    <2>3. h = cur /\ stdin' = <<>> /\ printed[cur] = <<>> /\ doneCh[cur] = <<>>
      <3>1. stdin' = <<>> /\ h = cur
        BY <1>0, <2>2 DEF h
      <3> QED BY <1>4, <2>2, <3>1
    <2>4. PICK d \in Nat : Follows(buffer[cur], wire, d, <<>>, cur)
      BY <2>2, <2>3 DEF Out
    <2> DEFINE v == buffer[cur]
               o == Output(cur, b)
               e == Len(v) + Len(wire)
    <2>5. v \in Seq(Piece) /\ Len(v) \in Nat /\ e \in Nat
      BY <1>1, <1>7, LenProperties
    <2>6. Out(cur)' = o
      BY <1>0, <1>4, <2>3 DEF Out, Output, Body
    <2>7. /\ \A n \in 1..Len(v) : Leftover(v[n], cur)
          /\ \A n \in 1..Len(wire) : Leftover(wire[n], cur)
      <3>1. Len(<<>>) = 0 /\ \A n \in Nat : ~(n <= d) => ~(n - d <= 0)
        OBVIOUS
      <3>2. \A n \in 1..Len(v) : Leftover(v[n], cur)
        BY <2>4, <2>5, <3>1 DEF Follows, Placed
      <3>3. ASSUME NEW n \in 1..Len(wire) PROVE Leftover(wire[n], cur)
        <4>1. Len(v) + n \in Nat
          BY <1>7, <2>5
        <4>2. Placed(wire[n], Len(v) + n, d, <<>>, cur)
          BY <2>4 DEF Follows
        <4> QED BY <3>1, <4>1, <4>2 DEF Placed
      <3> QED BY <3>2, <3>3
    <2>8. /\ wire' = wire \o o /\ Len(wire') = Len(wire) + Len(o) /\ Len(o) \in Nat
          /\ \A n \in 1..Len(wire) : wire'[n] = wire[n]
          /\ \A n \in 1..Len(o) : wire'[Len(wire) + n] = o[n]
      BY <1>7, <2>3
    <2> HIDE DEF v, o
    <2>9. Follows(v, wire', e, o, cur)
      <3>1. ASSUME NEW n \in 1..Len(v) PROVE Placed(v[n], n, e, o, cur)
        <4>1. n <= e
          BY <1>7, <2>5
        <4> QED BY <2>7, <4>1 DEF Placed
      <3>2. ASSUME NEW n \in 1..Len(wire') PROVE Placed(wire'[n], Len(v) + n, e, o, cur)
        <4>1. CASE n \in 1..Len(wire)
          <5>1. Len(v) + n <= e /\ wire'[n] = wire[n]
            BY <1>7, <2>5, <2>8, <4>1
          <5> QED BY <2>7, <4>1, <5>1 DEF Placed
        <4>2. CASE n \notin 1..Len(wire)
          <5>1. /\ n - Len(wire) \in 1..Len(o) /\ Len(wire) + (n - Len(wire)) = n
                /\ ~(Len(v) + n <= e) /\ Len(v) + n - e = n - Len(wire) /\ n - Len(wire) <= Len(o)
            BY <1>7, <2>5, <2>8, <4>2
          <5>2. wire'[n] = o[n - Len(wire)]
            BY <2>8, <5>1
          <5> QED BY <5>1, <5>2 DEF Placed
        <4> QED BY <4>1, <4>2
      <3> QED BY <3>1, <3>2 DEF Follows
    <2> HIDE DEF e
    <2> QED BY <1>0, <2>3, <2>5, <2>6, <2>9 DEF StreamInv, v
  <1>13. ResultInv'
    <2> SUFFICES ASSUME NEW i \in 1..Commands, results[i] # <<>>, Undisturbed(i)'
                 PROVE  Answered(i)'
      BY <1>0 DEF ResultInv
    <2>1. i \in Index /\ i \in 0..(Commands + 1)
      BY SessionAssumption DEF Index, SessionAssumption
    <2>2. Answered(i)
      BY <1>11, <2>1 DEF SessionInv, ResultInv
    <2>3. printed'[i] = printed[i]
      BY <1>4, <2>1, <2>2 DEF Answered
    <2> QED BY <1>0, <2>2, <2>3 DEF Answered, LooksEnded, Body
  <1> QED BY <1>8, <1>9, <1>10, <1>12, <1>13 DEF SessionInv

LEMMA LoseConnectionKeeps ==
    ASSUME SessionInv, LoseConnection
    PROVE  SessionInv'
  <1>0. /\ conn' = "down"
        /\ UNCHANGED <<family, pc, cur, stdin, reader, buffer, doneCh, errCh, results, printed>>
    BY DEF LoseConnection
  <1>1. wire \in Seq(Piece) /\ doneCh \in [Index -> Seq(Seq(Piece))] /\ buffer \in [Index -> Seq(Piece)]
    BY DEF SessionInv, TypeOK
  <1> PICK k \in 0..Len(wire) : wire' = SubSeq(wire, 1, k)
    BY DEF LoseConnection
  <1>2. wire' \in Seq(Piece)
    BY <1>1, Front
  <1>3. TypeOK'
    BY <1>0, <1>2 DEF SessionInv, TypeOK
  <1>4. ChannelInv' /\ OrderInv' /\ CallerInv'
    BY <1>0 DEF SessionInv, ChannelInv, OrderInv, CallerInv, Complete, StartsAt, PromptsAt, IsEscape
  <1>5. StreamInv'
    <2> SUFFICES ASSUME pc \in {"drain", "next", "write", "select"}, cur \in Index, Undisturbed(cur)
                 PROVE  StreamInv'
      BY <1>0 DEF StreamInv, Undisturbed, Misleading
    <2>1. /\ stdin = <<>> \/ (stdin = <<cur>> /\ pc = "select")
          /\ doneCh[cur] = <<>> => \E d \in Nat : Follows(buffer[cur], wire, d, Out(cur), cur)
          /\ doneCh[cur] # <<>> =>
               printed[cur] # <<>> /\ Follows(Head(doneCh[cur]), wire, 0, Out(cur), cur)
      BY DEF SessionInv, StreamInv
    <2>2. Out(cur)' = Out(cur)
      BY <1>0 DEF Out, Output, Body
    <2>3. CASE doneCh[cur] = <<>>
      <3>1. PICK d \in Nat : Follows(buffer[cur], wire, d, Out(cur), cur)
        BY <2>1, <2>3
      <3>2. buffer[cur] \in Seq(Piece)
        BY <1>1
      <3>3. Follows(buffer[cur], wire', d, Out(cur), cur)
        BY <1>1, <3>1, <3>2, Kept
      <3> QED BY <1>0, <2>1, <2>2, <2>3, <3>3 DEF StreamInv
    <2>4. CASE doneCh[cur] # <<>>
      <3>1. doneCh[cur] \in Seq(Seq(Piece))
        BY <1>1
      <3>2. Head(doneCh[cur]) \in Seq(Piece)
        BY <2>4, <3>1, HeadTailProperties
      <3>3. Follows(Head(doneCh[cur]), wire', 0, Out(cur), cur)
        BY <1>1, <2>1, <2>4, <3>2, Kept
      <3> QED BY <1>0, <2>1, <2>2, <2>4, <3>3 DEF StreamInv
    <2> QED BY <2>3, <2>4
  <1>6. ResultInv'
    BY <1>0 DEF SessionInv, ResultInv, Answered, Undisturbed, LooksEnded, Escaped, Misleading, Body
  <1> QED BY <1>3, <1>4, <1>5, <1>6 DEF SessionInv

LEMMA NothingKeeps == SessionInv /\ UNCHANGED vars => SessionInv'
  <1> SUFFICES ASSUME SessionInv, UNCHANGED vars PROVE SessionInv'
    OBVIOUS
  <1>1. TypeOK'
    BY DEF SessionInv, TypeOK, vars
  <1>2. ChannelInv' /\ OrderInv' /\ CallerInv'
    BY DEF SessionInv, ChannelInv, OrderInv, CallerInv, Complete, StartsAt, PromptsAt, IsEscape, vars
  <1>3. StreamInv'
    <2>1. Out(cur)' = Out(cur) /\ (Undisturbed(cur)' => Undisturbed(cur))
      BY DEF Out, Output, Body, Undisturbed, Misleading, vars
    <2> QED BY <2>1 DEF SessionInv, StreamInv, vars
  <1>4. ResultInv'
    BY DEF SessionInv, ResultInv, Answered, Undisturbed, LooksEnded, Escaped, Misleading, Body, vars
  <1> QED BY <1>1, <1>2, <1>3, <1>4 DEF SessionInv

LEMMA SessionInvInit == Init => SessionInv
  <1> SUFFICES ASSUME Init PROVE SessionInv
    OBVIOUS
  <1>1. Commands \in Nat /\ Index = 0..Commands
    BY SessionAssumption DEF SessionAssumption, Index
  <1>2. TypeOK
    BY <1>1 DEF Init, TypeOK
  <1>3. CallerInv /\ ChannelInv /\ OrderInv /\ StreamInv /\ ResultInv
    <2>1. Len(<<>>) = 0
      OBVIOUS
    <2>2. \A i \in 1..Commands : i \in Index
      BY <1>1
    <2> QED BY <2>1, <2>2 DEF Init, CallerInv, ChannelInv, OrderInv, StreamInv, ResultInv
  <1> QED BY <1>2, <1>3 DEF SessionInv

LEMMA SessionInvStep == ReaderInv /\ SessionInv /\ [Next]_vars => SessionInv'
  <1> SUFFICES ASSUME ReaderInv, SessionInv, [Next]_vars PROVE SessionInv'
    OBVIOUS
  <1>1. CASE Caller
    BY <1>1, DialKeeps, StartReaderKeeps, WriteCommandKeeps, TakeDoneKeeps, SlicePanicsKeeps,
       LeavingKeeps DEF Caller, Waits
  <1>2. ASSUME NEW i \in Index, Reader(i) PROVE SessionInv'
    BY <1>2, ReadKeeps, ReadErrorKeeps DEF Reader
  <1>3. CASE Answer \/ LoseConnection
    BY <1>3, AnswerKeeps, LoseConnectionKeeps
  <1>4. CASE UNCHANGED vars
    BY <1>4, NothingKeeps
  <1> QED BY <1>1, <1>2, <1>3, <1>4 DEF Next, Over

LEMMA SessionInvAlways == Spec => [](ReaderInv /\ SessionInv)
  <1>1. Init => ReaderInv
    BY SessionAssumption DEF Init, ReaderInv, ReaderType, Index
  <1> QED BY <1>1, SessionInvInit, ReaderInvInductive, SessionInvStep, PTL DEF Spec

\* The caller, the goroutines, the buffers and the channels only ever are in states
\* they can be in, whatever is printed and wherever the reads end.
THEOREM TypeCorrect == Spec => []TypeOK
  <1>1. SessionInv => TypeOK
    BY DEF SessionInv
  <1> QED BY <1>1, SessionInvAlways, PTL

\* A result holds no output of another command, for any number of commands, any
\* output and any cut of the stream into reads, as long as nothing printed before
\* holds an end and, after it, what may look like an echo (router.go:511-518).
THEOREM ResultsAreOwn == Spec => []OwnOutputOnly
  <1>1. SessionInv => OwnOutputOnly
    BY DEF SessionInv, ResultInv, Answered, OwnOutputOnly
  <1> QED BY <1>1, SessionInvAlways, PTL

\* And it is what the router printed, all of it, where that holds no end and no
\* escape of its own (router.go:512-526, 555-568).
THEOREM ResultsAreExact == Spec => []ResultExact
  <1>1. SessionInv => ResultExact
    <2> SUFFICES ASSUME SessionInv, NEW i \in 1..Commands, results[i] # <<>>, Undisturbed(i),
                        NEW n \in DOMAIN printed[i], ~LooksEnded(printed[i][n]), ~Escaped(printed[i][n])
                 PROVE  Head(results[i]) = Body(i, printed[i][n])
      BY DEF ResultExact
    <2>1. i \in Index
      BY SessionAssumption DEF Index, SessionAssumption
    <2>2. Answered(i) /\ printed[i] \in Seq(Bodies) /\ Len(printed[i]) = 1
      BY <2>1 DEF SessionInv, ResultInv, Answered, TypeOK, OrderInv
    <2>3. n = 1 /\ Head(printed[i]) = printed[i][n]
      <3>1. DOMAIN printed[i] = 1..1 /\ Head(printed[i]) = printed[i][1]
        BY <2>2, LenProperties
      <3>2. n = 1
        BY <3>1
      <3> QED BY <3>1, <3>2
    <2> QED BY <2>2, <2>3 DEF Answered
  <1> QED BY <1>1, SessionInvAlways, PTL
=============================================================================
