-------------------------- MODULE RefindConfProofs --------------------------
(***************************************************************************)
(* Theorems of RefindConf, for texts of every length, any number of edits  *)
(* and of installations.                                                   *)
(***************************************************************************)
EXTENDS RefindConf, Integers, TLAPS, SequenceTheorems, FiniteSetTheorems,
        WellFoundedInduction

Texts == Seq(Lines)

-----------------------------------------------------------------------------
(* Induction over natural numbers, by the smallest counterexample.         *)

LEMMA Smallest ==
    ASSUME NEW T, T \subseteq Nat, T # {}
    PROVE  \E m \in T : \A n \in T : m <= n
  <1>1. \E R : IsWellFoundedOn(R, Nat) /\ \A x, y \in Nat : y < x => <<y, x>> \in R
    <2>1. IsWellFoundedOn(OpToRel(<, Nat), Nat)
      BY NatLessThanWellFounded
    <2>2. \A x \in Nat, y \in Nat : y < x => <<y, x>> \in OpToRel(<, Nat)
      BY DEF OpToRel
    <2> QED BY <2>1, <2>2, Zenon
  <1>2. PICK R : IsWellFoundedOn(R, Nat) /\ \A x, y \in Nat : y < x => <<y, x>> \in R
    BY <1>1
  <1>3. PICK m \in T : \A n \in T : ~(<<n, m>> \in R)
    BY <1>2, WFMin
  <1>4. \A n \in T : m \in Nat /\ n \in Nat /\ ~(n < m)
    BY <1>2, <1>3, Zenon
  <1>5. \A n \in T : m <= n
    BY <1>4
  <1> QED BY <1>5

\* A set of numbers that holds 0 and with every number the next one holds them all.
LEMMA AllNumbers ==
    ASSUME NEW P, 0 \in P, \A n \in Nat : n \in P => n + 1 \in P
    PROVE  Nat \subseteq P
  <1> SUFFICES ASSUME Nat \ P # {} PROVE FALSE
    OBVIOUS
  <1>1. PICK m \in Nat \ P : \A n \in Nat \ P : m <= n
    BY Smallest
  <1>2. m # 0 /\ m - 1 \in Nat
    BY <1>1
  <1>3. m - 1 \in P
    BY <1>1, <1>2
  <1>4. (m - 1) + 1 \in P
    BY <1>2, <1>3
  <1> QED BY <1>1, <1>2, <1>4

\* A set of texts that holds the empty one and with every text its extensions by a line.
LEMMA AllTexts ==
    ASSUME NEW P, <<>> \in P,
           \A t \in Texts, line \in Lines : t \in P => Append(t, line) \in P
    PROVE  Texts \subseteq P
  <1> DEFINE N == {n \in Nat : \A t \in Texts : Len(t) = n => t \in P}
  <1>1. 0 \in N
    BY EmptySeq DEF Texts
  <1>2. ASSUME NEW n \in Nat, n \in N PROVE n + 1 \in N
    <2> SUFFICES ASSUME NEW t \in Texts, Len(t) = n + 1 PROVE t \in P
      OBVIOUS
    <2>1. t # <<>>
      BY EmptySeq
    <2>2. PICK s \in Texts, line \in Lines : t = Append(s, line)
      BY <2>1, SequenceEmptyOrAppend DEF Texts
    <2>3. Len(s) = n
      BY <2>2, AppendProperties, LenProperties DEF Texts
    <2> QED BY <1>2, <2>2, <2>3
  <1> HIDE DEF N
  <1>3. Nat \subseteq N
    BY <1>1, <1>2, AllNumbers
  <1> QED BY <1>3, LenProperties DEF N, Texts

-----------------------------------------------------------------------------
(* Kept: the recursion is well defined.                                    *)

\* f is the recursion of Kept on the first n lines of t.
Keeps(t, lines, n, f) ==
    /\ f[0] = <<>>
    /\ \A i \in 1 .. n :
         f[i] = IF t[i] \in lines THEN Append(f[i - 1], t[i]) ELSE f[i - 1]

LEMMA KeepsExists ==
    ASSUME NEW t \in Texts, NEW lines, NEW n \in 0 .. Len(t)
    PROVE  \E f \in [0 .. n -> Texts] : Keeps(t, lines, n, f)
  <1> DEFINE N == {m \in Nat : m <= Len(t) => \E f \in [0 .. m -> Texts] : Keeps(t, lines, m, f)}
  <1>1. 0 \in N
    <2> DEFINE f == [i \in 0 .. 0 |-> <<>>]
    <2>1. f \in [0 .. 0 -> Texts] /\ f[0] = <<>>
      BY EmptySeq DEF Texts
    <2>2. Keeps(t, lines, 0, f)
      BY <2>1 DEF Keeps
    <2> QED BY <2>1, <2>2
  <1>2. ASSUME NEW m \in Nat, m \in N PROVE m + 1 \in N
    <2> SUFFICES ASSUME m + 1 <= Len(t) 
                    PROVE  \E g \in [0 .. m + 1 -> Texts] : Keeps(t, lines, m + 1, g)
      OBVIOUS
    <2>1. Len(t) \in Nat
      BY LenProperties DEF Texts
    <2>2. PICK f \in [0 .. m -> Texts] : Keeps(t, lines, m, f)
      BY <1>2, <2>1
    <2>3. t[m + 1] \in Lines
      BY <2>1, ElementOfSeq DEF Texts
    <2> DEFINE last == IF t[m + 1] \in lines THEN Append(f[m], t[m + 1]) ELSE f[m]
               g == [i \in 0 .. m + 1 |-> IF i = m + 1 THEN last ELSE f[i]]
    <2>4. last \in Texts
      BY <2>2, <2>3, AppendProperties DEF Keeps, Texts
    <2> HIDE DEF last
    <2>5. g \in [0 .. m + 1 -> Texts] /\ g[0] = <<>>
      BY <2>2, <2>4 DEF Keeps
    <2>6. \A i \in 1 .. m : g[i] = f[i] /\ g[i - 1] = f[i - 1]
      OBVIOUS
    <2>7. g[m + 1] = last /\ g[m] = f[m]
      OBVIOUS
    <2> HIDE DEF g
    <2>8. \A i \in 1 .. m + 1 :
            g[i] = IF t[i] \in lines THEN Append(g[i - 1], t[i]) ELSE g[i - 1]
      BY <2>2, <2>6, <2>7 DEF Keeps, last
    <2> QED BY <2>5, <2>8 DEF Keeps
  <1> HIDE DEF N
  <1>3. n \in N /\ n <= Len(t)
    BY <1>1, <1>2, AllNumbers, LenProperties DEF Texts
  <1> QED BY <1>3 DEF N

LEMMA KeepsSame ==
    ASSUME NEW s, NEW t, NEW lines, NEW n \in Nat, NEW f, NEW g,
           Keeps(s, lines, n, f), Keeps(t, lines, n, g),
           \A i \in 1 .. n : s[i] = t[i]
    PROVE  \A i \in 0 .. n : f[i] = g[i]
  <1> DEFINE N == {m \in Nat : m <= n => f[m] = g[m]}
  <1>1. 0 \in N
    BY DEF Keeps
  <1>2. ASSUME NEW m \in Nat, m \in N PROVE m + 1 \in N
    <2> SUFFICES ASSUME m + 1 <= n PROVE f[m + 1] = g[m + 1]
      OBVIOUS
    <2>1. f[m] = g[m] /\ m + 1 \in 1 .. n /\ (m + 1) - 1 = m
      BY <1>2
    <2> QED BY <2>1 DEF Keeps
  <1> HIDE DEF N
  <1>3. Nat \subseteq N
    BY <1>1, <1>2, AllNumbers
  <1> QED BY <1>3 DEF N

LEMMA KeepsWhole ==
    ASSUME NEW t \in Texts, NEW lines
    PROVE  \E f \in [0 .. Len(t) -> Texts] : Keeps(t, lines, Len(t), f)
  <1>1. Len(t) \in 0 .. Len(t)
    BY LenProperties DEF Texts
  <1> QED BY <1>1, KeepsExists, Zenon

LEMMA KeptByRecursion ==
    ASSUME NEW t \in Texts, NEW lines, NEW f, Keeps(t, lines, Len(t), f)
    PROVE  Kept(t, lines) = f[Len(t)]
  <1> DEFINE Rec(h) == h = [n \in 0 .. Len(t) |->
                              IF n = 0 THEN <<>>
                              ELSE IF t[n] \in lines THEN Append(h[n - 1], t[n])
                                   ELSE h[n - 1]]
  <1>1. Len(t) \in Nat
    BY LenProperties DEF Texts
  <1>2. PICK g \in [0 .. Len(t) -> Texts] : Keeps(t, lines, Len(t), g)
    BY KeepsWhole
  <1>3. Rec(g)
    <2> DEFINE k == [n \in 0 .. Len(t) |->
                       IF n = 0 THEN <<>>
                       ELSE IF t[n] \in lines THEN Append(g[n - 1], t[n]) ELSE g[n - 1]]
    <2>1. ASSUME NEW n \in 0 .. Len(t) PROVE g[n] = k[n]
      <3>1. CASE n = 0
        BY <1>2, <3>1 DEF Keeps
      <3>2. CASE n \in 1 .. Len(t)
        <4>1. g[n] = IF t[n] \in lines THEN Append(g[n - 1], t[n]) ELSE g[n - 1]
          BY <1>2, <3>2 DEF Keeps
        <4> QED BY <3>2, <4>1
      <3> QED BY <1>1, <3>1, <3>2
    <2>2. DOMAIN k = 0 .. Len(t) /\ k = [n \in 0 .. Len(t) |-> k[n]]
      OBVIOUS
    <2> HIDE DEF k
    <2>3. g = k
      BY <1>2, <2>1, <2>2
    <2> QED BY <2>3 DEF k
  <1>4. PICK h : h = (CHOOSE k : Rec(k)) /\ Rec(h)
    BY <1>3
  <1>5. Kept(t, lines) = h[Len(t)]
    BY <1>4 DEF Kept
  <1>6. Keeps(t, lines, Len(t), h)
    <2>1. 0 \in 0 .. Len(t) /\ \A n \in 1 .. Len(t) : n \in 0 .. Len(t) /\ n # 0
      BY <1>1
    <2>2. \A n \in 0 .. Len(t) :
            h[n] = IF n = 0 THEN <<>>
                   ELSE IF t[n] \in lines THEN Append(h[n - 1], t[n]) ELSE h[n - 1]
      BY <1>4
    <2> QED BY <2>1, <2>2 DEF Keeps
  <1>7. Len(t) \in 0 .. Len(t)
    BY <1>1
  <1> QED BY <1>1, <1>5, <1>6, <1>7, KeepsSame

-----------------------------------------------------------------------------
(* What Kept returns.                                                      *)

LEMMA KeptNone == ASSUME NEW lines PROVE Kept(<<>>, lines) = <<>>
  <1> DEFINE t == <<>>
  <1>1. t \in Texts /\ Len(t) = 0
    BY EmptySeq DEF Texts
  <1> HIDE DEF t
  <1>2. PICK f \in [0 .. Len(t) -> Texts] : Keeps(t, lines, Len(t), f)
    BY <1>1, KeepsWhole
  <1>3. Kept(t, lines) = f[Len(t)] /\ f[0] = <<>>
    BY <1>1, <1>2, KeptByRecursion DEF Keeps
  <1> QED BY <1>1, <1>3 DEF t

LEMMA KeptAppend ==
    ASSUME NEW t \in Texts, NEW line \in Lines, NEW lines
    PROVE  Kept(Append(t, line), lines) =
             IF line \in lines THEN Append(Kept(t, lines), line) ELSE Kept(t, lines)
  <1> DEFINE u == Append(t, line)
  <1>1. /\ Len(t) \in Nat /\ u \in Texts /\ Len(u) = Len(t) + 1 /\ u[Len(t) + 1] = line
        /\ \A i \in 1 .. Len(t) : u[i] = t[i]
    BY AppendProperties, LenProperties DEF Texts
  <1> HIDE DEF u
  <1>2. PICK f \in [0 .. Len(u) -> Texts] : Keeps(u, lines, Len(u), f)
    BY <1>1, KeepsWhole
  <1>3. Keeps(t, lines, Len(t), f)
    BY <1>1, <1>2 DEF Keeps
  <1>4. Kept(u, lines) = f[Len(u)] /\ Kept(t, lines) = f[Len(t)]
    BY <1>1, <1>2, <1>3, KeptByRecursion
  <1>5. Len(u) \in 1 .. Len(u) /\ Len(u) - 1 = Len(t) /\ u[Len(u)] = line
    BY <1>1
  <1>6. Kept(u, lines) = IF line \in lines THEN Append(f[Len(t)], line) ELSE f[Len(t)]
    BY <1>2, <1>4, <1>5 DEF Keeps
  <1> QED BY <1>4, <1>6 DEF u

LEMMA AppendInSeq ==
    ASSUME NEW S, NEW t \in Texts, NEW line \in Lines, Append(t, line) \in Seq(S)
    PROVE  t \in Seq(S) /\ line \in S
  <1> DEFINE u == Append(t, line)
  <1>1. /\ u \in Seq(S) /\ Len(t) \in Nat /\ Len(u) = Len(t) + 1 /\ u[Len(t) + 1] = line
        /\ \A i \in 1 .. Len(t) : u[i] = t[i]
    BY AppendProperties, LenProperties DEF Texts
  <1> HIDE DEF u
  <1>2. \A i \in 1 .. Len(u) : u[i] \in S
    BY <1>1, ElementOfSeq
  <1>3. \A i \in 1 .. Len(t) : t[i] \in S
    BY <1>1, <1>2
  <1>4. SubSeq(t, 1, Len(t)) \in Seq(S)
    BY <1>1, <1>3, SubSeqProperties
  <1> QED BY <1>1, <1>2, <1>4, SubSeqFull DEF Texts

LEMMA KeptType ==
    ASSUME NEW S, S \subseteq Lines, NEW t \in Seq(S), NEW lines
    PROVE  Kept(t, lines) \in Seq(S \cap lines)
  <1> DEFINE P == {s \in Texts : s \in Seq(S) => Kept(s, lines) \in Seq(S \cap lines)}
  <1>1. <<>> \in P
    BY KeptNone, EmptySeq DEF Texts
  <1>2. ASSUME NEW s \in Texts, NEW line \in Lines, s \in P
        PROVE  Append(s, line) \in P
    <2>1. Append(s, line) \in Texts
      BY AppendProperties DEF Texts
    <2>2. ASSUME Append(s, line) \in Seq(S)
          PROVE  Kept(Append(s, line), lines) \in Seq(S \cap lines)
      <3>1. s \in Seq(S) /\ line \in S
        BY <2>2, AppendInSeq
      <3>2. Kept(s, lines) \in Seq(S \cap lines)
        BY <1>2, <3>1
      <3>3. line \in lines => Append(Kept(s, lines), line) \in Seq(S \cap lines)
        BY <3>1, <3>2, AppendProperties
      <3> QED BY <3>2, <3>3, KeptAppend
    <2> QED BY <2>1, <2>2
  <1> HIDE DEF P
  <1>3. t \in P
    BY <1>1, <1>2, AllTexts, SeqMonotonic DEF Texts
  <1> QED BY <1>3 DEF P

LEMMA KeptText == ASSUME NEW t \in Texts, NEW lines PROVE Kept(t, lines) \in Texts
  <1>1. Kept(t, lines) \in Seq(Lines \cap lines) /\ Lines \cap lines \subseteq Lines
    BY KeptType DEF Texts
  <1> QED BY <1>1, SeqMonotonic DEF Texts

LEMMA KeptConcat ==
    ASSUME NEW s \in Texts, NEW t \in Texts, NEW lines
    PROVE  Kept(s \o t, lines) = Kept(s, lines) \o Kept(t, lines)
  <1> DEFINE P == {u \in Texts : Kept(s \o u, lines) = Kept(s, lines) \o Kept(u, lines)}
  <1>1. <<>> \in P
    BY KeptNone, KeptText, EmptySeq, ConcatEmptySeq DEF Texts
  <1>2. ASSUME NEW u \in Texts, NEW line \in Lines, u \in P
        PROVE  Append(u, line) \in P
    <2>1. /\ Append(u, line) \in Texts /\ s \o u \in Texts
          /\ s \o Append(u, line) = Append(s \o u, line)
      BY DEF Texts
    <2>2. Kept(s, lines) \in Texts /\ Kept(u, lines) \in Texts
      BY KeptText
    <2>3. Kept(s, lines) \o Append(Kept(u, lines), line)
            = Append(Kept(s, lines) \o Kept(u, lines), line)
      BY <2>2 DEF Texts
    <2>4. Kept(Append(s \o u, line), lines) =
            IF line \in lines THEN Append(Kept(s \o u, lines), line)
            ELSE Kept(s \o u, lines)
      BY <2>1, KeptAppend
    <2>5. Kept(Append(u, line), lines) =
            IF line \in lines THEN Append(Kept(u, lines), line) ELSE Kept(u, lines)
      BY KeptAppend
    <2> QED BY <1>2, <2>1, <2>3, <2>4, <2>5
  <1> HIDE DEF P
  <1>3. t \in P
    BY <1>1, <1>2, AllTexts
  <1> QED BY <1>3 DEF P

LEMMA KeptNothing ==
    ASSUME NEW t \in Texts, NEW lines, \A i \in 1 .. Len(t) : t[i] \notin lines
    PROVE  Kept(t, lines) = <<>>
  <1> DEFINE P == {s \in Texts : (\A i \in 1 .. Len(s) : s[i] \notin lines)
                                    => Kept(s, lines) = <<>>}
  <1>1. <<>> \in P
    BY KeptNone, EmptySeq DEF Texts
  <1>2. ASSUME NEW s \in Texts, NEW line \in Lines, s \in P
        PROVE  Append(s, line) \in P
    <2> DEFINE u == Append(s, line)
    <2>1. /\ u \in Texts /\ Len(s) \in Nat /\ Len(u) = Len(s) + 1 /\ u[Len(s) + 1] = line
          /\ \A i \in 1 .. Len(s) : u[i] = s[i]
      BY AppendProperties, LenProperties DEF Texts
    <2>2. Kept(u, lines) = IF line \in lines THEN Append(Kept(s, lines), line)
                           ELSE Kept(s, lines)
      BY KeptAppend
    <2> HIDE DEF u
    <2>3. ASSUME \A i \in 1 .. Len(u) : u[i] \notin lines PROVE Kept(u, lines) = <<>>
      <3>1. line \notin lines /\ \A i \in 1 .. Len(s) : s[i] \notin lines
        BY <2>1, <2>3
      <3> QED BY <1>2, <2>2, <3>1
    <2>4. u \in P
      BY <2>1, <2>3
    <2> QED BY <2>4 DEF u
  <1> HIDE DEF P
  <1>3. t \in P
    BY <1>1, <1>2, AllTexts
  <1> QED BY <1>3 DEF P

LEMMA KeptAll ==
    ASSUME NEW t \in Texts, NEW lines, \A i \in 1 .. Len(t) : t[i] \in lines
    PROVE  Kept(t, lines) = t
  <1> DEFINE P == {s \in Texts : (\A i \in 1 .. Len(s) : s[i] \in lines)
                                    => Kept(s, lines) = s}
  <1>1. <<>> \in P
    BY KeptNone, EmptySeq DEF Texts
  <1>2. ASSUME NEW s \in Texts, NEW line \in Lines, s \in P
        PROVE  Append(s, line) \in P
    <2> DEFINE u == Append(s, line)
    <2>1. /\ u \in Texts /\ Len(s) \in Nat /\ Len(u) = Len(s) + 1 /\ u[Len(s) + 1] = line
          /\ \A i \in 1 .. Len(s) : u[i] = s[i]
      BY AppendProperties, LenProperties DEF Texts
    <2>2. Kept(u, lines) = IF line \in lines THEN Append(Kept(s, lines), line)
                           ELSE Kept(s, lines)
      BY KeptAppend
    <2>3. u = Append(s, line)
      OBVIOUS
    <2> HIDE DEF u
    <2>4. ASSUME \A i \in 1 .. Len(u) : u[i] \in lines PROVE Kept(u, lines) = u
      <3>1. line \in lines /\ \A i \in 1 .. Len(s) : s[i] \in lines
        BY <2>1, <2>4
      <3> QED BY <1>2, <2>2, <2>3, <3>1
    <2>5. u \in P
      BY <2>1, <2>4
    <2> QED BY <2>5 DEF u
  <1> HIDE DEF P
  <1>3. t \in P
    BY <1>1, <1>2, AllTexts
  <1> QED BY <1>3 DEF P

LEMMA KeptTwice ==
    ASSUME NEW t \in Texts, NEW lines, NEW more, lines \subseteq more
    PROVE  Kept(Kept(t, more), lines) = Kept(t, lines)
  <1> DEFINE P == {s \in Texts : Kept(Kept(s, more), lines) = Kept(s, lines)}
  <1>1. <<>> \in P
    BY KeptNone, EmptySeq DEF Texts
  <1>2. ASSUME NEW s \in Texts, NEW line \in Lines, s \in P
        PROVE  Append(s, line) \in P
    <2>1. Append(s, line) \in Texts
      BY AppendProperties DEF Texts
    <2>2. Kept(s, more) \in Texts
      BY KeptText
    <2>3. CASE line \in more
      <3>1. Kept(Append(s, line), more) = Append(Kept(s, more), line)
        BY <2>3, KeptAppend
      <3>2. Kept(Append(Kept(s, more), line), lines) =
              IF line \in lines THEN Append(Kept(Kept(s, more), lines), line)
              ELSE Kept(Kept(s, more), lines)
        BY <2>2, KeptAppend
      <3>3. Kept(Append(s, line), lines) =
              IF line \in lines THEN Append(Kept(s, lines), line) ELSE Kept(s, lines)
        BY KeptAppend
      <3> QED BY <1>2, <2>1, <3>1, <3>2, <3>3
    <2>4. CASE line \notin more
      BY <1>2, <2>1, <2>4, KeptAppend
    <2> QED BY <2>3, <2>4
  <1> HIDE DEF P
  <1>3. t \in P
    BY <1>1, <1>2, AllTexts
  <1> QED BY <1>3 DEF P

\* A text around a line.
Joined(a, line, b) == a \o (<<line>> \o b)

\* A line is appended behind another one.
AppendsBehind(a, line, b, e) ==
    /\ Joined(a, line, b) \in Texts /\ Append(b, e) \in Texts
    /\ Append(Joined(a, line, b), e) = Joined(a, line, Append(b, e))

LEMMA AppendBehind ==
    ASSUME NEW a \in Texts, NEW b \in Texts, NEW line \in Lines, NEW e \in Lines
    PROVE  AppendsBehind(a, line, b, e)
  <1>1. /\ <<line>> \in Texts /\ <<e>> \in Texts /\ <<line>> \o b \in Texts
        /\ a \o (<<line>> \o b) \in Texts
    BY ConcatProperties DEF Texts
  <1>2. Append(b, e) \in Texts /\ Append(b, e) = b \o <<e>>
    BY AppendProperties, AppendIsConcat DEF Texts
  <1>3. Append(a \o (<<line>> \o b), e) = (a \o (<<line>> \o b)) \o <<e>>
    BY <1>1, AppendIsConcat DEF Texts
  <1>4. (a \o (<<line>> \o b)) \o <<e>> = a \o ((<<line>> \o b) \o <<e>>)
    BY <1>1, ConcatAssociative DEF Texts
  <1>5. (<<line>> \o b) \o <<e>> = <<line>> \o (b \o <<e>>)
    BY <1>1, ConcatAssociative DEF Texts
  <1> QED BY <1>1, <1>2, <1>3, <1>4, <1>5 DEF Joined, AppendsBehind

LEMMA JoinedLast ==
    ASSUME NEW a \in Texts, NEW line \in Lines
    PROVE  Joined(a, line, <<>>) = Append(a, line)
  <1>1. <<line>> \in Texts
    BY DEF Texts
  <1>2. <<line>> \o <<>> = <<line>> /\ a \o <<line>> = Append(a, line)
    BY <1>1, ConcatEmptySeq, AppendIsConcat DEF Texts
  <1> QED BY <1>2 DEF Joined

\* Where a line of Kept comes from.
LEMMA KeptSplit ==
    ASSUME NEW t \in Texts, NEW lines, NEW line \in lines, line \in Lines,
           NEW u \in Texts, NEW v \in Texts,
           Kept(t, lines) = Joined(u, line, v)
    PROVE  \E a, b \in Texts :
             t = Joined(a, line, b) /\ Kept(a, lines) = u /\ Kept(b, lines) = v
  <1> DEFINE From(s, w) == \E a, b \in Texts :
               s = Joined(a, line, b) /\ Kept(a, lines) = u /\ Kept(b, lines) = w
             P == {s \in Texts : \A w \in Texts :
                      Kept(s, lines) = Joined(u, line, w) => From(s, w)}
  <1>1. <<>> \in P
    <2>1. <<>> \in Texts /\ Kept(<<>>, lines) = <<>>
      BY KeptNone, EmptySeq DEF Texts
    <2>2. \A w \in Texts : Joined(u, line, w) # <<>>
      <3> SUFFICES ASSUME NEW w \in Texts PROVE Joined(u, line, w) # <<>>
        OBVIOUS
      <3>1. <<line>> \in Texts /\ <<line>> # <<>>
        BY DEF Texts
      <3>2. <<line>> \o w \in Texts /\ <<line>> \o w # <<>>
        BY <3>1, ConcatProperties, ConcatEqualIffEmpty DEF Texts
      <3> QED BY <3>2, ConcatEqualIffEmpty DEF Joined, Texts
    <2> QED BY <2>1, <2>2
  <1>2. ASSUME NEW s \in Texts, NEW e \in Lines, s \in P PROVE Append(s, e) \in P
    <2>1. Append(s, e) \in Texts /\ Kept(s, lines) \in Texts
      BY KeptText, AppendProperties DEF Texts
    <2>2. Kept(Append(s, e), lines) =
            IF e \in lines THEN Append(Kept(s, lines), e) ELSE Kept(s, lines)
      BY KeptAppend
    <2>3. \A a, b \in Texts :
            Append(b, e) \in Texts /\ Append(Joined(a, line, b), e) = Joined(a, line, Append(b, e))
      <3>1. \A a, b \in Texts : AppendsBehind(a, line, b, e)
        BY AppendBehind
      <3> QED BY <3>1, Zenon DEF AppendsBehind
    <2>4. \A a \in Texts : Joined(a, line, <<>>) = Append(a, line)
      BY JoinedLast
    <2>5. ASSUME NEW x \in Texts, NEW f \in Lines
          PROVE  /\ Joined(u, line, x) \in Texts
                 /\ Joined(u, line, Append(x, f)) = Append(Joined(u, line, x), f)
      <3>1. AppendsBehind(u, line, x, f)
        BY AppendBehind
      <3> QED BY <3>1, Zenon DEF AppendsBehind
    <2>6. \A b \in Texts : e \in lines => Kept(Append(b, e), lines) = Append(Kept(b, lines), e)
      BY KeptAppend
    <2>7. ASSUME NEW w \in Texts, Kept(Append(s, e), lines) = Joined(u, line, w)
          PROVE  From(Append(s, e), w)
      <3>1. CASE e \notin lines
        <4>1. PICK a, b \in Texts :
                s = Joined(a, line, b) /\ Kept(a, lines) = u /\ Kept(b, lines) = w
          BY <1>2, <2>2, <2>7, <3>1
        <4>2. Append(b, e) \in Texts /\ Append(s, e) = Joined(a, line, Append(b, e))
          BY <2>3, <4>1
        <4>3. Kept(Append(b, e), lines) = w
          BY <3>1, <4>1, KeptAppend
        <4> QED BY <4>1, <4>2, <4>3
      <3>2. CASE e \in lines /\ w = <<>>
        <4>1. Joined(u, line, w) = Append(u, line)
          BY <2>4, <3>2
        <4>2. Append(Kept(s, lines), e) = Append(u, line)
          BY <2>2, <2>7, <3>2, <4>1
        <4>3. Kept(s, lines) = u /\ e = line
          BY <2>1, <4>2, AppendInjective DEF Texts
        <4>4. <<>> \in Texts /\ Append(s, e) = Joined(s, line, <<>>)
          BY <2>4, <4>3, EmptySeq DEF Texts
        <4>5. Kept(<<>>, lines) = w
          BY <3>2, KeptNone
        <4> QED BY <4>3, <4>4, <4>5
      <3>3. CASE e \in lines /\ w # <<>>
        <4>1. PICK x \in Texts, f \in Lines : w = Append(x, f)
          BY <3>3, SequenceEmptyOrAppend DEF Texts
        <4>2. Joined(u, line, w) = Append(Joined(u, line, x), f)
              /\ Joined(u, line, x) \in Texts
          BY <2>5, <4>1
        <4>3. Kept(s, lines) = Joined(u, line, x) /\ e = f
          <5>1. Append(Kept(s, lines), e) = Append(Joined(u, line, x), f)
            BY <2>2, <2>7, <3>3, <4>2
          <5> QED BY <2>1, <4>2, <5>1, AppendInjective DEF Texts
        <4>4. PICK a, b \in Texts :
                s = Joined(a, line, b) /\ Kept(a, lines) = u /\ Kept(b, lines) = x
          BY <1>2, <4>3
        <4>5. Append(b, e) \in Texts /\ Append(s, e) = Joined(a, line, Append(b, e))
          BY <2>3, <4>4
        <4>6. Kept(Append(b, e), lines) = Append(Kept(b, lines), e)
          BY <2>6, <3>3, <4>4, Zenon
        <4>7. Kept(Append(b, e), lines) = w
          BY <4>1, <4>3, <4>4, <4>6, Zenon
        <4> QED BY <4>4, <4>5, <4>7
      <3> QED BY <3>1, <3>2, <3>3
    <2> HIDE DEF From
    <2> QED BY <2>1, <2>7
  <1>3. t \in P
    <2> HIDE DEF P
    <2> QED BY <1>1, <1>2, AllTexts
  <1> QED BY <1>3

-----------------------------------------------------------------------------
(* What RStrip and LStrip return.                                          *)

LEMMA Largest ==
    ASSUME NEW n \in Nat, NEW T, T \subseteq 1 .. n, T # {}
    PROVE  \E m \in T : \A k \in T : m >= k
  <1> DEFINE D == {d \in Nat : n - d \in T}
  <1>1. D \subseteq Nat /\ D # {}
    <2>1. PICK k \in T : TRUE
      OBVIOUS
    <2>2. n - k \in Nat /\ n - (n - k) = k
      BY <2>1
    <2>3. n - k \in D
      BY <2>1, <2>2
    <2> QED BY <2>3
  <1>2. PICK d \in D : \A e \in D : d <= e
    <2> HIDE DEF D
    <2> QED BY <1>1, Smallest
  <1>3. n - d \in T /\ \A k \in T : n - k \in D
    <2>1. \A k \in T : n - k \in Nat /\ n - (n - k) = k
      OBVIOUS
    <2> QED BY <2>1
  <1>4. \A k \in T : n - d >= k
    BY <1>2, <1>3
  <1> QED BY <1>3, <1>4

\* The trailing blank lines of t are those behind line n.
Ends(t, n) ==
    /\ n \in 0 .. Len(t)
    /\ n > 0 => t[n] # "blank"
    /\ \A i \in n + 1 .. Len(t) : t[i] = "blank"

LEMMA RStripEnds ==
    ASSUME NEW t \in Texts
    PROVE  \E n \in 0 .. Len(t) : Ends(t, n) /\ RStrip(t) = SubSeq(t, 1, n)
  <1> DEFINE I == {i \in 1 .. Len(t) : NotBlank(t[i])}
             n == IF I # {} THEN Max(I) ELSE 0
  <1>1. Len(t) \in Nat
    BY LenProperties DEF Texts
  <1>2. RStrip(t) = SubSeq(t, 1, n)
    BY DEF RStrip, SelectLastInSeq
  <1>3. CASE I = {}
    <2>1. \A i \in 1 .. Len(t) : t[i] = "blank"
      BY <1>3 DEF NotBlank
    <2> QED BY <1>1, <1>2, <1>3, <2>1 DEF Ends
  <1>4. CASE I # {}
    <2>1. \E m \in I : \A k \in I : m >= k
      BY <1>1, <1>4, Largest
    <2>2. n \in I /\ \A k \in I : n >= k
      BY <1>4, <2>1 DEF Max
    <2>3. \A i \in 1 .. Len(t) : t[i] # "blank" => i \in I
      BY DEF NotBlank
    <2>4. n \in 1 .. Len(t) /\ t[n] # "blank"
      BY <2>2 DEF NotBlank
    <2> HIDE DEF n, I
    <2>5. \A i \in n + 1 .. Len(t) : t[i] = "blank"
      BY <1>1, <2>2, <2>3, <2>4
    <2> QED BY <1>1, <1>2, <2>4, <2>5 DEF Ends
  <1> QED BY <1>3, <1>4

LEMMA LStripStarts ==
    ASSUME NEW t \in Texts
    PROVE  \E n \in 1 .. Len(t) + 1 :
             (\A i \in 1 .. n - 1 : t[i] = "blank") /\ LStrip(t) = SubSeq(t, n, Len(t))
  <1> DEFINE I == {i \in 1 .. Len(t) : NotBlank(t[i])}
             n == IF I # {} THEN Min(I) ELSE 0
  <1>1. Len(t) \in Nat /\ DOMAIN t = 1 .. Len(t)
    BY LenProperties DEF Texts
  <1>2. CASE I = {}
    <2>1. \A i \in 1 .. Len(t) : t[i] = "blank"
      BY <1>2 DEF NotBlank
    <2>2. LStrip(t) = <<>>
      BY <1>1, <2>1 DEF LStrip, NotBlank
    <2>3. SubSeq(t, Len(t) + 1, Len(t)) = <<>>
      BY <1>1, SubSeqEmpty
    <2> QED BY <1>1, <2>1, <2>2, <2>3
  <1>3. CASE I # {}
    <2>1. \E m \in I : \A k \in I : m <= k
      <3>1. I \subseteq Nat
        BY <1>1
      <3> HIDE DEF I
      <3> QED BY <1>3, <3>1, Smallest
    <2>2. n \in I /\ \A k \in I : n <= k
      BY <1>3, <2>1 DEF Min
    <2>3. LStrip(t) = SubSeq(t, n, Len(t))
      BY <1>1, <1>3 DEF LStrip, SelectInSeq
    <2>4. \A i \in 1 .. Len(t) : t[i] # "blank" => i \in I
      BY DEF NotBlank
    <2>5. n \in 1 .. Len(t)
      BY <2>2
    <2> HIDE DEF n, I
    <2>6. \A i \in 1 .. n - 1 : t[i] = "blank"
      BY <1>1, <2>2, <2>4, <2>5
    <2> QED BY <1>1, <2>3, <2>5, <2>6
  <1> QED BY <1>2, <1>3

\* A part of a text.
LEMMA PartOf ==
    ASSUME NEW S, NEW t \in Seq(S), NEW m \in 1 .. Len(t) + 1, NEW n \in 0 .. Len(t)
    PROVE  /\ SubSeq(t, m, n) \in Seq(S)
           /\ Len(SubSeq(t, m, n)) = IF m <= n THEN n - m + 1 ELSE 0
           /\ \A i \in 1 .. n - m + 1 : SubSeq(t, m, n)[i] = t[m + i - 1]
  <1>1. Len(t) \in Nat
    BY LenProperties
  <1>2. m \in Int /\ n \in Int /\ \A i \in m .. n : i \in 1 .. Len(t)
    BY <1>1
  <1>3. \A i \in m .. n : t[i] \in S
    BY <1>2, ElementOfSeq
  <1> QED BY <1>2, <1>3, SubSeqProperties

LEMMA TwoParts ==
    ASSUME NEW t \in Texts, NEW n \in 0 .. Len(t)
    PROVE  SubSeq(t, 1, n) \o SubSeq(t, n + 1, Len(t)) = t
  <1>1. Len(t) \in Nat
    BY LenProperties DEF Texts
  <1>2. 1 \in 1 .. Len(t) + 1 /\ n \in 1 - 1 .. Len(t) /\ Len(t) \in n .. Len(t)
    BY <1>1
  <1>3. SubSeq(t, 1, n) \o SubSeq(t, n + 1, Len(t)) = SubSeq(t, 1, Len(t))
    BY <1>2, ConcatAdjacentSubSeq DEF Texts
  <1> QED BY <1>3, SubSeqFull DEF Texts

\* The strips take nothing but blank lines.
LEMMA KeptRStrip ==
    ASSUME NEW t \in Texts, NEW lines, "blank" \notin lines
    PROVE  Kept(RStrip(t), lines) = Kept(t, lines)
  <1>1. PICK n \in 0 .. Len(t) : Ends(t, n) /\ RStrip(t) = SubSeq(t, 1, n)
    BY RStripEnds
  <1> DEFINE r == SubSeq(t, 1, n)
             pad == SubSeq(t, n + 1, Len(t))
  <1>2. Len(t) \in Nat
    BY LenProperties DEF Texts
  <1>3. r \in Texts
    BY <1>2, PartOf DEF Texts
  <1>4. pad \in Texts /\ \A i \in 1 .. Len(pad) : pad[i] = "blank"
    <2>1. /\ pad \in Texts /\ Len(pad) = IF n + 1 <= Len(t) THEN Len(t) - n ELSE 0
          /\ \A i \in 1 .. Len(t) - n : pad[i] = t[n + i]
      BY <1>2, PartOf DEF Texts
    <2> HIDE DEF pad
    <2> QED BY <1>1, <1>2, <2>1 DEF Ends
  <1>5. t = r \o pad
    BY TwoParts
  <1> HIDE DEF r, pad
  <1>6. Kept(r \o pad, lines) = Kept(r, lines) \o Kept(pad, lines)
    BY <1>3, <1>4, KeptConcat
  <1>7. Kept(pad, lines) = <<>>
    BY <1>4, KeptNothing
  <1>8. Kept(r, lines) \o <<>> = Kept(r, lines)
    BY <1>3, KeptText, ConcatEmptySeq DEF Texts
  <1> QED BY <1>1, <1>5, <1>6, <1>7, <1>8 DEF r

LEMMA KeptLStrip ==
    ASSUME NEW t \in Texts, NEW lines, "blank" \notin lines
    PROVE  Kept(LStrip(t), lines) = Kept(t, lines)
  <1>1. PICK n \in 1 .. Len(t) + 1 :
          (\A i \in 1 .. n - 1 : t[i] = "blank") /\ LStrip(t) = SubSeq(t, n, Len(t))
    BY LStripStarts
  <1> DEFINE r == SubSeq(t, n, Len(t))
             pad == SubSeq(t, 1, n - 1)
  <1>2. Len(t) \in Nat
    BY LenProperties DEF Texts
  <1>3. r \in Texts
    BY <1>2, PartOf DEF Texts
  <1>4. pad \in Texts /\ \A i \in 1 .. Len(pad) : pad[i] = "blank"
    <2>1. /\ pad \in Texts /\ Len(pad) = IF 1 <= n - 1 THEN n - 1 ELSE 0
          /\ \A i \in 1 .. n - 1 : pad[i] = t[i]
      BY <1>2, PartOf DEF Texts
    <2> HIDE DEF pad
    <2> QED BY <1>1, <1>2, <2>1
  <1>5. t = pad \o r
    <2>1. n - 1 \in 0 .. Len(t) /\ (n - 1) + 1 = n
      BY <1>2
    <2>2. SubSeq(t, 1, n - 1) \o SubSeq(t, (n - 1) + 1, Len(t)) = t
      BY <2>1, TwoParts
    <2> QED BY <2>1, <2>2
  <1> HIDE DEF r, pad
  <1>6. Kept(pad \o r, lines) = Kept(pad, lines) \o Kept(r, lines)
    BY <1>3, <1>4, KeptConcat
  <1>7. Kept(pad, lines) = <<>>
    BY <1>4, KeptNothing
  <1>8. <<>> \o Kept(r, lines) = Kept(r, lines)
    BY <1>3, KeptText, ConcatEmptySeq DEF Texts
  <1> QED BY <1>1, <1>5, <1>6, <1>7, <1>8 DEF r

LEMMA StripTypes ==
    ASSUME NEW S, NEW t \in Seq(S), S \subseteq Lines
    PROVE  RStrip(t) \in Seq(S) /\ LStrip(t) \in Seq(S)
  <1>1. t \in Texts /\ Len(t) \in Nat
    BY SeqMonotonic, LenProperties DEF Texts
  <1>2. PICK n \in 0 .. Len(t) : RStrip(t) = SubSeq(t, 1, n)
    BY <1>1, RStripEnds
  <1>3. PICK m \in 1 .. Len(t) + 1 : LStrip(t) = SubSeq(t, m, Len(t))
    BY <1>1, LStripStarts
  <1> QED BY <1>1, <1>2, <1>3, PartOf

\* No blank line is last.
Stripped(t) == t # <<>> => t[Len(t)] # "blank"

LEMMA RStripStripped ==
    ASSUME NEW t \in Texts
    PROVE  Stripped(RStrip(t))
  <1>1. PICK n \in 0 .. Len(t) : Ends(t, n) /\ RStrip(t) = SubSeq(t, 1, n)
    BY RStripEnds
  <1>2. Len(t) \in Nat
    BY LenProperties DEF Texts
  <1> DEFINE r == SubSeq(t, 1, n)
  <1>3. /\ Len(r) = IF 1 <= n THEN n ELSE 0
        /\ \A i \in 1 .. n : r[i] = t[i]
        /\ r \in Texts
    BY <1>2, PartOf DEF Texts
  <1> HIDE DEF r
  <1>4. r # <<>> => n > 0 /\ Len(r) = n /\ r[n] = t[n]
    BY <1>2, <1>3, EmptySeq DEF Texts
  <1> QED BY <1>1, <1>4 DEF r, Stripped, Ends

\* Blank lines are stripped, and nothing else.
LEMMA RStripPadded ==
    ASSUME NEW r \in Texts, Stripped(r), NEW pad \in Texts,
           \A i \in 1 .. Len(pad) : pad[i] = "blank"
    PROVE  RStrip(r \o pad) = r
  <1> DEFINE t == r \o pad
  <1>1. /\ t \in Texts /\ Len(r) \in Nat /\ Len(pad) \in Nat
        /\ Len(t) = Len(r) + Len(pad)
        /\ \A i \in 1 .. Len(r) : t[i] = r[i]
        /\ \A i \in 1 .. Len(pad) : t[Len(r) + i] = pad[i]
    BY ConcatProperties, LenProperties DEF Texts
  <1>2. SubSeq(t, 1, Len(r)) = r
    <2>1. CASE Len(r) = 0
      <3>1. r = <<>>
        BY <2>1, EmptySeq DEF Texts
      <3>2. SubSeq(t, 1, 0) = <<>>
        BY SubSeqEmpty
      <3> QED BY <2>1, <3>1, <3>2
    <2>2. CASE Len(r) # 0
      <3>1. 1 \in 1 .. Len(r) /\ Len(r) \in 1 .. Len(r)
        BY <1>1, <2>2
      <3>2. SubSeq(t, 1, Len(r)) = SubSeq(r, 1, Len(r))
        BY <3>1, SubSeqOfConcat1 DEF Texts
      <3> QED BY <3>2, SubSeqFull DEF Texts
    <2> QED BY <2>1, <2>2
  <1> HIDE DEF t
  <1>3. PICK n \in 0 .. Len(t) : Ends(t, n) /\ RStrip(t) = SubSeq(t, 1, n)
    BY <1>1, RStripEnds
  <1>4. Len(r) > 0 => t[Len(r)] # "blank"
    <2>1. Len(r) > 0 => r # <<>> /\ Len(r) \in 1 .. Len(r)
      BY <1>1, EmptySeq
    <2> QED BY <1>1, <2>1 DEF Stripped
  <1>5. ~(n < Len(r))
    BY <1>1, <1>3, <1>4 DEF Ends
  <1>6. ~(n > Len(r))
    <2> SUFFICES ASSUME n > Len(r) PROVE FALSE
      OBVIOUS
    <2>1. n - Len(r) \in 1 .. Len(pad) /\ Len(r) + (n - Len(r)) = n
      BY <1>1, <1>3
    <2>2. t[n] = "blank"
      BY <1>1, <2>1
    <2> QED BY <1>1, <1>3, <2>2 DEF Ends
  <1>7. n = Len(r)
    BY <1>1, <1>3, <1>5, <1>6
  <1> QED BY <1>2, <1>3, <1>7 DEF t

-----------------------------------------------------------------------------
(* The shape of a text that can be patched.                                *)

\* The lines with no marker.
PlainLines == Lines \ {"begin", "end", "mangled"}

\* A text with one block, m between the markers, a before and b after them.
Framed(a, m, b) == Joined(a, "begin", Joined(m, "end", b))

\* The lines of a concatenation, of a joined text and of a framed one.
ConcatLines(t, a, b) ==
    /\ t \in Texts
    /\ Len(t) = Len(a) + Len(b)
    /\ \A i \in 1 .. Len(a) : t[i] = a[i]
    /\ \A i \in 1 .. Len(b) : t[Len(a) + i] = b[i]

JoinedLines(t, a, line, b) ==
    /\ t \in Texts
    /\ Len(t) = Len(a) + 1 + Len(b)
    /\ \A i \in 1 .. Len(a) : t[i] = a[i]
    /\ t[Len(a) + 1] = line
    /\ \A i \in 1 .. Len(b) : t[Len(a) + 1 + i] = b[i]

FramedLines(t, a, m, b) ==
    /\ t \in Texts
    /\ Len(t) = Len(a) + Len(m) + Len(b) + 2
    /\ \A i \in 1 .. Len(a) : t[i] = a[i]
    /\ t[Len(a) + 1] = "begin"
    /\ \A i \in 1 .. Len(m) : t[Len(a) + 1 + i] = m[i]
    /\ t[Len(a) + Len(m) + 2] = "end"
    /\ \A i \in 1 .. Len(b) : t[Len(a) + Len(m) + 2 + i] = b[i]

LEMMA ConcatHas ==
    ASSUME NEW a \in Texts, NEW b \in Texts
    PROVE  ConcatLines(a \o b, a, b)
  <1> DEFINE t == a \o b
  <1>1. Len(a) \in Nat /\ Len(b) \in Nat
    BY LenProperties DEF Texts
  <1>2. /\ t \in Texts /\ Len(t) = Len(a) + Len(b)
        /\ \A i \in 1 .. Len(a) + Len(b) : t[i] = IF i <= Len(a) THEN a[i] ELSE b[i - Len(a)]
    BY ConcatProperties DEF Texts
  <1> HIDE DEF t
  <1>3. \A i \in 1 .. Len(b) : t[Len(a) + i] = b[i]
    <2> SUFFICES ASSUME NEW i \in 1 .. Len(b) PROVE t[Len(a) + i] = b[i]
      OBVIOUS
    <2>1. /\ Len(a) + i \in 1 .. Len(a) + Len(b) /\ ~(Len(a) + i <= Len(a))
          /\ (Len(a) + i) - Len(a) = i
      BY <1>1
    <2> QED BY <1>2, <2>1
  <1>4. \A i \in 1 .. Len(a) : t[i] = a[i]
    BY <1>1, <1>2
  <1> QED BY <1>2, <1>3, <1>4 DEF t, ConcatLines

LEMMA JoinedHas ==
    ASSUME NEW a \in Texts, NEW b \in Texts, NEW line \in Lines
    PROVE  JoinedLines(Joined(a, line, b), a, line, b)
  <1> DEFINE one == <<line>>
             tail == one \o b
             t == a \o tail
  <1>1. one \in Texts /\ Len(one) = 1 /\ one[1] = line /\ Len(a) \in Nat /\ Len(b) \in Nat
    BY LenProperties DEF Texts
  <1> HIDE DEF one
  <1>2. /\ tail \in Texts /\ Len(tail) = 1 + Len(b) /\ tail[1] = line
        /\ \A i \in 1 .. Len(b) : tail[1 + i] = b[i]
    <2>1. ConcatLines(one \o b, one, b)
      BY <1>1, ConcatHas
    <2> QED BY <1>1, <2>1 DEF ConcatLines
  <1> HIDE DEF tail
  <1>3. /\ t \in Texts /\ Len(t) = Len(a) + Len(tail)
        /\ \A i \in 1 .. Len(a) : t[i] = a[i]
        /\ \A i \in 1 .. Len(tail) : t[Len(a) + i] = tail[i]
    <2>1. ConcatLines(a \o tail, a, tail)
      BY <1>2, ConcatHas
    <2> QED BY <2>1 DEF ConcatLines
  <1>4. t = Joined(a, line, b)
    BY DEF tail, one, Joined
  <1> HIDE DEF t
  <1>5. t[Len(a) + 1] = line
    BY <1>1, <1>2, <1>3
  <1>6. \A i \in 1 .. Len(b) : t[Len(a) + 1 + i] = b[i]
    <2> SUFFICES ASSUME NEW i \in 1 .. Len(b) PROVE t[Len(a) + 1 + i] = b[i]
      OBVIOUS
    <2>1. 1 + i \in 1 .. Len(tail) /\ Len(a) + (1 + i) = Len(a) + 1 + i
      BY <1>1, <1>2
    <2> QED BY <1>2, <1>3, <2>1
  <1> QED BY <1>1, <1>2, <1>3, <1>4, <1>5, <1>6 DEF JoinedLines

LEMMA PlainElements ==
    ASSUME NEW t \in Texts
    PROVE  t \in Seq(PlainLines) <=>
             \A i \in 1 .. Len(t) : t[i] \notin {"begin", "end", "mangled"}
  <1>1. t \in Seq(PlainLines) => \A i \in 1 .. Len(t) : t[i] \in PlainLines
    BY ElementOfSeq
  <1>2. ASSUME \A i \in 1 .. Len(t) : t[i] \notin {"begin", "end", "mangled"}
        PROVE  t \in Seq(PlainLines)
    <2>1. Len(t) \in Nat /\ \A i \in 1 .. Len(t) : t[i] \in Lines
      BY LenProperties, ElementOfSeq DEF Texts
    <2>2. \A i \in 1 .. Len(t) : t[i] \in PlainLines
      BY <1>2, <2>1 DEF PlainLines
    <2>3. SubSeq(t, 1, Len(t)) \in Seq(PlainLines)
      BY <2>1, <2>2, SubSeqProperties
    <2> QED BY <2>3, SubSeqFull DEF Texts
  <1> QED BY <1>1, <1>2 DEF PlainLines

LEMMA PlainText == ASSUME NEW t \in Seq(PlainLines) PROVE t \in Texts
  BY SeqMonotonic DEF PlainLines, Texts

LEMMA FramedHas ==
    ASSUME NEW a \in Texts, NEW m \in Texts, NEW b \in Texts
    PROVE  FramedLines(Framed(a, m, b), a, m, b)
  <1> DEFINE q == Joined(m, "end", b)
             t == Joined(a, "begin", q)
  <1>1. "begin" \in Lines /\ "end" \in Lines
    BY DEF Lines
  <1>2. Len(a) \in Nat /\ Len(m) \in Nat /\ Len(b) \in Nat
    BY LenProperties DEF Texts
  <1>3. /\ q \in Texts /\ Len(q) = Len(m) + 1 + Len(b)
        /\ \A i \in 1 .. Len(m) : q[i] = m[i]
        /\ q[Len(m) + 1] = "end"
        /\ \A i \in 1 .. Len(b) : q[Len(m) + 1 + i] = b[i]
    <2>1. JoinedLines(Joined(m, "end", b), m, "end", b)
      BY <1>1, JoinedHas
    <2> QED BY <2>1 DEF JoinedLines
  <1>4. t = Framed(a, m, b)
    BY DEF Framed
  <1> HIDE DEF q
  <1>5. /\ t \in Texts /\ Len(t) = Len(a) + 1 + Len(q)
        /\ \A i \in 1 .. Len(a) : t[i] = a[i]
        /\ t[Len(a) + 1] = "begin"
        /\ \A i \in 1 .. Len(q) : t[Len(a) + 1 + i] = q[i]
    <2>1. JoinedLines(Joined(a, "begin", q), a, "begin", q)
      BY <1>1, <1>3, JoinedHas
    <2> QED BY <2>1 DEF JoinedLines
  <1> HIDE DEF t
  <1>6. \A i \in 1 .. Len(m) : t[Len(a) + 1 + i] = m[i]
    BY <1>2, <1>3, <1>5
  <1>7. t[Len(a) + Len(m) + 2] = "end"
    <2>1. Len(m) + 1 \in 1 .. Len(q) /\ Len(a) + 1 + (Len(m) + 1) = Len(a) + Len(m) + 2
      BY <1>2, <1>3
    <2> QED BY <1>3, <1>5, <2>1
  <1>8. \A i \in 1 .. Len(b) : t[Len(a) + Len(m) + 2 + i] = b[i]
    <2> SUFFICES ASSUME NEW i \in 1 .. Len(b)
                 PROVE  t[Len(a) + Len(m) + 2 + i] = b[i]
      OBVIOUS
    <2>1. /\ Len(m) + 1 + i \in 1 .. Len(q)
          /\ Len(a) + 1 + (Len(m) + 1 + i) = Len(a) + Len(m) + 2 + i
      BY <1>2, <1>3
    <2> QED BY <1>3, <1>5, <2>1
  <1> QED BY <1>2, <1>3, <1>4, <1>5, <1>6, <1>7, <1>8 DEF FramedLines

\* A framed text has one line of each marker, and its parts are what the model takes.
FramedParts(t, a, m, b) ==
    /\ t \in Texts
    /\ Occurrences(t, "begin") = {Len(a) + 1}
    /\ Occurrences(t, "end") = {Len(a) + Len(m) + 2}
    /\ Occurrences(t, "mangled") = {}
    /\ BeforeBlock(t) = a
    /\ AfterBlock(t) = b

LEMMA FramedFacts ==
    ASSUME NEW a \in Seq(PlainLines), NEW m \in Seq(PlainLines), NEW b \in Seq(PlainLines)
    PROVE  FramedParts(Framed(a, m, b), a, m, b)
  <1> DEFINE t == Framed(a, m, b)
  <1>1. a \in Texts /\ m \in Texts /\ b \in Texts
    BY PlainText
  <1>2. Len(a) \in Nat /\ Len(m) \in Nat /\ Len(b) \in Nat
    BY <1>1, LenProperties DEF Texts
  <1>3. /\ t \in Texts /\ Len(t) = Len(a) + Len(m) + Len(b) + 2
        /\ \A i \in 1 .. Len(a) : t[i] = a[i]
        /\ t[Len(a) + 1] = "begin"
        /\ \A i \in 1 .. Len(m) : t[Len(a) + 1 + i] = m[i]
        /\ t[Len(a) + Len(m) + 2] = "end"
        /\ \A i \in 1 .. Len(b) : t[Len(a) + Len(m) + 2 + i] = b[i]
    <2>1. FramedLines(Framed(a, m, b), a, m, b)
      BY <1>1, FramedHas
    <2> QED BY <2>1 DEF FramedLines
  <1> HIDE DEF t
  <1>4. DOMAIN t = 1 .. Len(t)
    BY <1>3, LenProperties DEF Texts
  <1> DEFINE Marker == {"begin", "end", "mangled"}
  <1>5. /\ \A i \in 1 .. Len(a) : a[i] \notin Marker
        /\ \A i \in 1 .. Len(m) : m[i] \notin Marker
        /\ \A i \in 1 .. Len(b) : b[i] \notin Marker
    BY <1>1, PlainElements
  <1>6. \A i \in 1 .. Len(t) :
          i = Len(a) + 1 \/ i = Len(a) + Len(m) + 2 \/ t[i] \notin Marker
    <2> SUFFICES ASSUME NEW i \in 1 .. Len(t)
                 PROVE  i = Len(a) + 1 \/ i = Len(a) + Len(m) + 2 \/ t[i] \notin Marker
      OBVIOUS
    <2> HIDE DEF Marker
    <2>1. CASE i <= Len(a)
      BY <1>2, <1>3, <1>5, <2>1
    <2>2. CASE i > Len(a) + 1 /\ i < Len(a) + Len(m) + 2
      <3>1. i - (Len(a) + 1) \in 1 .. Len(m) /\ Len(a) + 1 + (i - (Len(a) + 1)) = i
        BY <1>2, <2>2
      <3>2. t[i] = m[i - (Len(a) + 1)]
        BY <1>3, <3>1
      <3>3. m[i - (Len(a) + 1)] \notin Marker
        BY <1>5, <3>1
      <3> QED BY <3>2, <3>3
    <2>3. CASE i > Len(a) + Len(m) + 2
      <3>1. /\ i - (Len(a) + Len(m) + 2) \in 1 .. Len(b)
            /\ Len(a) + Len(m) + 2 + (i - (Len(a) + Len(m) + 2)) = i
        BY <1>2, <1>3, <2>3
      <3>2. t[i] = b[i - (Len(a) + Len(m) + 2)]
        BY <1>3, <3>1
      <3>3. b[i - (Len(a) + Len(m) + 2)] \notin Marker
        BY <1>5, <3>1
      <3> QED BY <3>2, <3>3
    <2>4. \/ i <= Len(a) \/ i = Len(a) + 1 \/ (i > Len(a) + 1 /\ i < Len(a) + Len(m) + 2)
          \/ i = Len(a) + Len(m) + 2 \/ i > Len(a) + Len(m) + 2
      BY <1>2
    <2> QED BY <2>1, <2>2, <2>3, <2>4
  <1>7. Len(a) + 1 \in DOMAIN t /\ Len(a) + Len(m) + 2 \in DOMAIN t
    BY <1>2, <1>3, <1>4
  <1>8. /\ Occurrences(t, "begin") = {Len(a) + 1}
        /\ Occurrences(t, "end") = {Len(a) + Len(m) + 2}
        /\ Occurrences(t, "mangled") = {}
    <2>1. \A i \in DOMAIN t : i = Len(a) + 1 \/ i = Len(a) + Len(m) + 2 \/ t[i] \notin Marker
      BY <1>4, <1>6
    <2>2. t[Len(a) + 1] = "begin" /\ t[Len(a) + Len(m) + 2] = "end"
      BY <1>3
    <2>3. \A i \in DOMAIN t : t[i] = "begin" <=> i = Len(a) + 1
      BY <2>1, <2>2
    <2>4. \A i \in DOMAIN t : t[i] = "end" <=> i = Len(a) + Len(m) + 2
      BY <2>1, <2>2
    <2>5. \A i \in DOMAIN t : t[i] # "mangled"
      BY <2>1, <2>2
    <2> QED BY <1>7, <2>3, <2>4, <2>5 DEF Occurrences
  <1>9. BeforeBlock(t) = a
    <2>1. BeforeBlock(t) = SubSeq(t, 1, Len(a))
      <3>1. (CHOOSE i \in {Len(a) + 1} : TRUE) = Len(a) + 1
        OBVIOUS
      <3>2. (Len(a) + 1) - 1 = Len(a)
        BY <1>2
      <3> QED BY <1>8, <3>1, <3>2 DEF BeforeBlock
    <2> DEFINE s == SubSeq(t, 1, Len(a))
    <2>2. /\ s \in Texts /\ Len(s) = IF 1 <= Len(a) THEN Len(a) ELSE 0
          /\ \A i \in 1 .. Len(a) : s[i] = t[i]
      BY <1>2, <1>3, PartOf DEF Texts
    <2> HIDE DEF s
    <2>3. Len(s) = Len(a) /\ \A i \in 1 .. Len(s) : s[i] = a[i]
      BY <1>2, <1>3, <2>2
    <2>4. s = a
      BY <1>1, <2>2, <2>3, SeqEqual DEF Texts
    <2> QED BY <2>1, <2>4 DEF s
  <1>10. AfterBlock(t) = b
    <2> DEFINE j == Len(a) + Len(m) + 2
               s == SubSeq(t, j + 1, Len(t))
    <2>1. AfterBlock(t) = s
      <3>1. (CHOOSE i \in {j} : TRUE) = j
        OBVIOUS
      <3> QED BY <1>8, <3>1 DEF AfterBlock
    <2>2. j \in Nat /\ Len(t) = j + Len(b)
      BY <1>2, <1>3
    <2>3. \A i \in 1 .. Len(b) : t[j + i] = b[i]
      BY <1>3
    <2> HIDE DEF j
    <2>4. /\ s \in Texts /\ Len(s) = IF j + 1 <= Len(t) THEN Len(t) - (j + 1) + 1 ELSE 0
          /\ \A i \in 1 .. Len(t) - (j + 1) + 1 : s[i] = t[(j + 1) + i - 1]
      <3>1. j + 1 \in 1 .. Len(t) + 1 /\ Len(t) \in 0 .. Len(t) /\ t \in Seq(Lines)
        BY <1>2, <1>3, <2>2 DEF Texts
      <3>2. s \in Seq(Lines)
        BY <3>1, PartOf
      <3>3. Len(s) = IF j + 1 <= Len(t) THEN Len(t) - (j + 1) + 1 ELSE 0
        BY <3>1, PartOf
      <3>4. \A i \in 1 .. Len(t) - (j + 1) + 1 : s[i] = t[(j + 1) + i - 1]
        BY <3>1, PartOf
      <3> HIDE DEF s
      <3> QED BY <3>2, <3>3, <3>4 DEF Texts
    <2> HIDE DEF s
    <2>5. Len(s) = Len(b) /\ \A i \in 1 .. Len(s) : s[i] = b[i]
      <3>1. Len(s) = Len(b) /\ Len(t) - (j + 1) + 1 = Len(b)
        BY <1>2, <2>2, <2>4
      <3>2. \A i \in 1 .. Len(b) : (j + 1) + i - 1 = j + i
        BY <2>2
      <3> QED BY <2>3, <2>4, <3>1, <3>2
    <2>6. s = b
      BY <1>1, <2>4, <2>5, SeqEqual DEF Texts
    <2> QED BY <2>1, <2>6
  <1> QED BY <1>3, <1>8, <1>9, <1>10 DEF t, FramedParts

\* A text around two lines is framed.
LEMMA FramedFrom ==
    ASSUME NEW t \in Texts, NEW i \in 1 .. Len(t), NEW j \in 1 .. Len(t), i < j,
           t[i] = "begin", t[j] = "end"
    PROVE  t = Framed(SubSeq(t, 1, i - 1), SubSeq(t, i + 1, j - 1), SubSeq(t, j + 1, Len(t)))
  <1> DEFINE a == SubSeq(t, 1, i - 1)
             m == SubSeq(t, i + 1, j - 1)
             b == SubSeq(t, j + 1, Len(t))
             f == Framed(a, m, b)
  <1>1. Len(t) \in Nat
    BY LenProperties DEF Texts
  <1>2. /\ 1 \in 1 .. Len(t) + 1 /\ i - 1 \in 0 .. Len(t)
        /\ i + 1 \in 1 .. Len(t) + 1 /\ j - 1 \in 0 .. Len(t)
        /\ j + 1 \in 1 .. Len(t) + 1 /\ Len(t) \in 0 .. Len(t)
    BY <1>1
  <1>3. /\ a \in Texts /\ Len(a) = IF 1 <= i - 1 THEN (i - 1) - 1 + 1 ELSE 0
        /\ \A k \in 1 .. (i - 1) - 1 + 1 : a[k] = t[1 + k - 1]
    BY <1>2, PartOf DEF Texts
  <1>4. /\ m \in Texts
        /\ Len(m) = IF i + 1 <= j - 1 THEN (j - 1) - (i + 1) + 1 ELSE 0
        /\ \A k \in 1 .. (j - 1) - (i + 1) + 1 : m[k] = t[(i + 1) + k - 1]
    BY <1>2, PartOf DEF Texts
  <1>5. /\ b \in Texts
        /\ Len(b) = IF j + 1 <= Len(t) THEN Len(t) - (j + 1) + 1 ELSE 0
        /\ \A k \in 1 .. Len(t) - (j + 1) + 1 : b[k] = t[(j + 1) + k - 1]
    BY <1>2, PartOf DEF Texts
  <1> HIDE DEF a, m, b
  <1>6. Len(a) = i - 1 /\ Len(m) = j - i - 1 /\ Len(b) = Len(t) - j
    BY <1>1, <1>3, <1>4, <1>5
  <1>7. /\ f \in Texts /\ Len(f) = Len(a) + Len(m) + Len(b) + 2
        /\ \A k \in 1 .. Len(a) : f[k] = a[k]
        /\ f[Len(a) + 1] = "begin"
        /\ \A k \in 1 .. Len(m) : f[Len(a) + 1 + k] = m[k]
        /\ f[Len(a) + Len(m) + 2] = "end"
        /\ \A k \in 1 .. Len(b) : f[Len(a) + Len(m) + 2 + k] = b[k]
    <2>1. FramedLines(Framed(a, m, b), a, m, b)
      BY <1>3, <1>4, <1>5, FramedHas
    <2> QED BY <2>1 DEF FramedLines
  <1> HIDE DEF f
  <1>8. Len(f) = Len(t) /\ Len(a) + 1 = i /\ Len(a) + Len(m) + 2 = j
    BY <1>1, <1>6, <1>7
  <1>9. \A k \in 1 .. Len(f) : f[k] = t[k]
    <2> SUFFICES ASSUME NEW k \in 1 .. Len(t) PROVE f[k] = t[k]
      BY <1>8
    <2>1. CASE k < i
      <3>1. k \in 1 .. Len(a) /\ k \in 1 .. (i - 1) - 1 + 1 /\ 1 + k - 1 = k
        BY <1>6, <2>1
      <3>2. f[k] = a[k]
        BY <1>7, <3>1
      <3>3. a[k] = t[1 + k - 1]
        BY <1>3, <3>1
      <3> QED BY <3>1, <3>2, <3>3
    <2>2. CASE k > i /\ k < j
      <3>1. /\ k - i \in 1 .. Len(m) /\ k - i \in 1 .. (j - 1) - (i + 1) + 1
            /\ i + (k - i) = k /\ (i + 1) + (k - i) - 1 = k
        BY <1>6, <2>2
      <3>2. f[i + (k - i)] = m[k - i]
        BY <1>7, <1>8, <3>1
      <3>3. m[k - i] = t[(i + 1) + (k - i) - 1]
        BY <1>4, <3>1
      <3> QED BY <3>1, <3>2, <3>3
    <2>3. CASE k > j
      <3>1. /\ k - j \in 1 .. Len(b) /\ k - j \in 1 .. Len(t) - (j + 1) + 1
            /\ j + (k - j) = k /\ (j + 1) + (k - j) - 1 = k
        BY <1>1, <1>6, <2>3
      <3>2. f[j + (k - j)] = b[k - j]
        BY <1>7, <1>8, <3>1
      <3>3. b[k - j] = t[(j + 1) + (k - j) - 1]
        BY <1>5, <3>1
      <3> QED BY <3>1, <3>2, <3>3
    <2>4. CASE k = i \/ k = j
      BY <1>7, <1>8, <2>4
    <2> QED BY <2>1, <2>2, <2>3, <2>4
  <1>10. f = t
    BY <1>7, <1>8, <1>9, SeqEqual DEF Texts
  <1> QED BY <1>10 DEF f, a, m, b

LEMMA OccurrencesFinite ==
    ASSUME NEW t \in Texts, NEW line
    PROVE  IsFiniteSet(Occurrences(t, line)) /\ Occurrences(t, line) \subseteq 1 .. Len(t)
  <1>1. DOMAIN t = 1 .. Len(t) /\ 1 \in Int /\ Len(t) \in Int
    BY LenProperties DEF Texts
  <1>2. IsFiniteSet(1 .. Len(t))
    BY <1>1, FS_Interval
  <1>3. Occurrences(t, line) \subseteq 1 .. Len(t)
    BY <1>1 DEF Occurrences
  <1> QED BY <1>2, <1>3, FS_Subset

Shaped(t) ==
    \/ t \in Seq(PlainLines)
    \/ \E a, m, b \in Seq(PlainLines) : t = Framed(a, m, b)

LEMMA PatchableShape ==
    ASSUME NEW t \in Texts
    PROVE  PatchableText(t) <=> Shaped(t)
  <1>1. Len(t) \in Nat /\ DOMAIN t = 1 .. Len(t)
    BY LenProperties DEF Texts
  <1>2. \A line : IsFiniteSet(Occurrences(t, line)) /\ Occurrences(t, line) \subseteq 1 .. Len(t)
    BY OccurrencesFinite
  <1>3. ASSUME t \in Seq(PlainLines) PROVE PatchableText(t)
    <2>1. /\ Occurrences(t, "begin") = {} /\ Occurrences(t, "end") = {}
          /\ Occurrences(t, "mangled") = {}
      BY <1>1, <1>3, PlainElements DEF Occurrences
    <2> QED BY <2>1, FS_EmptySet DEF PatchableText
  <1>4. ASSUME NEW a \in Seq(PlainLines), NEW m \in Seq(PlainLines), NEW b \in Seq(PlainLines),
               t = Framed(a, m, b)
        PROVE  PatchableText(t)
    <2>1. /\ Occurrences(t, "begin") = {Len(a) + 1}
          /\ Occurrences(t, "end") = {Len(a) + Len(m) + 2}
          /\ Occurrences(t, "mangled") = {}
      BY <1>4, FramedFacts DEF FramedParts
    <2>2. Len(a) \in Nat /\ Len(m) \in Nat
      BY LenProperties
    <2>3. Len(a) + 1 < Len(a) + Len(m) + 2
      BY <2>2
    <2>4. Cardinality({Len(a) + 1}) = 1 /\ Cardinality({Len(a) + Len(m) + 2}) = 1
      BY FS_Singleton
    <2>5. \A i \in Occurrences(t, "begin"), j \in Occurrences(t, "end") : i < j
      BY <2>1, <2>3
    <2>6. Cardinality(Occurrences(t, "begin")) = 1 /\ Cardinality(Occurrences(t, "end")) = 1
      BY <2>1, <2>4
    <2> QED BY <2>1, <2>5, <2>6 DEF PatchableText
  <1>5. ASSUME PatchableText(t) PROVE Shaped(t)
    <2> DEFINE B == Occurrences(t, "begin")
               E == Occurrences(t, "end")
    <2>1. /\ Occurrences(t, "mangled") = {} /\ Cardinality(B) = Cardinality(E)
          /\ Cardinality(B) <= 1 /\ \A i \in B, j \in E : i < j
      BY <1>5 DEF PatchableText
    <2>2. IsFiniteSet(B) /\ IsFiniteSet(E) /\ B \subseteq 1 .. Len(t) /\ E \subseteq 1 .. Len(t)
      BY <1>2
    <2>3. \A i \in 1 .. Len(t) : t[i] = "begin" <=> i \in B
      BY <1>1 DEF Occurrences
    <2>4. \A i \in 1 .. Len(t) : t[i] = "end" <=> i \in E
      BY <1>1 DEF Occurrences
    <2>5. \A i \in 1 .. Len(t) : t[i] # "mangled"
      BY <1>1, <2>1 DEF Occurrences
    <2> HIDE DEF B, E
    <2>6. Cardinality(B) \in Nat
      BY <2>2, FS_CardinalityType
    <2>7. CASE Cardinality(B) = 0
      <3>1. B = {} /\ E = {}
        BY <2>1, <2>2, <2>7, FS_EmptySet
      <3>2. \A i \in 1 .. Len(t) : t[i] \notin {"begin", "end", "mangled"}
        BY <2>3, <2>4, <2>5, <3>1
      <3> QED BY <3>2, PlainElements DEF Shaped
    <2>8. CASE Cardinality(B) = 1
      <3>1. PICK i : B = {i}
        BY <2>2, <2>8, FS_Singleton
      <3>2. PICK j : E = {j}
        BY <2>1, <2>2, <2>8, FS_Singleton
      <3>3. i \in 1 .. Len(t) /\ j \in 1 .. Len(t) /\ i < j /\ t[i] = "begin" /\ t[j] = "end"
        BY <2>1, <2>2, <2>3, <2>4, <3>1, <3>2
      <3> DEFINE a == SubSeq(t, 1, i - 1)
                 m == SubSeq(t, i + 1, j - 1)
                 b == SubSeq(t, j + 1, Len(t))
      <3>4. t = Framed(a, m, b)
        BY <3>3, FramedFrom
      <3>5. \A k \in 1 .. Len(t) : k # i /\ k # j => t[k] \in PlainLines
        <4>1. \A k \in 1 .. Len(t) : t[k] \in Lines
          BY ElementOfSeq DEF Texts
        <4> QED BY <2>3, <2>4, <2>5, <3>1, <3>2, <4>1 DEF PlainLines
      <3>6. a \in Seq(PlainLines)
        <4>1. 1 \in Int /\ i - 1 \in Int /\ \A k \in 1 .. i - 1 : t[k] \in PlainLines
          BY <1>1, <3>3, <3>5
        <4> QED BY <4>1, SubSeqProperties
      <3>7. m \in Seq(PlainLines)
        <4>1. i + 1 \in Int /\ j - 1 \in Int /\ \A k \in i + 1 .. j - 1 : t[k] \in PlainLines
          BY <1>1, <3>3, <3>5
        <4> QED BY <4>1, SubSeqProperties
      <3>8. b \in Seq(PlainLines)
        <4>1. j + 1 \in Int /\ Len(t) \in Int /\ \A k \in j + 1 .. Len(t) : t[k] \in PlainLines
          BY <1>1, <3>3, <3>5
        <4> QED BY <4>1, SubSeqProperties
      <3> HIDE DEF a, m, b
      <3> QED BY <3>4, <3>6, <3>7, <3>8 DEF Shaped
    <2> QED BY <2>1, <2>6, <2>7, <2>8
  <1> QED BY <1>3, <1>4, <1>5 DEF Shaped

-----------------------------------------------------------------------------
(* WithoutIncludes does not touch the shape.                               *)

NotInclude == Lines \ {"include"}

\* The lines of the user's part.
OwnLines == Lines \ {"blank", "include"}

LEMMA KeptJoined ==
    ASSUME NEW a \in Texts, NEW b \in Texts, NEW lines, NEW line \in lines, line \in Lines
    PROVE  Kept(Joined(a, line, b), lines) = Joined(Kept(a, lines), line, Kept(b, lines))
  <1> DEFINE one == <<line>>
  <1>1. one \in Texts /\ (\A i \in 1 .. Len(one) : one[i] \in lines)
    BY DEF Texts
  <1>2. one \o b \in Texts
    BY <1>1, ConcatProperties DEF Texts
  <1>3. Kept(one, lines) = one
    BY <1>1, KeptAll
  <1> HIDE DEF one
  <1>4. Kept(one \o b, lines) = Kept(one, lines) \o Kept(b, lines)
    BY <1>1, KeptConcat
  <1>5. Kept(a \o (one \o b), lines) = Kept(a, lines) \o Kept(one \o b, lines)
    BY <1>2, KeptConcat
  <1> QED BY <1>3, <1>4, <1>5 DEF Joined, one

LEMMA KeptFramed ==
    ASSUME NEW a \in Texts, NEW m \in Texts, NEW b \in Texts, NEW lines,
           "begin" \in lines, "end" \in lines
    PROVE  Kept(Framed(a, m, b), lines)
             = Framed(Kept(a, lines), Kept(m, lines), Kept(b, lines))
  <1>1. "begin" \in Lines /\ "end" \in Lines
    BY DEF Lines
  <1>2. Joined(m, "end", b) \in Texts
    BY <1>1, JoinedHas DEF JoinedLines
  <1>3. Kept(Joined(m, "end", b), lines) = Joined(Kept(m, lines), "end", Kept(b, lines))
    BY <1>1, KeptJoined
  <1>4. Kept(Joined(a, "begin", Joined(m, "end", b)), lines)
          = Joined(Kept(a, lines), "begin", Kept(Joined(m, "end", b), lines))
    BY <1>1, <1>2, KeptJoined
  <1> QED BY <1>3, <1>4 DEF Framed

LEMMA KeptPlain ==
    ASSUME NEW t \in Texts, NEW lines, {"begin", "end", "mangled"} \subseteq lines
    PROVE  Kept(t, lines) \in Seq(PlainLines) <=> t \in Seq(PlainLines)
  <1>1. t \in Seq(PlainLines) => Kept(t, lines) \in Seq(PlainLines)
    <2>1. PlainLines \subseteq Lines /\ PlainLines \cap lines \subseteq PlainLines
      BY DEF PlainLines
    <2>2. t \in Seq(PlainLines) => Kept(t, lines) \in Seq(PlainLines \cap lines)
      BY <2>1, KeptType
    <2> QED BY <2>1, <2>2, SeqMonotonic
  <1>2. Kept(t, lines) \in Seq(PlainLines) => t \in Seq(PlainLines)
    <2> DEFINE P == {s \in Texts : Kept(s, lines) \in Seq(PlainLines) => s \in Seq(PlainLines)}
    <2>1. <<>> \in P
      BY EmptySeq DEF Texts
    <2>2. ASSUME NEW s \in Texts, NEW e \in Lines, s \in P PROVE Append(s, e) \in P
      <3>1. Append(s, e) \in Texts /\ Kept(s, lines) \in Texts
        BY KeptText, AppendProperties DEF Texts
      <3>2. ASSUME Kept(Append(s, e), lines) \in Seq(PlainLines)
            PROVE  Append(s, e) \in Seq(PlainLines)
        <4>1. Kept(s, lines) \in Seq(PlainLines) /\ e \in PlainLines
          <5>1. CASE e \in lines
            <6>1. Append(Kept(s, lines), e) \in Seq(PlainLines)
              BY <3>2, <5>1, KeptAppend
            <6> QED BY <3>1, <6>1, AppendInSeq
          <5>2. CASE e \notin lines
            BY <3>2, <5>2, KeptAppend DEF PlainLines
          <5> QED BY <5>1, <5>2
        <4>2. s \in Seq(PlainLines)
          BY <2>2, <4>1
        <4> QED BY <4>1, <4>2, AppendProperties
      <3> QED BY <3>1, <3>2
    <2> HIDE DEF P
    <2>3. t \in P
      BY <2>1, <2>2, AllTexts
    <2> QED BY <2>3 DEF P
  <1> QED BY <1>1, <1>2

\* A text can be patched after its includes are gone just if it could be before.
LEMMA PatchableWithout ==
    ASSUME NEW t \in Texts
    PROVE  /\ WithoutIncludes(t) \in Texts
           /\ PatchableText(WithoutIncludes(t)) <=> PatchableText(t)
  <1> DEFINE w == Kept(t, NotInclude)
  <1>1. w = WithoutIncludes(t) /\ w \in Texts
    BY KeptText DEF WithoutIncludes, NotInclude
  <1>2. {"begin", "end", "mangled"} \subseteq NotInclude
    BY DEF NotInclude, Lines
  <1>3. \A s \in Texts : Kept(s, NotInclude) \in Seq(PlainLines) <=> s \in Seq(PlainLines)
    BY <1>2, KeptPlain
  <1>4. Shaped(t) => Shaped(w)
    <2>1. ASSUME NEW a \in Seq(PlainLines), NEW m \in Seq(PlainLines),
                 NEW b \in Seq(PlainLines), t = Framed(a, m, b)
          PROVE  Shaped(w)
      <3>1. a \in Texts /\ m \in Texts /\ b \in Texts
        BY PlainText
      <3>2. w = Framed(Kept(a, NotInclude), Kept(m, NotInclude), Kept(b, NotInclude))
        BY <1>2, <2>1, <3>1, KeptFramed
      <3> QED BY <1>3, <3>1, <3>2 DEF Shaped
    <2> HIDE DEF w
    <2>2. t \in Seq(PlainLines) => w \in Seq(PlainLines)
      BY <1>3 DEF w
    <2> QED BY <2>1, <2>2 DEF Shaped
  <1>5. Shaped(w) => Shaped(t)
    <2>1. ASSUME NEW u \in Seq(PlainLines), NEW n \in Seq(PlainLines),
                 NEW v \in Seq(PlainLines), w = Framed(u, n, v)
          PROVE  Shaped(t)
      <3>1. u \in Texts /\ n \in Texts /\ v \in Texts
        BY PlainText
      <3>2. "begin" \in NotInclude /\ "end" \in NotInclude /\ "begin" \in Lines /\ "end" \in Lines
        BY DEF NotInclude, Lines
      <3> DEFINE q == Joined(n, "end", v)
      <3>3. q \in Texts
        BY <3>1, <3>2, JoinedHas DEF JoinedLines
      <3>4. Kept(t, NotInclude) = Joined(u, "begin", q)
        BY <2>1 DEF Framed
      <3> HIDE DEF q
      <3>5. PICK a, c \in Texts : t = Joined(a, "begin", c) /\ Kept(a, NotInclude) = u
                                  /\ Kept(c, NotInclude) = q
        BY <3>1, <3>2, <3>3, <3>4, KeptSplit
      <3>6. PICK m, b \in Texts : c = Joined(m, "end", b) /\ Kept(m, NotInclude) = n
                                  /\ Kept(b, NotInclude) = v
        BY <3>1, <3>2, <3>5, KeptSplit DEF q
      <3>7. a \in Seq(PlainLines) /\ m \in Seq(PlainLines) /\ b \in Seq(PlainLines)
        BY <1>3, <3>5, <3>6
      <3>8. t = Framed(a, m, b)
        BY <3>5, <3>6 DEF Framed
      <3> QED BY <3>7, <3>8 DEF Shaped
    <2> HIDE DEF w
    <2>2. w \in Seq(PlainLines) => t \in Seq(PlainLines)
      BY <1>3 DEF w
    <2> QED BY <2>1, <2>2 DEF Shaped
  <1> HIDE DEF w
  <1> QED BY <1>1, <1>4, <1>5, PatchableShape

-----------------------------------------------------------------------------
(* What an installation leaves.                                            *)

\* The lines with no marker and no include.
RestLines == PlainLines \cap NotInclude

\* The blank lines that Patch puts between the rest of a text and the block.
Pad(r) == IF r = <<>> THEN <<"blank", "blank">> ELSE <<"blank">>

Laid(r) == (r \o Pad(r)) \o Block

\* A rest of a text.
Rest(r) == r \in Seq(RestLines) /\ Stripped(r)

LEMMA RestText ==
    ASSUME NEW t \in Seq(RestLines)
    PROVE  t \in Texts /\ t \in Seq(PlainLines) /\ t \in Seq(NotInclude)
  <1>1. /\ RestLines \subseteq Lines /\ RestLines \subseteq PlainLines
        /\ RestLines \subseteq NotInclude
    BY DEF RestLines, PlainLines
  <1> QED BY <1>1, SeqMonotonic DEF Texts

LEMMA PadFacts ==
    ASSUME NEW r
    PROVE  /\ Pad(r) \in Seq(RestLines) /\ Len(Pad(r)) \in {1, 2}
           /\ \A i \in 1 .. Len(Pad(r)) : Pad(r)[i] = "blank"
  <1>1. "blank" \in RestLines
    BY DEF RestLines, PlainLines, NotInclude, Lines
  <1>2. <<"blank">> \in Seq(RestLines) /\ <<"blank", "blank">> \in Seq(RestLines)
    BY <1>1
  <1> QED BY <1>2 DEF Pad

\* Patch, on a text whose rest is known.
LEMMA PatchIsLaid ==
    ASSUME NEW t, NEW r, RStrip(WithoutBlock(t)) = r
    PROVE  Patch(t) = Laid(r)
  BY DEF Patch, Laid, Pad

LEMMA OwnLinesFacts ==
    /\ "blank" \notin OwnLines /\ OwnLines \subseteq NotInclude
    /\ NotInclude \subseteq Lines /\ {"begin", "end", "mangled"} \subseteq NotInclude
  BY DEF OwnLines, NotInclude, Lines

\* A text with no block.
LEMMA PatchPlain ==
    ASSUME NEW t \in Seq(RestLines)
    PROVE  \E r : Rest(r) /\ Patch(t) = Laid(r) /\ Kept(r, OwnLines) = Kept(t, OwnLines)
  <1>1. t \in Texts /\ t \in Seq(PlainLines)
    BY RestText
  <1>2. DOMAIN t = 1 .. Len(t) /\ \A i \in 1 .. Len(t) : t[i] \notin {"begin", "end", "mangled"}
    BY <1>1, PlainElements, LenProperties DEF Texts
  <1>3. WithoutBlock(t) = t
    BY <1>2 DEF WithoutBlock, Occurrences
  <1> DEFINE r == RStrip(t)
  <1>4. Rest(r)
    <2>1. RestLines \subseteq Lines
      BY DEF RestLines, PlainLines
    <2> QED BY <1>1, <2>1, StripTypes, RStripStripped DEF Rest
  <1>5. Kept(r, OwnLines) = Kept(t, OwnLines)
    BY <1>1, KeptRStrip, OwnLinesFacts
  <1>6. Patch(t) = Laid(r)
    BY <1>3, PatchIsLaid
  <1> HIDE DEF r
  <1> QED BY <1>4, <1>5, <1>6

\* A text with a block.
LEMMA PatchFramed ==
    ASSUME NEW a \in Seq(RestLines), NEW m \in Seq(PlainLines), NEW b \in Seq(RestLines)
    PROVE  \E r : /\ Rest(r) /\ Patch(Framed(a, m, b)) = Laid(r)
                  /\ Kept(r, OwnLines) = Kept(a \o b, OwnLines)
  <1> DEFINE t == Framed(a, m, b)
             top == RStrip(a)
             x == IF top = <<>> THEN <<"blank">> ELSE top
             y == LStrip(b)
             w == x \o y
             r == RStrip(w)
  <1>1. a \in Texts /\ b \in Texts /\ a \in Seq(PlainLines) /\ b \in Seq(PlainLines)
    BY RestText
  <1>2. Occurrences(t, "begin") = {Len(a) + 1} /\ BeforeBlock(t) = a /\ AfterBlock(t) = b
    BY <1>1, FramedFacts DEF FramedParts
  <1>3. WithoutBlock(t) = w
    BY <1>2 DEF WithoutBlock
  <1>4. RestLines \subseteq Lines /\ "blank" \in RestLines
    BY DEF RestLines, PlainLines, NotInclude, Lines
  <1>5. top \in Seq(RestLines) /\ y \in Seq(RestLines)
    BY <1>4, StripTypes
  <1>6. x \in Seq(RestLines) /\ Kept(x, OwnLines) = Kept(a, OwnLines)
    <2>1. Kept(top, OwnLines) = Kept(a, OwnLines)
      BY <1>1, KeptRStrip, OwnLinesFacts
    <2> HIDE DEF top
    <2>2. CASE top = <<>>
      <3>1. <<"blank">> \in Seq(RestLines)
        BY <1>4
      <3>2. Kept(top, OwnLines) = <<>>
        BY <2>2, KeptNone
      <3>3. \A i \in 1 .. Len(<<"blank">>) : <<"blank">>[i] \notin OwnLines
        BY OwnLinesFacts
      <3>4. Kept(<<"blank">>, OwnLines) = <<>>
        BY <3>1, <3>3, RestText, KeptNothing
      <3> QED BY <2>1, <2>2, <3>1, <3>2, <3>4
    <2>3. CASE top # <<>>
      BY <1>5, <2>1, <2>3
    <2> QED BY <2>2, <2>3
  <1>7. Kept(y, OwnLines) = Kept(b, OwnLines)
    BY <1>1, KeptLStrip, OwnLinesFacts
  <1> HIDE DEF top, x, y
  <1>8. w \in Seq(RestLines) /\ w \in Texts
    BY <1>5, <1>6, ConcatProperties, RestText
  <1>9. Kept(w, OwnLines) = Kept(a \o b, OwnLines)
    <2>1. x \in Texts /\ y \in Texts
      BY <1>5, <1>6, RestText
    <2>2. Kept(w, OwnLines) = Kept(x, OwnLines) \o Kept(y, OwnLines)
      BY <2>1, KeptConcat
    <2>3. Kept(a \o b, OwnLines) = Kept(a, OwnLines) \o Kept(b, OwnLines)
      BY <1>1, KeptConcat
    <2> QED BY <1>6, <1>7, <2>2, <2>3
  <1> HIDE DEF w
  <1>10. Rest(r) /\ Kept(r, OwnLines) = Kept(w, OwnLines)
    BY <1>4, <1>8, StripTypes, RStripStripped, KeptRStrip, OwnLinesFacts DEF Rest
  <1>11. Patch(t) = Laid(r)
    BY <1>3, PatchIsLaid
  <1> HIDE DEF r, t
  <1> QED BY <1>9, <1>10, <1>11 DEF t

LEMMA KeptRest ==
    ASSUME NEW t \in Seq(PlainLines)
    PROVE  /\ Kept(t, NotInclude) \in Seq(RestLines)
           /\ Kept(Kept(t, NotInclude), OwnLines) = Kept(t, OwnLines)
  <1>1. PlainLines \subseteq Lines
    BY DEF PlainLines
  <1> QED BY <1>1, KeptType, KeptTwice, PlainText, OwnLinesFacts DEF RestLines

\* An installation that is not refused leaves a rest and the block; the rest has the
\* user's part of the text in it.
LEMMA PatchOnceLaid ==
    ASSUME NEW t \in Texts, PatchableText(t)
    PROVE  \E r : Rest(r) /\ PatchOnce(t) = Laid(r) /\ Kept(r, OwnLines) = UsersPart(t)
  <1>1. PatchOnce(t) = Patch(Kept(t, NotInclude))
    BY DEF PatchOnce, WithoutIncludes, NotInclude
  <1>2. CASE t \in Seq(PlainLines)
    <2>1. DOMAIN t = 1 .. Len(t) /\ \A i \in 1 .. Len(t) : t[i] \notin {"begin", "end", "mangled"}
      BY <1>2, PlainElements, LenProperties DEF Texts
    <2>2. UsersPart(t) = Kept(t, OwnLines)
      BY <2>1 DEF UsersPart, Occurrences, OwnLines
    <2>3. /\ Kept(t, NotInclude) \in Seq(RestLines)
          /\ Kept(Kept(t, NotInclude), OwnLines) = Kept(t, OwnLines)
      BY <1>2, KeptRest
    <2> QED BY <1>1, <2>2, <2>3, PatchPlain
  <1>3. ASSUME NEW a \in Seq(PlainLines), NEW m \in Seq(PlainLines), NEW b \in Seq(PlainLines),
               t = Framed(a, m, b)
        PROVE  \E r : Rest(r) /\ PatchOnce(t) = Laid(r) /\ Kept(r, OwnLines) = UsersPart(t)
    <2>1. a \in Texts /\ m \in Texts /\ b \in Texts
      BY PlainText
    <2> DEFINE ka == Kept(a, NotInclude)
               km == Kept(m, NotInclude)
               kb == Kept(b, NotInclude)
    <2>2. ka \in Seq(RestLines) /\ Kept(ka, OwnLines) = Kept(a, OwnLines)
      BY KeptRest
    <2>3. km \in Seq(RestLines) /\ km \in Seq(PlainLines)
      BY KeptRest, RestText
    <2>4. kb \in Seq(RestLines) /\ Kept(kb, OwnLines) = Kept(b, OwnLines)
      BY KeptRest
    <2>5. Kept(t, NotInclude) = Framed(ka, km, kb)
      BY <1>3, <2>1, KeptFramed, OwnLinesFacts
    <2> HIDE DEF ka, km, kb
    <2>6. Kept(ka \o kb, OwnLines) = Kept(a \o b, OwnLines)
      <3>1. ka \in Texts /\ kb \in Texts
        BY <2>2, <2>4, RestText
      <3>2. Kept(ka \o kb, OwnLines) = Kept(ka, OwnLines) \o Kept(kb, OwnLines)
        BY <3>1, KeptConcat
      <3>3. Kept(a \o b, OwnLines) = Kept(a, OwnLines) \o Kept(b, OwnLines)
        BY <2>1, KeptConcat
      <3> QED BY <2>2, <2>4, <3>2, <3>3
    <2>7. PICK r : /\ Rest(r) /\ Patch(Framed(ka, km, kb)) = Laid(r)
                   /\ Kept(r, OwnLines) = Kept(ka \o kb, OwnLines)
      BY <2>2, <2>3, <2>4, PatchFramed
    <2>8. UsersPart(t) = Kept(a \o b, OwnLines)
      <3>1. Occurrences(t, "begin") = {Len(a) + 1} /\ BeforeBlock(t) = a /\ AfterBlock(t) = b
        BY <1>3, FramedFacts DEF FramedParts
      <3>2. Occurrences(t, "begin") # {}
        BY <3>1
      <3> QED BY <3>1, <3>2 DEF UsersPart, OwnLines
    <2> QED BY <1>1, <2>5, <2>6, <2>7, <2>8
  <1>4. Shaped(t)
    BY PatchableShape
  <1> QED BY <1>2, <1>3, <1>4 DEF Shaped

-----------------------------------------------------------------------------
(* A rest and the block.                                                   *)

LEMMA LaidFramed ==
    ASSUME NEW r \in Seq(RestLines)
    PROVE  /\ r \o Pad(r) \in Seq(RestLines)
           /\ <<"include", "tools">> \in Seq(PlainLines) /\ <<>> \in Seq(RestLines)
           /\ Laid(r) = Framed(r \o Pad(r), <<"include", "tools">>, <<>>)
  <1>1. r \o Pad(r) \in Seq(RestLines)
    BY PadFacts, ConcatProperties
  <1>2. <<"include", "tools">> \in Seq(PlainLines)
    BY DEF PlainLines, Lines
  <1>3. Block = <<"begin">> \o (<<"include", "tools">> \o (<<"end">> \o <<>>))
    BY DEF Block
  <1> QED BY <1>1, <1>2, <1>3, EmptySeq DEF Laid, Framed, Joined

LEMMA UsersPartLaid ==
    ASSUME NEW r, Rest(r)
    PROVE  UsersPart(Laid(r)) = Kept(r, OwnLines)
  <1> DEFINE a == r \o Pad(r)
             it == <<"include", "tools">>
             t == Laid(r)
  <1>1. /\ a \in Seq(RestLines) /\ it \in Seq(PlainLines)
        /\ <<>> \in Seq(RestLines) /\ t = Framed(a, it, <<>>)
    BY LaidFramed DEF Rest
  <1>2. Kept(a, OwnLines) = Kept(r, OwnLines)
    <2> DEFINE p == Pad(r)
    <2>1. r \in Texts /\ p \in Texts /\ \A i \in 1 .. Len(p) : p[i] \notin OwnLines
      BY PadFacts, RestText, OwnLinesFacts DEF Rest
    <2> HIDE DEF p
    <2>2. Kept(r \o p, OwnLines) = Kept(r, OwnLines) \o Kept(p, OwnLines)
      BY <2>1, KeptConcat
    <2>3. Kept(p, OwnLines) = <<>> /\ Kept(r, OwnLines) \in Texts
      BY <2>1, KeptNothing, KeptText
    <2> QED BY <2>2, <2>3, ConcatEmptySeq DEF p, Texts
  <1> HIDE DEF a, it, t
  <1>3. a \in Texts /\ a \in Seq(PlainLines) /\ <<>> \in Seq(PlainLines)
    BY <1>1, RestText
  <1>4. Occurrences(t, "begin") = {Len(a) + 1} /\ BeforeBlock(t) = a /\ AfterBlock(t) = <<>>
    <2>1. FramedParts(Framed(a, it, <<>>), a, it, <<>>)
      BY <1>1, <1>3, FramedFacts
    <2> QED BY <1>1, <2>1 DEF FramedParts
  <1>5. a \o <<>> = a
    BY <1>3, ConcatEmptySeq DEF Texts
  <1>6. UsersPart(t) = Kept(a, OwnLines)
    <2>1. Occurrences(t, "begin") # {}
      BY <1>4
    <2> QED BY <1>4, <1>5, <2>1 DEF UsersPart, OwnLines
  <1> QED BY <1>2, <1>6 DEF t

LEMMA LaidSettles ==
    ASSUME NEW r, Rest(r)
    PROVE  Laid(r) \in Texts /\ PatchableText(Laid(r)) /\ PatchOnce(Laid(r)) = Laid(r)
  <1> DEFINE p == Pad(r)
             a == r \o p
             it == <<"include", "tools">>
             t == Laid(r)
  <1>1. /\ a \in Seq(RestLines) /\ it \in Seq(PlainLines)
        /\ <<>> \in Seq(RestLines) /\ t = Framed(a, it, <<>>)
    BY LaidFramed DEF Rest
  <1>2. p \in Texts /\ (\A i \in 1 .. Len(p) : p[i] = "blank") /\ r \in Texts /\ Stripped(r)
    BY PadFacts, RestText DEF Rest
  <1>3. RStrip(a) = r
    BY <1>2, RStripPadded
  <1> HIDE DEF p, a, it, t
  <1>4. /\ a \in Texts /\ a \in Seq(PlainLines) /\ a \in Seq(NotInclude)
        /\ <<>> \in Seq(PlainLines) /\ it \in Texts /\ <<>> \in Texts
    BY <1>1, RestText, PlainText
  <1>5. t \in Texts /\ PatchableText(t)
    <2>1. t \in Texts
      BY <1>1, <1>4, FramedFacts DEF FramedParts
    <2>2. Shaped(t)
      BY <1>1, <1>4 DEF Shaped
    <2> QED BY <2>1, <2>2, PatchableShape
  <1> DEFINE m == Kept(it, NotInclude)
             w == Framed(a, m, <<>>)
  <1>6. Kept(t, NotInclude) = w
    <2>1. Kept(t, NotInclude)
            = Framed(Kept(a, NotInclude), Kept(it, NotInclude), Kept(<<>>, NotInclude))
      BY <1>1, <1>4, KeptFramed, OwnLinesFacts
    <2>2. \A i \in 1 .. Len(a) : a[i] \in NotInclude
      BY <1>4, ElementOfSeq
    <2>3. Kept(a, NotInclude) = a
      BY <1>4, <2>2, KeptAll
    <2>4. Kept(<<>>, NotInclude) = <<>>
      BY KeptNone
    <2> QED BY <2>1, <2>3, <2>4
  <1>7. m \in Seq(PlainLines)
    BY <1>1, KeptRest, RestText
  <1> HIDE DEF m
  <1>8. Occurrences(w, "begin") = {Len(a) + 1} /\ BeforeBlock(w) = a /\ AfterBlock(w) = <<>>
    <2>1. FramedParts(Framed(a, m, <<>>), a, m, <<>>)
      BY <1>4, <1>7, FramedFacts
    <2> QED BY <2>1 DEF FramedParts, w
  <1> HIDE DEF w
  <1>9. WithoutBlock(w) = (IF r = <<>> THEN <<"blank">> ELSE r) \o LStrip(<<>>)
    <2>1. Occurrences(w, "begin") # {}
      BY <1>8
    <2> QED BY <1>3, <1>8, <2>1 DEF WithoutBlock
  <1>10. LStrip(<<>>) = <<>>
    BY DEF LStrip
  <1>11. RStrip(WithoutBlock(w)) = r
    <2>1. CASE r = <<>>
      <3> DEFINE one == <<"blank">>
      <3>1. one \in Texts /\ \A i \in 1 .. Len(one) : one[i] = "blank"
        BY DEF Texts, Lines
      <3> HIDE DEF one
      <3>2. RStrip(r \o one) = r
        BY <1>2, <3>1, RStripPadded
      <3>3. r \o one = one /\ one \o <<>> = one
        BY <2>1, <3>1, ConcatEmptySeq DEF Texts
      <3> QED BY <1>9, <1>10, <2>1, <3>2, <3>3 DEF one
    <2>2. CASE r # <<>>
      <3>1. r \o <<>> = r
        BY <1>2, ConcatEmptySeq DEF Texts
      <3>2. WithoutBlock(w) = r
        BY <1>9, <1>10, <2>2, <3>1
      <3>3. \A i \in 1 .. Len(<<>>) : <<>>[i] = "blank"
        OBVIOUS
      <3>4. RStrip(r \o <<>>) = r
        BY <1>2, <1>4, <3>3, RStripPadded
      <3> QED BY <3>1, <3>2, <3>4
    <2> QED BY <2>1, <2>2
  <1>12. PatchOnce(t) = Laid(r)
    <2>1. PatchOnce(t) = Patch(w)
      BY <1>6 DEF PatchOnce, WithoutIncludes, NotInclude
    <2> QED BY <1>11, <2>1, PatchIsLaid
  <1> QED BY <1>5, <1>12 DEF t

LEMMA BlockLines ==
    /\ Block \in Texts /\ Len(Block) = 4
    /\ Block[1] = "begin" /\ Block[2] = "include" /\ Block[3] = "tools" /\ Block[4] = "end"
  BY DEF Block, Texts, Lines

LEMMA ReverseText ==
    ASSUME NEW t \in Texts
    PROVE  /\ Len(Reverse(t)) = Len(t)
           /\ \A i \in 1 .. Len(t) : Reverse(t)[i] = t[(Len(t) - i) + 1]
           /\ \A i \in 1 .. Len(t) : Reverse(t)[i] \in Lines
  <1>1. Len(t) \in Nat
    BY LenProperties DEF Texts
  <1>2. \A i \in 1 .. Len(t) : (Len(t) - i) + 1 \in 1 .. Len(t)
    BY <1>1
  <1>3. \A i \in 1 .. Len(t) : t[(Len(t) - i) + 1] \in Lines
    BY <1>2, ElementOfSeq DEF Texts
  <1> QED BY <1>1, <1>3 DEF Reverse

LEMMA LaidAccepted ==
    ASSUME NEW r, Rest(r)
    PROVE  Accepted(Laid(r)) /\ IsSuffix(Block, Laid(r))
  <1> DEFINE a == r \o Pad(r)
             it == <<"include", "tools">>
             t == Laid(r)
  <1>1. /\ a \in Seq(RestLines) /\ it \in Seq(PlainLines)
        /\ <<>> \in Seq(RestLines) /\ t = Framed(a, it, <<>>) /\ t = a \o Block
    BY LaidFramed DEF Rest, Laid
  <1>2. Len(it) = 2
    OBVIOUS
  <1> HIDE DEF a, it, t
  <1>3. a \in Texts /\ a \in Seq(PlainLines) /\ a \in Seq(NotInclude) /\ <<>> \in Seq(PlainLines)
    BY <1>1, RestText
  <1>4. /\ t \in Texts /\ Len(a) \in Nat /\ Len(t) = Len(a) + 4
        /\ \A i \in 1 .. Len(a) : t[i] = a[i]
        /\ \A i \in 1 .. 4 : t[Len(a) + i] = Block[i]
    <2>1. ConcatLines(a \o Block, a, Block)
      BY <1>3, BlockLines, ConcatHas
    <2> QED BY <1>1, <1>3, <2>1, BlockLines, LenProperties DEF ConcatLines, Texts
  <1>5. DOMAIN t = 1 .. Len(t)
    BY <1>4, LenProperties DEF Texts
  <1>6. /\ Occurrences(t, "begin") = {Len(a) + 1}
        /\ Occurrences(t, "end") = {Len(a) + Len(it) + 2}
        /\ Occurrences(t, "mangled") = {}
    <2>1. FramedParts(Framed(a, it, <<>>), a, it, <<>>)
      BY <1>1, <1>3, FramedFacts
    <2> QED BY <1>1, <2>1 DEF FramedParts
  <1>7. Occurrences(t, "include") = {Len(a) + 2}
    <2>1. \A i \in 1 .. Len(a) : t[i] # "include"
      <3>1. \A i \in 1 .. Len(a) : a[i] \in NotInclude
        BY <1>3, ElementOfSeq
      <3> QED BY <1>4, <3>1 DEF NotInclude
    <2>2. /\ t[Len(a) + 1] = "begin" /\ t[Len(a) + 2] = "include"
          /\ t[Len(a) + 3] = "tools" /\ t[Len(a) + 4] = "end"
      BY <1>4, BlockLines
    <2>3. \A i \in 1 .. Len(t) : i \in 1 .. Len(a) \/ i = Len(a) + 1 \/ i = Len(a) + 2
                                 \/ i = Len(a) + 3 \/ i = Len(a) + 4
      BY <1>4
    <2>4. \A i \in 1 .. Len(t) : t[i] = "include" <=> i = Len(a) + 2
      BY <2>1, <2>2, <2>3
    <2>5. Len(a) + 2 \in 1 .. Len(t)
      BY <1>4
    <2> QED BY <1>5, <2>4, <2>5 DEF Occurrences
  <1>8. \A line \in {"begin", "end", "include"} : Cardinality(Occurrences(t, line)) = 1
    BY <1>6, <1>7, FS_Singleton
  <1>9. SubSeq(t, Len(a) + 1, Len(a) + 1 + Len(Block) - 1) = Block
    <2>1. Len(a) + 1 \in Len(a) + 1 .. Len(a) + Len(Block)
          /\ Len(a) + 4 \in Len(a) + 1 .. Len(a) + Len(Block)
      BY <1>4, BlockLines
    <2>2. SubSeq(a \o Block, Len(a) + 1, Len(a) + 4)
            = SubSeq(Block, (Len(a) + 1) - Len(a), (Len(a) + 4) - Len(a))
      BY <1>3, <2>1, BlockLines, SubSeqOfConcat2 DEF Texts
    <2>3. /\ (Len(a) + 1) - Len(a) = 1 /\ (Len(a) + 4) - Len(a) = Len(Block)
          /\ Len(a) + 1 + Len(Block) - 1 = Len(a) + 4
      BY <1>4, BlockLines
    <2>4. SubSeq(Block, 1, Len(Block)) = Block
      BY BlockLines, SubSeqFull DEF Texts
    <2> QED BY <1>1, <2>2, <2>3, <2>4
  <1>10. Accepted(t)
    BY <1>6, <1>8, <1>9 DEF Accepted
  <1>11. IsSuffix(Block, t)
    <2> DEFINE s == Reverse(Block)
               u == Reverse(t)
    <2>1. /\ Len(s) = 4 /\ \A i \in 1 .. 4 : s[i] = Block[(4 - i) + 1]
          /\ \A i \in 1 .. 4 : s[i] \in Lines
      BY BlockLines, ReverseText
    <2>2. /\ Len(u) = Len(t) /\ \A i \in 1 .. Len(t) : u[i] = t[(Len(t) - i) + 1]
      BY <1>4, ReverseText
    <2> HIDE DEF s, u
    <2>3. \A i \in 1 .. 4 : u[i] = s[i]
      <3> SUFFICES ASSUME NEW i \in 1 .. 4 PROVE u[i] = s[i]
        OBVIOUS
      <3>1. i \in 1 .. Len(t) /\ (4 - i) + 1 \in 1 .. 4
            /\ (Len(t) - i) + 1 = Len(a) + ((4 - i) + 1)
        BY <1>4
      <3>2. t[Len(a) + ((4 - i) + 1)] = Block[(4 - i) + 1]
        BY <1>4, <3>1
      <3>3. u[i] = t[(Len(t) - i) + 1] /\ s[i] = Block[(4 - i) + 1]
        BY <2>1, <2>2, <3>1
      <3> QED BY <3>1, <3>2, <3>3
    <2> DEFINE ss == SubSeq(s, 1, 4)
               uu == SubSeq(u, 1, 4)
    <2>4. ss \in Texts /\ Len(ss) = 4 /\ \A i \in 1 .. 4 : ss[i] = s[1 + i - 1]
      <3>1. 1 \in Int /\ 4 \in Int /\ \A i \in 1 .. 4 : s[i] \in Lines
        BY <2>1
      <3> QED BY <3>1, SubSeqProperties DEF Texts
    <2>5. uu \in Texts /\ Len(uu) = 4 /\ \A i \in 1 .. 4 : uu[i] = u[1 + i - 1]
      <3>1. 1 \in Int /\ 4 \in Int /\ \A i \in 1 .. 4 : u[i] \in Lines
        BY <2>1, <2>3
      <3> QED BY <3>1, SubSeqProperties DEF Texts
    <2> HIDE DEF ss, uu
    <2>6. \A i \in 1 .. Len(ss) : ss[i] = uu[i]
      BY <2>3, <2>4, <2>5
    <2>7. ss = uu
      BY <2>4, <2>5, <2>6, SeqEqual DEF Texts
    <2> QED BY <1>4, <2>1, <2>2, <2>7 DEF IsSuffix, IsPrefix, s, u, ss, uu
  <1> QED BY <1>10, <1>11 DEF t

-----------------------------------------------------------------------------
(* The inductive invariant.                                                *)

\* Where an installation has just patched, the text is a rest and the block: the form
\* from which another installation comes back to the same text.
LaidWhenPatched == status = "patched" => \E r : Rest(r) /\ text = Laid(r)

MineOf(t) == IF PatchableText(t) THEN UsersPart(t) ELSE <<>>

ConfInv == TypeOK /\ mine = MineOf(text) /\ LaidWhenPatched

LEMMA MineText == ASSUME NEW t \in Texts PROVE MineOf(t) \in Texts
  <1>1. <<>> \in Texts
    BY EmptySeq DEF Texts
  <1>2. ASSUME PatchableText(t) PROVE UsersPart(t) \in Texts
    <2>1. PICK r : Rest(r) /\ Kept(r, OwnLines) = UsersPart(t)
      BY <1>2, PatchOnceLaid
    <2>2. Kept(r, OwnLines) \in Texts
      BY <2>1, RestText, KeptText DEF Rest
    <2> QED BY <2>1, <2>2
  <1> QED BY <1>1, <1>2 DEF MineOf

LEMMA InitConf == Init => ConfInv
  <1> SUFFICES ASSUME Init PROVE ConfInv
    OBVIOUS
  <1>1. UserLines \subseteq PlainLines
    BY DEF UserLines, PlainLines, Lines
  <1>2. text \in Seq(PlainLines) /\ text \in Texts
    <2>1. text \in Seq(UserLines)
      BY ConfStock DEF Init
    <2>2. text \in Seq(PlainLines)
      BY <1>1, <2>1, SeqMonotonic
    <2> QED BY <2>2, PlainText
  <1>3. PatchableText(text)
    BY <1>2, PatchableShape DEF Shaped
  <1>4. mine = MineOf(text) /\ mine \in Texts
    BY <1>2, <1>3, MineText DEF Init, MineOf
  <1>5. left \in [edits: Nat, installs: Nat] /\ status = "edited"
    BY ConfBounds DEF Init
  <1> QED BY <1>2, <1>4, <1>5 DEF ConfInv, TypeOK, LaidWhenPatched, Texts

LEMMA EditsConf ==
    ASSUME ConfInv, NEW t \in Texts, Edits(t)
    PROVE  ConfInv'
  <1>1. /\ left \in [edits: Nat, installs: Nat] /\ left.edits > 0
        /\ left' = [left EXCEPT !.edits = @ - 1]
    BY DEF ConfInv, TypeOK, Edits
  <1>2. left' \in [edits: Nat, installs: Nat]
    BY <1>1
  <1>3. text' = t /\ mine' = MineOf(t) /\ status' = "edited"
    BY DEF Edits, MineOf
  <1>4. mine' \in Texts
    BY <1>3, MineText
  <1> QED BY <1>2, <1>3, <1>4 DEF ConfInv, TypeOK, LaidWhenPatched, Texts, MineOf

LEMMA InsertConf == ConfInv /\ Insert => ConfInv'
  <1> SUFFICES ASSUME ConfInv, NEW i \in 1 .. Len(text) + 1, NEW line \in Lines,
                      Edits(InsertAt(text, i, line))
               PROVE  ConfInv'
    BY DEF Insert
  <1>1. text \in Texts /\ Len(text) \in Nat
    BY LenProperties DEF ConfInv, TypeOK, Texts
  <1>2. SubSeq(text, 1, i - 1) \in Texts /\ SubSeq(text, i, Len(text)) \in Texts
    BY <1>1, PartOf DEF Texts
  <1>3. <<line>> \in Texts
    BY DEF Texts
  <1>4. (SubSeq(text, 1, i - 1) \o <<line>>) \o SubSeq(text, i, Len(text)) \in Texts
    BY <1>2, <1>3, ConcatProperties DEF Texts
  <1> QED BY <1>4, EditsConf DEF InsertAt

LEMMA DeleteConf == ConfInv /\ Delete => ConfInv'
  <1> SUFFICES ASSUME ConfInv, NEW i \in DOMAIN text, Edits(RemoveAt(text, i))
               PROVE  ConfInv'
    BY DEF Delete
  <1>1. text \in Texts /\ Len(text) \in Nat /\ i \in 1 .. Len(text)
    BY LenProperties DEF ConfInv, TypeOK, Texts
  <1>2. SubSeq(text, 1, i - 1) \in Texts /\ SubSeq(text, i + 1, Len(text)) \in Texts
    BY <1>1, PartOf DEF Texts
  <1>3. SubSeq(text, 1, i - 1) \o SubSeq(text, i + 1, Len(text)) \in Texts
    BY <1>2, ConcatProperties DEF Texts
  <1> QED BY <1>3, EditsConf DEF RemoveAt

LEMMA InstallPatchesConf == ConfInv /\ InstallPatches => ConfInv'
  <1> SUFFICES ASSUME ConfInv, InstallPatches PROVE ConfInv'
    OBVIOUS
  <1>1. text \in Texts /\ PatchableText(text)
    <2>1. text \in Texts /\ PatchableText(WithoutIncludes(text))
      BY DEF ConfInv, TypeOK, Texts, InstallPatches
    <2> QED BY <2>1, PatchableWithout
  <1>2. PICK r : Rest(r) /\ PatchOnce(text) = Laid(r) /\ Kept(r, OwnLines) = UsersPart(text)
    BY <1>1, PatchOnceLaid
  <1>3. text' = Laid(r) /\ status' = "patched" /\ mine' = mine
    BY <1>2 DEF InstallPatches
  <1>4. Laid(r) \in Texts /\ PatchableText(Laid(r)) /\ UsersPart(Laid(r)) = Kept(r, OwnLines)
    BY <1>2, LaidSettles, UsersPartLaid
  <1>5. mine = UsersPart(text)
    BY <1>1 DEF ConfInv, MineOf
  <1>6. mine = MineOf(Laid(r))
    BY <1>2, <1>4, <1>5 DEF MineOf
  <1>7. left' \in [edits: Nat, installs: Nat]
    <2>1. /\ left \in [edits: Nat, installs: Nat] /\ left.installs > 0
          /\ left' = [left EXCEPT !.installs = @ - 1]
      BY DEF ConfInv, TypeOK, InstallPatches, Installs
    <2> QED BY <2>1
  <1>8. TypeOK'
    <2>1. mine \in Seq(Lines)
      BY DEF ConfInv, TypeOK
    <2> QED BY <1>3, <1>4, <1>7, <2>1 DEF TypeOK, Texts
  <1>9. mine' = MineOf(text)'
    BY <1>3, <1>6 DEF MineOf
  <1>10. LaidWhenPatched'
    BY <1>2, <1>3 DEF LaidWhenPatched
  <1> QED BY <1>8, <1>9, <1>10 DEF ConfInv

LEMMA InstallRefusesConf == ConfInv /\ InstallRefuses => ConfInv'
  <1> SUFFICES ASSUME ConfInv, InstallRefuses PROVE ConfInv'
    OBVIOUS
  <1>1. /\ left \in [edits: Nat, installs: Nat] /\ left.installs > 0
        /\ left' = [left EXCEPT !.installs = @ - 1]
    BY DEF ConfInv, TypeOK, InstallRefuses, Installs
  <1>2. left' \in [edits: Nat, installs: Nat]
    BY <1>1
  <1>3. text' = text /\ mine' = mine /\ status' = "refused"
    BY DEF InstallRefuses
  <1> QED BY <1>2, <1>3 DEF ConfInv, TypeOK, LaidWhenPatched, MineOf

LEMMA NextConf == ConfInv /\ [Next]_vars => ConfInv'
  <1> SUFFICES ASSUME ConfInv, [Next]_vars PROVE ConfInv'
    OBVIOUS
  <1>1. CASE Insert
    BY <1>1, InsertConf
  <1>2. CASE Delete
    BY <1>2, DeleteConf
  <1>3. CASE InstallPatches
    BY <1>3, InstallPatchesConf
  <1>4. CASE InstallRefuses
    BY <1>4, InstallRefusesConf
  <1>5. CASE UNCHANGED vars
    BY <1>5 DEF vars, ConfInv, TypeOK, LaidWhenPatched, MineOf
  <1> QED BY <1>1, <1>2, <1>3, <1>4, <1>5 DEF Next

LEMMA ConfAlways == Spec => []ConfInv
  BY InitConf, NextConf, PTL DEF Spec

-----------------------------------------------------------------------------
(* The theorems.                                                           *)

\* refind.conf stays a text of the lines the model knows, whatever the user and the
\* installations do to it, and no bound is overdrawn.
THEOREM TypeCorrect == Spec => []TypeOK
  <1>1. ConfInv => TypeOK
    BY DEF ConfInv
  <1> QED BY <1>1, ConfAlways, PTL

\* An installation that patches keeps the user's lines outside the block, all of them and
\* in their order, in a refind.conf of any length that was edited in any way
\* (patch_refind_conf).
THEOREM UsersLinesStay == Spec => []UsersLinesKept
  <1>1. ConfInv => UsersLinesKept
    <2> SUFFICES ASSUME ConfInv, status = "patched" PROVE UsersPart(text) = mine
      BY DEF UsersLinesKept
    <2>1. PICK r : Rest(r) /\ text = Laid(r)
      BY DEF ConfInv, LaidWhenPatched
    <2>2. PatchableText(text)
      BY <2>1, LaidSettles
    <2> QED BY <2>2 DEF ConfInv, MineOf
  <1> QED BY <1>1, ConfAlways, PTL

\* What an installation leaves in refind.conf passes the verification that the same
\* installation then does, and ends in the block (_verify_refind_config).
THEOREM PatchedIsAccepted == Spec => []PatchedAccepted
  <1>1. ConfInv => PatchedAccepted
    <2> SUFFICES ASSUME ConfInv, status = "patched"
                 PROVE  Accepted(text) /\ IsSuffix(Block, text)
      BY DEF PatchedAccepted
    <2>1. PICK r : Rest(r) /\ text = Laid(r)
      BY DEF ConfInv, LaidWhenPatched
    <2> QED BY <2>1, LaidAccepted
  <1> QED BY <1>1, ConfAlways, PTL

\* Installing again on what an installation left is not refused and changes nothing: the
\* patch is idempotent on every text (test_include_patch_is_idempotent tries one).
THEOREM PatchingSettles == Spec => []PatchSettles
  <1>1. ConfInv => PatchSettles
    <2> SUFFICES ASSUME ConfInv, status = "patched"
                 PROVE  PatchableText(text) /\ PatchOnce(text) = text
      BY DEF PatchSettles
    <2>1. PICK r : Rest(r) /\ text = Laid(r)
      BY DEF ConfInv, LaidWhenPatched
    <2> QED BY <2>1, LaidSettles
  <1> QED BY <1>1, ConfAlways, PTL

\* An installation patches just the texts that have one whole block or none: an include
\* of the theme, wherever the user has put it, neither gets it refused nor lets a damaged
\* block through (_patch_refind_conf_once).
THEOREM RefusedForMarkersOnly ==
    Spec => [][Installs => (status' = "patched" <=> PatchableText(text))]_vars
  <1>1. ConfInv /\ [Next]_vars
          => [Installs => (status' = "patched" <=> PatchableText(text))]_vars
    <2> SUFFICES ASSUME ConfInv, [Next]_vars, Installs
                 PROVE  status' = "patched" <=> PatchableText(text)
      OBVIOUS
    <2>1. /\ left \in [edits: Nat, installs: Nat]
          /\ left' = [left EXCEPT !.installs = left.installs - 1]
      BY DEF ConfInv, TypeOK, Installs
    <2>2. left'.installs # left.installs
      BY <2>1
    <2>3. ~(Insert \/ Delete) /\ ~UNCHANGED vars
      <3>1. \A t : Edits(t) => left'.installs = left.installs
        BY <2>1 DEF Edits
      <3> QED BY <2>2, <3>1 DEF Insert, Delete, vars
    <2>4. PatchableText(WithoutIncludes(text)) <=> PatchableText(text)
      BY PatchableWithout DEF ConfInv, TypeOK, Texts
    <2>5. CASE InstallPatches
      BY <2>4, <2>5 DEF InstallPatches
    <2>6. CASE InstallRefuses
      BY <2>4, <2>6 DEF InstallRefuses
    <2> QED BY <2>3, <2>5, <2>6 DEF Next
  <1> QED BY <1>1, ConfAlways, PTL DEF Spec
=============================================================================
