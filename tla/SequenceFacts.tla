----------------------------- MODULE SequenceFacts -----------------------------
(***************************************************************************)
(* Facts about natural numbers and sequences that the proofs about         *)
(* FrameStream rest on: induction, and what FlattenSeq of the community    *)
(* modules computes.                                                       *)
(*                                                                         *)
(* Induction comes from the library's theorem that < is well founded on    *)
(* Nat, as a statement about a set, which has no operator as a parameter.  *)
(***************************************************************************)
EXTENDS Integers, SequencesExt, WellFoundedInduction, SequenceTheorems,
        FunctionTheorems, FiniteSetTheorems, TLAPS

\* A set of numbers has a least one.
LEMMA NatMin ==
    ASSUME NEW T \in SUBSET Nat, T # {}
    PROVE  \E x \in T : \A y \in T : x <= y
<1>1. IsWellFoundedOn({p \in Nat \X Nat : p[1] < p[2]}, Nat)
  BY NatLessThanWellFounded DEF OpToRel
<1>2. PICK x \in T :
          \A y \in T : ~(<<y, x>> \in {p \in Nat \X Nat : p[1] < p[2]})
  BY <1>1, WFMin
<1>3. ASSUME NEW y \in T, y < x PROVE FALSE
  <2>1. <<y, x>> \in Nat \X Nat /\ <<y, x>>[1] < <<y, x>>[2]
    BY <1>3
  <2> QED BY <1>2, <2>1
<1> QED BY <1>3

\* A set that has 0, and with a number the next, has all of them.
LEMMA NatInd ==
    ASSUME NEW S, 0 \in S, \A n \in Nat : n \in S => n + 1 \in S
    PROVE  Nat \subseteq S
<1> SUFFICES ASSUME Nat \ S # {} PROVE FALSE
  OBVIOUS
<1>1. PICK x \in Nat \ S : \A y \in Nat \ S : x <= y
  BY NatMin
<1>2. x - 1 \in Nat /\ x - 1 \notin Nat \ S
  BY <1>1
<1> QED BY <1>1, <1>2

\* A function on 1..n is a sequence.
LEMMA SeqOfFun ==
    ASSUME NEW X, NEW n \in Nat, NEW f \in [1..n -> X]
    PROVE  f \in Seq(X) /\ Len(f) = n
  OBVIOUS

LEMMA AppendIs ==
    ASSUME NEW X, NEW q \in Seq(X), NEW e \in X, NEW p \in Seq(X),
           Len(p) = Len(q) + 1,
           \A i \in 1..Len(q) : p[i] = q[i],
           p[Len(q) + 1] = e
    PROVE  p = Append(q, e)
<1>1. /\ Append(q, e) \in Seq(X) /\ Len(Append(q, e)) = Len(q) + 1
      /\ \A i \in 1..Len(q) : Append(q, e)[i] = q[i]
      /\ Append(q, e)[Len(q) + 1] = e
  BY AppendProperties
<1>2. \A i \in 1..Len(p) : i \in 1..Len(q) \/ i = Len(q) + 1
  BY LenProperties
<1>3. \A i \in 1..Len(p) : p[i] = Append(q, e)[i]
  BY <1>1, <1>2
<1> QED BY <1>1, <1>3, SeqEqual

LEMMA ConsIs ==
    ASSUME NEW X, NEW q \in Seq(X), NEW e \in X, NEW p \in Seq(X),
           Len(p) = Len(q) + 1,
           p[1] = e,
           \A i \in 1..Len(q) : p[i + 1] = q[i]
    PROVE  p = <<e>> \o q
<1>1. <<e>> \in Seq(X) /\ Len(<<e>>) = 1 /\ <<e>>[1] = e
  OBVIOUS
<1>2. PICK n \in Nat : n = Len(q)
  BY LenProperties
<1>3. <<e>> \o q \in Seq(X) /\ Len(<<e>> \o q) = 1 + n
  BY <1>1, <1>2, ConcatProperties
<1>4. (<<e>> \o q)[1] = e
  BY <1>1, <1>2, ConcatProperties
<1>5. ASSUME NEW i \in 1..n PROVE (<<e>> \o q)[i + 1] = q[i]
  <2>1. i + 1 \in 1..(1 + n) /\ ~(i + 1 <= 1) /\ (i + 1) - 1 = i
    OBVIOUS
  <2> QED BY <1>1, <1>2, <2>1, ConcatProperties
<1>6. ASSUME NEW i \in 1..Len(p) PROVE p[i] = (<<e>> \o q)[i]
  <2>1. i = 1 \/ (i - 1 \in 1..n /\ (i - 1) + 1 = i)
    BY <1>2
  <2> QED BY <1>2, <1>4, <1>5, <2>1
<1>7. Len(p) = Len(<<e>> \o q)
  BY <1>2, <1>3
<1> QED BY <1>3, <1>6, <1>7, SeqEqual

-----------------------------------------------------------------------------
(* Beginnings of a sequence.                                               *)

StartsWith(A, b) == Len(b) <= Len(A) /\ \A i \in 1..Len(b) : A[i] = b[i]

LEMMA StartsConcat ==
    ASSUME NEW X, NEW b \in Seq(X), NEW r \in Seq(X)
    PROVE  StartsWith(b \o r, b)
<1>1. Len(b) \in Nat /\ Len(r) \in Nat
  BY LenProperties
<1>2. Len(b) <= Len(b \o r) /\ \A i \in 1..Len(b) : i \in 1..(Len(b) + Len(r))
  BY <1>1, ConcatProperties
<1>3. \A i \in 1..Len(b) : (b \o r)[i] = b[i]
  BY <1>1, <1>2, ConcatProperties
<1> QED BY <1>2, <1>3 DEF StartsWith

LEMMA StartsLonger ==
    ASSUME NEW X, NEW a \in Seq(X), NEW e \in Seq(X), NEW b \in Seq(X), StartsWith(a, b)
    PROVE  StartsWith(a \o e, b)
<1>1. PICK l \in Nat, m \in Nat, n \in Nat : l = Len(a) /\ m = Len(e) /\ n = Len(b)
  BY LenProperties
<1>2. Len(a \o e) = l + m /\ \A i \in 1..(l + m) : i <= l => (a \o e)[i] = a[i]
  BY <1>1, ConcatProperties
<1>3. n <= l /\ \A i \in 1..n : a[i] = b[i]
  BY <1>1 DEF StartsWith
<1>4. n <= l + m /\ \A i \in 1..n : i \in 1..(l + m) /\ i <= l
  BY <1>3
<1>5. \A i \in 1..n : (a \o e)[i] = b[i]
  BY <1>2, <1>3, <1>4
<1> QED BY <1>1, <1>2, <1>4, <1>5, Zenon DEF StartsWith

\* w is u and then v.
Joins(u, v, w) == w = u \o v

\* What follows the beginning of b is what follows it in any longer sequence.
LEMMA JoinsRest ==
    ASSUME NEW X, NEW e \in Seq(X), NEW c \in Seq(X), NEW b, NEW r \in Seq(X), NEW w,
           NEW a \in Seq(X), Joins(e, c, b), Joins(b, r, w), Joins(e, a, w)
    PROVE  Joins(c, r, a)
<1>1. (e \o c) \o r = e \o (c \o r)
  BY ConcatAssociative
<1>2. PICK v \in Seq(X) : v = c \o r
  BY ConcatProperties
<1>3. e \o v = e \o a => v = a
  BY ConcatSimplifications
<1>4. e \o v = e \o a
  BY <1>1, <1>2, Zenon DEF Joins
<1> QED BY <1>2, <1>3, <1>4, Zenon DEF Joins

\* The beginning e is cut off from b.
LEMMA CutFront ==
    ASSUME NEW X, NEW e \in Seq(X), NEW a \in Seq(X), NEW b \in Seq(X),
           StartsWith(e \o a, b), Len(b) >= Len(e)
    PROVE  /\ SubSeq(b, 1, Len(e)) = e
           /\ SubSeq(b, Len(e) + 1, Len(b)) \in Seq(X)
           /\ StartsWith(a, SubSeq(b, Len(e) + 1, Len(b)))
           /\ Joins(e, SubSeq(b, Len(e) + 1, Len(b)), b)
<1> DEFINE c == SubSeq(b, Len(e) + 1, Len(b))
<1>1. PICK m \in Nat : m = Len(e)
  BY LenProperties
<1>2. PICK n \in Nat : n = Len(b)
  BY LenProperties
<1>3. PICK l \in Nat : l = Len(a)
  BY LenProperties
<1>4. /\ Len(e \o a) = m + l /\ n <= m + l /\ m <= n
      /\ \A i \in 1..n : (e \o a)[i] = b[i]
  BY <1>1, <1>2, <1>3, ConcatProperties DEF StartsWith
<1>5. \A i \in 1..(m + l) : (e \o a)[i] = IF i <= m THEN e[i] ELSE a[i - m]
  BY <1>1, <1>3, ConcatProperties
<1>6. \A i \in 1..n : b[i] \in X
  BY <1>2, ElementOfSeq
<1>7. SubSeq(b, 1, m) = e
  <2>1. \A i \in 1..m : i \in 1..n /\ i \in 1..(m + l) /\ (1 + i) - 1 = i /\ i \in 1..((m - 1) + 1)
    BY <1>4
  <2>2. \A i \in 1..m : b[i] \in X
    BY <1>6, <2>1
  <2>3. /\ SubSeq(b, 1, m) \in Seq(X)
        /\ Len(SubSeq(b, 1, m)) = IF 1 <= m THEN (m - 1) + 1 ELSE 0
        /\ \A i \in 1..((m - 1) + 1) : SubSeq(b, 1, m)[i] = b[(1 + i) - 1]
    BY <2>2, SubSeqProperties
  <2>4. Len(SubSeq(b, 1, m)) = m
    BY <2>3
  <2>5. \A i \in 1..m : SubSeq(b, 1, m)[i] = e[i]
    <3>1. ASSUME NEW i \in 1..m PROVE SubSeq(b, 1, m)[i] = e[i]
      <4>1. SubSeq(b, 1, m)[i] = b[i]
        BY <2>1, <2>3
      <4>2. b[i] = (e \o a)[i] /\ (e \o a)[i] = e[i]
        BY <1>4, <1>5, <2>1
      <4> QED BY <4>1, <4>2
    <3> QED BY <3>1
  <2> QED BY <1>1, <2>3, <2>4, <2>5, SeqEqual
<1>8. /\ c \in Seq(X) /\ Len(c) = n - m
      /\ \A i \in 1..(n - m) : c[i] = b[m + i]
  <2>1. \A i \in (m + 1)..n : b[i] \in X
    BY <1>6
  <2>2. m + 1 \in Int /\ n \in Int
    OBVIOUS
  <2>3. /\ SubSeq(b, m + 1, n) \in Seq(X)
        /\ Len(SubSeq(b, m + 1, n)) = IF m + 1 <= n THEN (n - (m + 1)) + 1 ELSE 0
        /\ \A i \in 1..((n - (m + 1)) + 1) : SubSeq(b, m + 1, n)[i] = b[((m + 1) + i) - 1]
    BY <2>1, <2>2, SubSeqProperties
  <2>4. c = SubSeq(b, m + 1, n)
    BY <1>1, <1>2
  <2> HIDE DEF c
  <2>5. (IF m + 1 <= n THEN (n - (m + 1)) + 1 ELSE 0) = n - m
    BY <1>4
  <2>6. \A i \in 1..(n - m) : i \in 1..((n - (m + 1)) + 1) /\ ((m + 1) + i) - 1 = m + i
    OBVIOUS
  <2> QED BY <2>3, <2>4, <2>5, <2>6
<1> HIDE DEF c
<1>9. StartsWith(a, c)
  <2>1. Len(c) <= Len(a)
    BY <1>3, <1>4, <1>8
  <2>2. ASSUME NEW i \in 1..(n - m) PROVE a[i] = c[i]
    <3>1. m + i \in 1..n /\ m + i \in 1..(m + l) /\ ~(m + i <= m) /\ (m + i) - m = i
      BY <1>4
    <3> QED BY <1>4, <1>5, <1>8, <3>1
  <2> QED BY <1>8, <2>1, <2>2 DEF StartsWith
<1>10. b = e \o c
  <2>1. e \o c \in Seq(X) /\ Len(e \o c) = n
    BY <1>1, <1>4, <1>8, ConcatProperties
  <2>2. ASSUME NEW i \in 1..n PROVE b[i] = (e \o c)[i]
    <3>1. i \in 1..(m + (n - m)) /\ i \in 1..(m + l)
      BY <1>4
    <3>2. (e \o c)[i] = IF i <= m THEN e[i] ELSE c[i - m]
      BY <1>1, <1>8, <3>1, ConcatProperties
    <3>3. b[i] = IF i <= m THEN e[i] ELSE a[i - m]
      BY <1>4, <1>5, <3>1
    <3>4. i <= m \/ (i - m \in 1..(n - m) /\ m + (i - m) = i)
      BY <1>4
    <3>5. i - m \in 1..(n - m) => c[i - m] = b[m + (i - m)]
      BY <1>8
    <3> QED BY <3>2, <3>3, <3>4, <3>5
  <2> QED BY <1>2, <2>1, <2>2, SeqEqual
<1>11. Joins(e, c, b)
  BY <1>10, Zenon DEF Joins
<1> QED BY <1>1, <1>7, <1>8, <1>9, <1>11 DEF c

LEMMA SplitSeq ==
    ASSUME NEW X, NEW q \in Seq(X), NEW n \in 0..Len(q)
    PROVE  /\ SubSeq(q, 1, n) \in Seq(X) /\ SubSeq(q, n + 1, Len(q)) \in Seq(X)
           /\ Len(SubSeq(q, 1, n)) = n /\ Len(SubSeq(q, n + 1, Len(q))) = Len(q) - n
           /\ Joins(SubSeq(q, 1, n), SubSeq(q, n + 1, Len(q)), q)
<1>1. Len(q) \in Nat
  BY LenProperties
<1>2. \A i \in 1..Len(q) : q[i] \in X
  BY ElementOfSeq
<1>3. /\ SubSeq(q, 1, n) \in Seq(X)
      /\ Len(SubSeq(q, 1, n)) = IF 1 <= n THEN (n - 1) + 1 ELSE 0
  <2>1. \A i \in 1..n : q[i] \in X
    BY <1>1, <1>2
  <2> QED BY <1>1, <2>1, SubSeqProperties
<1>4. /\ SubSeq(q, n + 1, Len(q)) \in Seq(X)
      /\ Len(SubSeq(q, n + 1, Len(q))) = IF n + 1 <= Len(q) THEN (Len(q) - (n + 1)) + 1 ELSE 0
  <2>1. \A i \in (n + 1)..Len(q) : q[i] \in X
    BY <1>1, <1>2
  <2> QED BY <1>1, <2>1, SubSeqProperties
<1>5. SubSeq(q, 1, n) \o SubSeq(q, n + 1, Len(q)) = SubSeq(q, 1, Len(q))
  <2>1. 1 \in 1..(Len(q) + 1) /\ n \in (1 - 1)..Len(q) /\ Len(q) \in n..Len(q)
    BY <1>1
  <2> QED BY <2>1, ConcatAdjacentSubSeq
<1>6. SubSeq(q, 1, Len(q)) = q
  BY SubSeqFull
<1>7. /\ (IF 1 <= n THEN (n - 1) + 1 ELSE 0) = n
      /\ (IF n + 1 <= Len(q) THEN (Len(q) - (n + 1)) + 1 ELSE 0) = Len(q) - n
  BY <1>1
<1>8. Joins(SubSeq(q, 1, n), SubSeq(q, n + 1, Len(q)), q)
  BY <1>5, <1>6, Zenon DEF Joins
<1> QED BY <1>3, <1>4, <1>7, <1>8

\* What is added at the end is added to what follows the beginning.
LEMMA JoinsLonger ==
    ASSUME NEW X, NEW u \in Seq(X), NEW v \in Seq(X), NEW e \in Seq(X), NEW w, Joins(u, v, w)
    PROVE  Joins(u, v \o e, w \o e)
<1>1. (u \o v) \o e = u \o (v \o e)
  BY ConcatAssociative
<1> QED BY <1>1, Zenon DEF Joins

\* An element appended to the second of two sequences is appended to the both.
LEMMA JoinsAppend ==
    ASSUME NEW X, NEW q \in Seq(X), NEW b \in Seq(X), NEW e \in X, NEW w, Joins(q, b, w)
    PROVE  Joins(q, Append(b, e), Append(w, e))
<1>1. w = q \o b /\ w \in Seq(X) /\ <<e>> \in Seq(X)
  BY ConcatProperties DEF Joins
<1>2. Append(w, e) = w \o <<e>> /\ Append(b, e) = b \o <<e>>
  BY <1>1, AppendIsConcat
<1>3. (q \o b) \o <<e>> = q \o (b \o <<e>>)
  BY <1>1, ConcatAssociative
<1> QED BY <1>1, <1>2, <1>3, Zenon DEF Joins

\* The first element of a sequence can as well be the last of the one before.
LEMMA JoinsPass ==
    ASSUME NEW X, NEW q \in Seq(X), NEW b \in Seq(X), b # <<>>, NEW w, Joins(q, b, w)
    PROVE  /\ Head(b) \in X /\ Tail(b) \in Seq(X)
           /\ Joins(Append(q, Head(b)), Tail(b), w)
<1>1. Head(b) \in X /\ Tail(b) \in Seq(X) /\ <<Head(b)>> \in Seq(X)
  OBVIOUS
<1>2. b = <<Head(b)>> \o Tail(b)
  <2>1. /\ Len(Tail(b)) = Len(b) - 1 /\ Len(b) \in Nat /\ Len(b) > 0
        /\ \A i \in 1..(Len(b) - 1) : Tail(b)[i] = b[i + 1]
        /\ Head(b) = b[1]
    OBVIOUS
  <2>2. /\ Len(b) = Len(Tail(b)) + 1 /\ \A i \in 1..Len(Tail(b)) : b[i + 1] = Tail(b)[i]
    BY <2>1
  <2> QED BY <1>1, <2>1, <2>2, ConsIs
<1>3. Append(q, Head(b)) = q \o <<Head(b)>>
  BY <1>1, AppendIsConcat
<1>4. (q \o <<Head(b)>>) \o Tail(b) = q \o (<<Head(b)>> \o Tail(b))
  BY <1>1, ConcatAssociative
<1> QED BY <1>1, <1>2, <1>3, <1>4, Zenon DEF Joins

-----------------------------------------------------------------------------
(* FlattenSeq.                                                             *)

\* f holds the first n partial results of flattening S.
Flattens(f, S, n) ==
    \A i \in 1..n : f[i] = IF i = 1 THEN S[i] ELSE f[i - 1] \o S[i]

LEMMA FlattensExists ==
    ASSUME NEW X, NEW S \in Seq(Seq(X))
    PROVE  \A n \in Nat : n <= Len(S) => \E f \in [1..n -> Seq(X)] : Flattens(f, S, n)
<1> DEFINE N == {n \in Nat : n <= Len(S) =>
                     \E f \in [1..n -> Seq(X)] : Flattens(f, S, n)}
<1>1. 0 \in N
  <2>1. [i \in 1..0 |-> <<>>] \in [1..0 -> Seq(X)]
    OBVIOUS
  <2>2. Flattens([i \in 1..0 |-> <<>>], S, 0)
    BY DEF Flattens
  <2> QED BY <2>1, <2>2
<1>2. ASSUME NEW n \in Nat, n \in N PROVE n + 1 \in N
  <2> SUFFICES ASSUME n + 1 <= Len(S)
               PROVE  \E f \in [1..(n + 1) -> Seq(X)] : Flattens(f, S, n + 1)
    OBVIOUS
  <2>1. PICK f \in [1..n -> Seq(X)] : Flattens(f, S, n)
    BY <1>2
  <2> DEFINE e == IF n = 0 THEN S[1] ELSE f[n] \o S[n + 1]
             g == [i \in 1..(n + 1) |-> IF i = n + 1 THEN e ELSE f[i]]
  <2>2. e \in Seq(X)
    <3>1. S[n + 1] \in Seq(X)
      BY ElementOfSeq
    <3>2. n # 0 => f[n] \in Seq(X)
      OBVIOUS
    <3> QED BY <3>1, <3>2, ConcatProperties
  <2>3. g \in [1..(n + 1) -> Seq(X)]
    BY <2>2
  <2>4. ASSUME NEW i \in 1..(n + 1)
        PROVE  g[i] = IF i = 1 THEN S[i] ELSE g[i - 1] \o S[i]
    <3>1. CASE i = n + 1
      <4>1. n # 0 => g[i - 1] = f[n]
        BY <3>1
      <4> QED BY <3>1, <4>1
    <3>2. CASE i # n + 1
      <4>1. i \in 1..n /\ g[i] = f[i] /\ (i # 1 => i - 1 \in 1..n /\ g[i - 1] = f[i - 1])
        BY <3>2
      <4> QED BY <2>1, <4>1 DEF Flattens
    <3> QED BY <3>1, <3>2
  <2>5. Flattens(g, S, n + 1)
    BY <2>4 DEF Flattens
  <2> QED BY <2>3, <2>5
<1> HIDE DEF N
<1>3. Nat \subseteq N
  BY <1>1, <1>2, NatInd
<1> QED BY <1>3 DEF N

LEMMA FlattensAll ==
    ASSUME NEW X, NEW S \in Seq(Seq(X))
    PROVE  \E f \in [1..Len(S) -> Seq(X)] : Flattens(f, S, Len(S))
<1>1. Len(S) \in Nat /\ Len(S) <= Len(S)
  BY LenProperties
<1> QED BY <1>1, FlattensExists

\* Partial results are the same whoever holds them.
LEMMA FlattensOnce ==
    ASSUME NEW S, NEW f, NEW g, NEW m \in Nat,
           Flattens(f, S, m), Flattens(g, S, m)
    PROVE  \A n \in 1..m : f[n] = g[n]
<1> DEFINE N == {n \in Nat : n \in 1..m => f[n] = g[n]}
<1>1. 0 \in N
  OBVIOUS
<1>2. ASSUME NEW n \in Nat, n \in N PROVE n + 1 \in N
  <2> SUFFICES ASSUME n + 1 \in 1..m PROVE f[n + 1] = g[n + 1]
    OBVIOUS
  <2>1. f[n + 1] = IF n + 1 = 1 THEN S[n + 1] ELSE f[(n + 1) - 1] \o S[n + 1]
    BY DEF Flattens
  <2>2. g[n + 1] = IF n + 1 = 1 THEN S[n + 1] ELSE g[(n + 1) - 1] \o S[n + 1]
    BY DEF Flattens
  <2>3. n # 0 => f[n] = g[n]
    BY <1>2
  <2>4. (n + 1) - 1 = n /\ (n + 1 = 1 <=> n = 0)
    OBVIOUS
  <2> QED BY <2>1, <2>2, <2>3, <2>4
<1> HIDE DEF N
<1>3. Nat \subseteq N
  BY <1>1, <1>2, NatInd
<1> QED BY <1>3 DEF N

LEMMA FlattenIs ==
    ASSUME NEW X, NEW S \in Seq(Seq(X)), Len(S) # 0,
           NEW f, Flattens(f, S, Len(S))
    PROVE  FlattenSeq(S) = f[Len(S)]
<1> DEFINE F(h) == [i \in 1..Len(S) |-> IF i = 1 THEN S[i] ELSE h[i - 1] \o S[i]]
           h == CHOOSE h : h = F(h)
<1>1. FlattenSeq(S) = h[Len(S)]
  BY Zenon DEF FlattenSeq
<1>2. PICK g \in [1..Len(S) -> Seq(X)] : Flattens(g, S, Len(S))
  <2> HIDE DEF F, h
  <2> QED BY FlattensAll
<1>3. g = F(g)
  BY <1>2 DEF Flattens
<1>4. h = F(h)
  <2> HIDE DEF F
  <2> QED BY <1>3
<1>5. Flattens(h, S, Len(S))
  <2> HIDE DEF h
  <2> QED BY <1>4 DEF Flattens
<1>6. Len(S) \in Nat /\ Len(S) \in 1..Len(S)
  BY LenProperties
<1>7. \A n \in 1..Len(S) : h[n] = f[n]
  <2> HIDE DEF h
  <2> QED BY <1>5, <1>6, FlattensOnce
<1> QED BY <1>1, <1>6, <1>7

LEMMA FlattenEmpty == FlattenSeq(<<>>) = <<>>
  BY DEF FlattenSeq

LEMMA FlattenType ==
    ASSUME NEW X, NEW S \in Seq(Seq(X))
    PROVE  FlattenSeq(S) \in Seq(X)
<1>1. CASE Len(S) = 0
  BY <1>1, FlattenEmpty, EmptySeq
<1>2. CASE Len(S) # 0
  <2>1. PICK f \in [1..Len(S) -> Seq(X)] : Flattens(f, S, Len(S))
    BY FlattensAll
  <2>2. FlattenSeq(S) = f[Len(S)]
    BY <1>2, <2>1, FlattenIs
  <2>3. Len(S) \in 1..Len(S)
    BY <1>2, LenProperties
  <2> QED BY <2>2, <2>3
<1> QED BY <1>1, <1>2

\* What comes last in S comes last.
LEMMA FlattenAppend ==
    ASSUME NEW X, NEW S \in Seq(Seq(X)), NEW e \in Seq(X)
    PROVE  FlattenSeq(Append(S, e)) = FlattenSeq(S) \o e
<1> DEFINE A == Append(S, e)
<1>1. PICK n \in Nat : n = Len(S)
  BY LenProperties
<1>8. /\ A \in Seq(Seq(X)) /\ Len(A) = n + 1
      /\ \A i \in 1..n : A[i] = S[i]
      /\ A[n + 1] = e
  BY <1>1, AppendProperties
<1> HIDE DEF A
<1>2. PICK f \in [1..(n + 1) -> Seq(X)] : Flattens(f, A, n + 1)
  BY <1>8, FlattensAll
<1>3. FlattenSeq(A) = f[n + 1]
  BY <1>1, <1>8, <1>2, FlattenIs
<1>4. f[n + 1] = IF n + 1 = 1 THEN A[n + 1] ELSE f[(n + 1) - 1] \o A[n + 1]
  <2>1. n + 1 \in 1..(n + 1)
    BY <1>1
  <2> QED BY <1>2, <2>1 DEF Flattens
<1>5. CASE n = 0
  <2>1. FlattenSeq(S) = <<>>
    BY <1>1, <1>5, FlattenEmpty, EmptySeq
  <2>2. <<>> \o e = e
    BY ConcatEmptySeq
  <2> QED BY <1>3, <1>4, <1>5, <1>8, <2>1, <2>2 DEF A
<1>6. CASE n # 0
  <2>1. Flattens(f, S, n)
    <3>1. \A i \in 1..n : i \in 1..(n + 1) /\ A[i] = S[i]
      BY <1>1, <1>8
    <3> QED BY <1>2, <3>1 DEF Flattens
  <2>2. FlattenSeq(S) = f[n]
    BY <1>1, <1>6, <2>1, FlattenIs
  <2>3. (n + 1) - 1 = n /\ n + 1 # 1
    BY <1>1, <1>6
  <2> QED BY <1>3, <1>4, <1>8, <2>2, <2>3 DEF A
<1> QED BY <1>5, <1>6

\* What comes first in S comes first.
LEMMA FlattenCons ==
    ASSUME NEW X, NEW S \in Seq(Seq(X)), NEW e \in Seq(X)
    PROVE  FlattenSeq(<<e>> \o S) = e \o FlattenSeq(S)
<1> DEFINE C == <<e>> \o S
<1>0. PICK n \in Nat : n = Len(S)
  BY LenProperties
<1>1. /\ C \in Seq(Seq(X)) /\ Len(C) = n + 1
      /\ \A i \in 1..n : C[i + 1] = S[i]
      /\ C[1] = e
  <2>1. <<e>> \in Seq(Seq(X)) /\ Len(<<e>>) = 1
    OBVIOUS
  <2> QED BY <1>0, <2>1, ConcatProperties
<1> HIDE DEF C
<1>2. PICK f \in [1..n -> Seq(X)] : Flattens(f, S, n)
  BY <1>0, FlattensAll
<1> DEFINE g == [i \in 1..(n + 1) |-> IF i = 1 THEN e ELSE e \o f[i - 1]]
<1>3. ASSUME NEW i \in 1..(n + 1)
      PROVE  g[i] = IF i = 1 THEN C[i] ELSE g[i - 1] \o C[i]
  <2>1. CASE i = 1
    BY <1>1, <2>1
  <2>2. CASE i = 2
    <3>1. 1 \in 1..n /\ 2 \in 1..(n + 1) /\ 2 - 1 = 1 /\ 1 + 1 = 2
      BY <1>1, <2>2
    <3>3. g[2] = e \o f[1] /\ g[1] = e /\ C[2] = S[1]
      <4>1. C[2] = S[1]
        BY <1>1, <3>1
      <4>2. g[2] = e \o f[2 - 1] /\ 1 \in 1..(n + 1)
        BY <3>1
      <4> QED BY <3>1, <4>1, <4>2
    <3>2. f[1] = S[1]
      BY <1>2, <3>1 DEF Flattens
    <3> QED
      <4> HIDE DEF g
      <4> QED BY <1>1, <2>2, <3>1, <3>2, <3>3
  <2>3. CASE i \notin {1, 2}
    <3>1. /\ g[i] = e \o f[i - 1] /\ g[i - 1] = e \o f[(i - 1) - 1]
          /\ C[i] = S[i - 1] /\ i - 1 \in 1..n /\ (i - 1) - 1 \in 1..n /\ i - 1 # 1
      <4>1. i - 1 \in 1..n /\ (i - 1) - 1 \in 1..n /\ i - 1 # 1 /\ (i - 1) + 1 = i
        BY <1>1, <2>3
      <4>2. C[(i - 1) + 1] = S[i - 1]
        BY <1>1, <4>1
      <4> QED BY <2>3, <4>1, <4>2
    <3>2. f[i - 1] = f[(i - 1) - 1] \o S[i - 1]
      BY <1>2, <3>1 DEF Flattens
    <3>3. f[(i - 1) - 1] \in Seq(X) /\ S[i - 1] \in Seq(X)
      BY <1>0, <3>1, ElementOfSeq
    <3>4. e \o (f[(i - 1) - 1] \o S[i - 1]) = (e \o f[(i - 1) - 1]) \o S[i - 1]
      <4>1. \A u, v \in Seq(X) : e \o (u \o v) = (e \o u) \o v
        BY ConcatAssociative
      <4> QED BY <3>3, <4>1
    <3> QED BY <2>3, <3>1, <3>2, <3>4
  <2> QED BY <2>1, <2>2, <2>3
<1>4. Flattens(g, C, n + 1)
  BY <1>3 DEF Flattens
<1>5. FlattenSeq(C) = g[n + 1]
  <2> HIDE DEF g
  <2> QED BY <1>1, <1>4, FlattenIs
<1>6. CASE n = 0
  <2>1. FlattenSeq(S) = <<>>
    BY <1>0, <1>6, FlattenEmpty, EmptySeq
  <2>2. e \o <<>> = e
    BY ConcatEmptySeq
  <2> QED BY <1>5, <1>6, <2>1, <2>2 DEF C
<1>7. CASE n # 0
  <2>1. FlattenSeq(S) = f[n]
    BY <1>0, <1>2, <1>7, FlattenIs
  <2>2. g[n + 1] = e \o f[n]
    <3>1. n + 1 \in 1..(n + 1) /\ n + 1 # 1 /\ (n + 1) - 1 = n
      BY <1>1, <1>7
    <3>2. g[n + 1] = e \o f[(n + 1) - 1]
      BY <3>1, Zenon
    <3> QED BY <3>1, <3>2
  <2> QED BY <1>5, <2>1, <2>2 DEF C
<1> QED BY <1>6, <1>7
-----------------------------------------------------------------------------
(* Elements of a sequence.                                                 *)

\* What is left when the first k elements have been taken away, and these.
LEMMA RestIs ==
    ASSUME NEW X, NEW q \in Seq(X), NEW k \in 0..Len(q)
    PROVE  /\ SubSeq(q, k + 1, Len(q)) \in Seq(X)
           /\ Len(SubSeq(q, k + 1, Len(q))) = Len(q) - k
           /\ \A i \in 1..(Len(q) - k) :
                  i + k \in 1..Len(q) /\ SubSeq(q, k + 1, Len(q))[i] = q[i + k]
<1>1. PICK n \in Nat : n = Len(q)
  BY LenProperties
<1>2. \A i \in (k + 1)..n : q[i] \in X
  BY <1>1, ElementOfSeq
<1>3. /\ SubSeq(q, k + 1, n) \in Seq(X)
      /\ Len(SubSeq(q, k + 1, n)) = IF k + 1 <= n THEN (n - (k + 1)) + 1 ELSE 0
      /\ \A i \in 1..((n - (k + 1)) + 1) :
             SubSeq(q, k + 1, n)[i] = q[((k + 1) + i) - 1]
  BY <1>1, <1>2, SubSeqProperties
<1>4. (IF k + 1 <= n THEN (n - (k + 1)) + 1 ELSE 0) = n - k
  BY <1>1
<1>5. \A i \in 1..(n - k) : /\ i + k \in 1..n /\ i \in 1..((n - (k + 1)) + 1)
                            /\ ((k + 1) + i) - 1 = i + k
  BY <1>1
<1> QED BY <1>1, <1>3, <1>4, <1>5

LEMMA FrontIs ==
    ASSUME NEW X, NEW q \in Seq(X), NEW k \in 0..Len(q)
    PROVE  /\ SubSeq(q, 1, k) \in Seq(X) /\ Len(SubSeq(q, 1, k)) = k
           /\ \A i \in 1..k : SubSeq(q, 1, k)[i] = q[i]
<1>1. PICK n \in Nat : n = Len(q)
  BY LenProperties
<1>2. \A i \in 1..k : q[i] \in X
  BY <1>1, ElementOfSeq
<1>3. /\ SubSeq(q, 1, k) \in Seq(X)
      /\ Len(SubSeq(q, 1, k)) = IF 1 <= k THEN (k - 1) + 1 ELSE 0
      /\ \A i \in 1..((k - 1) + 1) : SubSeq(q, 1, k)[i] = q[(1 + i) - 1]
  BY <1>1, <1>2, SubSeqProperties
<1>4. (IF 1 <= k THEN (k - 1) + 1 ELSE 0) = k
  BY <1>1
<1>5. \A i \in 1..k : i \in 1..((k - 1) + 1) /\ (1 + i) - 1 = i
  BY <1>1
<1> QED BY <1>3, <1>4, <1>5

LEMMA SetOfEmpty == ToSet(<<>>) = {}
  BY DEF ToSet

LEMMA SetOfSeq ==
    ASSUME NEW X, NEW q \in Seq(X)
    PROVE  /\ ToSet(q) \subseteq X
           /\ \A e : e \in ToSet(q) <=> \E i \in 1..Len(q) : e = q[i]
<1>1. DOMAIN q = 1..Len(q) /\ \A i \in 1..Len(q) : q[i] \in X
  BY LenProperties, ElementOfSeq
<1> QED BY <1>1 DEF ToSet

LEMMA SetOfConcat ==
    ASSUME NEW X, NEW p \in Seq(X), NEW q \in Seq(X)
    PROVE  ToSet(p \o q) = ToSet(p) \cup ToSet(q)
<1>1. PICK m \in Nat, n \in Nat : m = Len(p) /\ n = Len(q)
  BY LenProperties
<1>2. /\ p \o q \in Seq(X) /\ Len(p \o q) = m + n
      /\ \A i \in 1..(m + n) : (p \o q)[i] = IF i <= m THEN p[i] ELSE q[i - m]
  BY <1>1, ConcatProperties
<1>3. \A d : d \in ToSet(p \o q) <=> \E i \in 1..(m + n) : d = (p \o q)[i]
  <2>1. PICK r \in Seq(X) : r = p \o q
    BY <1>2
  <2>2. \A d : d \in ToSet(r) <=> \E i \in 1..Len(r) : d = r[i]
    BY SetOfSeq
  <2> QED BY <1>2, <2>1, <2>2
<1>4. /\ \A d : d \in ToSet(p) <=> \E i \in 1..m : d = p[i]
      /\ \A d : d \in ToSet(q) <=> \E i \in 1..n : d = q[i]
  BY <1>1, SetOfSeq
<1>5. ASSUME NEW d \in ToSet(p \o q) PROVE d \in ToSet(p) \cup ToSet(q)
  <2>1. PICK i \in 1..(m + n) : d = (p \o q)[i]
    BY <1>3
  <2>2. (i <= m /\ i \in 1..m) \/ (~(i <= m) /\ i - m \in 1..n)
    BY <1>1
  <2> QED BY <1>2, <1>4, <2>1, <2>2
<1>6. ASSUME NEW d \in ToSet(p) PROVE d \in ToSet(p \o q)
  <2>1. PICK i \in 1..m : d = p[i]
    BY <1>4
  <2>2. i \in 1..(m + n) /\ i <= m
    BY <1>1
  <2> QED BY <1>2, <1>3, <2>1, <2>2
<1>7. ASSUME NEW d \in ToSet(q) PROVE d \in ToSet(p \o q)
  <2>1. PICK i \in 1..n : d = q[i]
    BY <1>4
  <2>2. m + i \in 1..(m + n) /\ ~(m + i <= m) /\ (m + i) - m = i
    BY <1>1
  <2> QED BY <1>2, <1>3, <2>1, <2>2
<1> QED BY <1>5, <1>6, <1>7

\* Flattening loses and adds no element.
LEMMA SetOfFlatten ==
    ASSUME NEW X, NEW S \in Seq(Seq(X))
    PROVE  \A e : e \in ToSet(FlattenSeq(S)) <=> \E i \in 1..Len(S) : e \in ToSet(S[i])
<1> DEFINE Good(s) == \A e : e \in ToSet(FlattenSeq(s)) <=>
                                 \E i \in 1..Len(s) : e \in ToSet(s[i])
           N == {n \in Nat : \A s \in Seq(Seq(X)) : Len(s) = n => Good(s)}
<1>1. 0 \in N
  <2>1. ASSUME NEW s \in Seq(Seq(X)), Len(s) = 0 PROVE Good(s)
    <3>1. s = <<>>
      BY <2>1, EmptySeq
    <3> QED BY <2>1, <3>1, FlattenEmpty, SetOfEmpty
  <2> QED BY <2>1
<1>2. ASSUME NEW n \in Nat, n \in N PROVE n + 1 \in N
  <2>1. ASSUME NEW s \in Seq(Seq(X)), Len(s) = n + 1 PROVE Good(s)
    <3>1. s # <<>>
      BY <2>1, EmptySeq
    <3>2. PICK t \in Seq(Seq(X)), d \in Seq(X) : s = Append(t, d)
      BY <3>1, SequenceEmptyOrAppend
    <3>3. /\ Len(t) = n /\ \A i \in 1..n : s[i] = t[i]
          /\ s[n + 1] = d
      <4>1. PICK k \in Nat : k = Len(t)
        BY LenProperties
      <4>2. /\ Len(s) = k + 1 /\ \A i \in 1..k : s[i] = t[i]
            /\ s[k + 1] = d
        BY <3>2, <4>1, AppendProperties
      <4>3. k = n
        BY <2>1, <4>2
      <4> QED BY <4>1, <4>2, <4>3
    <3>4. Good(t)
      BY <1>2, <3>3
    <3>5. ToSet(FlattenSeq(s)) = ToSet(FlattenSeq(t)) \cup ToSet(d)
      <4>1. FlattenSeq(s) = FlattenSeq(t) \o d
        BY <3>2, FlattenAppend
      <4>2. FlattenSeq(t) \in Seq(X)
        BY FlattenType
      <4> QED BY <4>1, <4>2, SetOfConcat
    <3>6. \A e : e \in ToSet(FlattenSeq(t)) <=> \E i \in 1..n : e \in ToSet(s[i])
      BY <3>3, <3>4
    <3>7. \A i \in 1..(n + 1) : i \in 1..n \/ i = n + 1
      OBVIOUS
    <3>8. n + 1 \in 1..(n + 1) /\ 1..n \subseteq 1..(n + 1)
      OBVIOUS
    <3>9. \A e : e \in ToSet(FlattenSeq(t)) \cup ToSet(d)
                     <=> \E i \in 1..(n + 1) : e \in ToSet(s[i])
      BY <3>3, <3>6, <3>7, <3>8
    <3> QED BY <2>1, <3>5, <3>9
  <2> QED BY <2>1
<1> HIDE DEF N
<1>3. Nat \subseteq N
  BY <1>1, <1>2, NatInd
<1>4. Len(S) \in N
  BY <1>3, LenProperties
<1> QED BY <1>4 DEF N

\* A sequence of sequences of one element each is flattened to these.
LEMMA FlattenOnes ==
    ASSUME NEW X, NEW S \in Seq(Seq(X)), NEW q \in Seq(X), Len(S) = Len(q),
           \A i \in 1..Len(q) : S[i] = <<q[i]>>
    PROVE  FlattenSeq(S) = q
<1> DEFINE N == {n \in Nat : \A s \in Seq(Seq(X)), p \in Seq(X) :
                     Len(s) = n /\ Len(p) = n /\ (\A i \in 1..n : s[i] = <<p[i]>>)
                         => FlattenSeq(s) = p}
<1>1. 0 \in N
  <2>1. ASSUME NEW s \in Seq(Seq(X)), NEW p \in Seq(X), Len(s) = 0, Len(p) = 0
        PROVE  FlattenSeq(s) = p
    <3>1. s = <<>> /\ p = <<>>
      BY <2>1, EmptySeq
    <3> QED BY <3>1, FlattenEmpty
  <2> QED BY <2>1
<1>2. ASSUME NEW n \in Nat, n \in N PROVE n + 1 \in N
  <2>1. ASSUME NEW s \in Seq(Seq(X)), NEW p \in Seq(X), Len(s) = n + 1, Len(p) = n + 1,
               \A i \in 1..(n + 1) : s[i] = <<p[i]>>
        PROVE  FlattenSeq(s) = p
    <3>1. s # <<>> /\ p # <<>>
      BY <2>1, EmptySeq
    <3>2. PICK t \in Seq(Seq(X)), d \in Seq(X) : s = Append(t, d)
      BY <3>1, SequenceEmptyOrAppend
    <3>3. PICK u \in Seq(X), e \in X : p = Append(u, e)
      BY <3>1, SequenceEmptyOrAppend
    <3>4. /\ Len(t) = n /\ \A i \in 1..n : s[i] = t[i]
          /\ s[n + 1] = d
      <4>1. PICK k \in Nat : k = Len(t)
        BY LenProperties
      <4>2. Len(s) = k + 1 /\ (\A i \in 1..k : s[i] = t[i]) /\ s[k + 1] = d
        BY <3>2, <4>1, AppendProperties
      <4>3. k = n
        BY <2>1, <4>2
      <4> QED BY <4>1, <4>2, <4>3
    <3>5. /\ Len(u) = n /\ \A i \in 1..n : p[i] = u[i]
          /\ p[n + 1] = e
      <4>1. PICK k \in Nat : k = Len(u)
        BY LenProperties
      <4>2. Len(p) = k + 1 /\ (\A i \in 1..k : p[i] = u[i]) /\ p[k + 1] = e
        BY <3>3, <4>1, AppendProperties
      <4>3. k = n
        BY <2>1, <4>2
      <4> QED BY <4>1, <4>2, <4>3
    <3>6. (\A i \in 1..n : i \in 1..(n + 1)) /\ n + 1 \in 1..(n + 1)
      OBVIOUS
    <3>7. FlattenSeq(t) = u
      BY <1>2, <2>1, <3>4, <3>5, <3>6
    <3>8. d = <<e>>
      BY <2>1, <3>4, <3>5, <3>6
    <3>9. FlattenSeq(s) = FlattenSeq(t) \o d
      BY <3>2, FlattenAppend
    <3>10. Append(u, e) = u \o <<e>>
      BY AppendIsConcat
    <3> QED BY <3>3, <3>7, <3>8, <3>9, <3>10, Zenon
  <2>2. \A s \in Seq(Seq(X)), p \in Seq(X) :
            Len(s) = n + 1 /\ Len(p) = n + 1 /\ (\A i \in 1..(n + 1) : s[i] = <<p[i]>>)
                => FlattenSeq(s) = p
    BY <2>1
  <2>3. n + 1 \in Nat
    OBVIOUS
  <2> QED BY <2>2, <2>3, Zenon
<1> HIDE DEF N
<1>3. Nat \subseteq N
  BY <1>1, <1>2, NatInd
<1>4. Len(S) \in N /\ Len(q) \in Nat
  BY <1>3, LenProperties
<1> QED BY <1>4 DEF N

\* The elements of a sequence are finitely many.
LEMMA SetIsFinite ==
    ASSUME NEW X, NEW q \in Seq(X)
    PROVE  IsFiniteSet(ToSet(q))
<1>1. PICK n \in Nat : n = Len(q)
  BY LenProperties
<1>2. q \in [1..n -> ToSet(q)] /\ \A e \in ToSet(q) : \E i \in 1..n : q[i] = e
  <2>1. q \in [1..n -> X] /\ \A e : e \in ToSet(q) <=> \E i \in 1..n : e = q[i]
    BY <1>1, LenProperties, SetOfSeq
  <2> QED BY <2>1
<1>3. q \in Surjection(1..n, ToSet(q))
  BY <1>2 DEF Surjection
<1>4. IsFiniteSet(1..n)
  BY FS_Interval
<1> QED BY <1>3, <1>4, FS_Surjection

\* SetToSeqs puts a finite set into an order.
LEMMA OrderOfSet ==
    ASSUME NEW S, IsFiniteSet(S), NEW q \in SetToSeqs(S)
    PROVE  /\ q \in Seq(S) /\ Len(q) = Cardinality(S) /\ ToSet(q) = S
           /\ \A i, j \in 1..Len(q) : i # j => q[i] # q[j]
<1>1. PICK n \in Nat : n = Cardinality(S)
  BY FS_CardinalityType
<1>2. q \in [1..n -> S] /\ \A i, j \in 1..n : i # j => q[i] # q[j]
  BY <1>1 DEF SetToSeqs
<1>3. q \in Seq(S) /\ Len(q) = n
  BY <1>2, SeqOfFun
<1>4. q \in Injection(1..n, S)
  BY <1>2 DEF Injection, IsInjective
<1>5. Cardinality(1..n) = n
  BY FS_Interval
<1>6. q \in Surjection(1..n, S)
  BY <1>1, <1>4, <1>5, FS_Injection
<1>7. \A s \in S : \E i \in 1..n : q[i] = s
  BY <1>6 DEF Surjection
<1>8. ToSet(q) = S
  <2>1. \A e : e \in ToSet(q) <=> \E i \in 1..n : e = q[i]
    BY <1>3, SetOfSeq
  <2>2. ASSUME NEW e \in ToSet(q) PROVE e \in S
    BY <1>2, <2>1
  <2>3. ASSUME NEW e \in S PROVE e \in ToSet(q)
    BY <1>7, <2>1
  <2> QED BY <2>2, <2>3
<1> QED BY <1>1, <1>2, <1>3, <1>8
=============================================================================
