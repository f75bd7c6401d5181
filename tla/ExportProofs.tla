---------------------------- MODULE ExportProofs ----------------------------
(* What the service outside reads is what was sent to it, for messages of   *)
(* every length, any stores, names, outputs and bounds.                     *)
EXTENDS Export, SequenceTheorems, FiniteSetTheorems, TLAPS

-----------------------------------------------------------------------------
(* Induction and recursion on the naturals.                                 *)

\* A set of naturals has a least element: the intervals below its elements are
\* finite sets, of which one has no proper subset.
LEMMA Least ==
  ASSUME NEW T \in SUBSET Nat, T # {}
  PROVE  \E k \in T : \A l \in T : k <= l
<1> DEFINE Below == {1 .. k : k \in T}
<1>1. Below # {} /\ Below \subseteq SUBSET Nat /\ Below \subseteq FiniteSubsetsOf(Nat)
  <2>1. \A k \in T : IsFiniteSet(1 .. k) /\ 1 .. k \subseteq Nat
    BY FS_Interval
  <2> QED BY <2>1 DEF FiniteSubsetsOf
<1>2. PICK B \in Below : \A C \in Below : ~ (<<C, B>> \in StrictSubsetOrdering(Nat))
  <2> HIDE DEF Below
  <2> QED BY <1>1, FS_StrictSubsetOrderingWellFounded, WFMin
<1>3. PICK k \in T : B = 1 .. k
  OBVIOUS
<1>4. ASSUME NEW l \in T, l < k PROVE FALSE
  <2>1. 1 .. l \in Below /\ 1 .. l \subseteq 1 .. k /\ k \in 1 .. k /\ k \notin 1 .. l
    BY <1>4
  <2>2. <<1 .. l, 1 .. k>> \in StrictSubsetOrdering(Nat)
    BY <2>1, <1>1, <1>3 DEF StrictSubsetOrdering
  <2> QED BY <1>2, <1>3, <2>1, <2>2
<1> QED BY <1>4

LEMMA StrongInduction ==
  ASSUME NEW T \in SUBSET Nat, \A n \in Nat : 0 .. n - 1 \subseteq T => n \in T
  PROVE  T = Nat
<1> SUFFICES ASSUME Nat \ T # {} PROVE FALSE
  OBVIOUS
<1>1. PICK k \in Nat \ T : \A l \in Nat \ T : k <= l
  BY Least
<1>2. 0 .. k - 1 \subseteq T
  BY <1>1
<1> QED BY <1>1, <1>2

LEMMA Induction ==
  ASSUME NEW T \in SUBSET Nat, 0 \in T, \A n \in T : n + 1 \in T
  PROVE  T = Nat
<1>1. ASSUME NEW n \in Nat, 0 .. n - 1 \subseteq T PROVE n \in T
  <2>1. CASE n = 0
    BY <2>1
  <2>2. CASE n # 0
    <3>1. n - 1 \in T /\ n - 1 + 1 = n
      BY <1>1, <2>2
    <3> QED BY <3>1
  <2> QED BY <2>1, <2>2
<1> QED BY <1>1, StrongInduction

\* A function is defined by recursion if its value at i > 0 is computed from the
\* one at j[i] < i.
Grounded(S, b, j, g) ==
  /\ b \in S /\ g \in [Nat -> [S -> S]]
  /\ j \in [Nat -> Nat] /\ \A i \in Nat \ {0} : j[i] < i

Solves(f, S, b, j, g) ==
  /\ f \in [Nat -> S]
  /\ \A i \in Nat : f[i] = IF i = 0 THEN b ELSE g[i][f[j[i]]]

LEMMA Recursion ==
  ASSUME NEW S, NEW b, NEW j, NEW g, Grounded(S, b, j, g)
  PROVE  \E f : Solves(f, S, b, j, g)
<1> USE DEF Grounded
<1> DEFINE P(n, f) == /\ f \in [0 .. n -> S]
                      /\ \A i \in 0 .. n : f[i] = IF i = 0 THEN b ELSE g[i][f[j[i]]]
           T == {n \in Nat : \E f : P(n, f)}
<1>1. 0 \in T
  <2>1. P(0, [i \in 0 .. 0 |-> b])
    OBVIOUS
  <2> HIDE DEF P
  <2> QED BY <2>1
<1>2. ASSUME NEW n \in T PROVE n + 1 \in T
  <2>1. PICK f : P(n, f)
    OBVIOUS
  <2> DEFINE h == [i \in 0 .. n + 1 |-> IF i = n + 1 THEN g[i][f[j[i]]] ELSE f[i]]
  <2>2. n \in Nat /\ j[n + 1] \in 0 .. n
    OBVIOUS
  <2>3. \A i \in 0 .. n + 1 : h[i] \in S
    <3>1. g[n + 1] \in [S -> S] /\ f[j[n + 1]] \in S
      BY <2>1, <2>2
    <3>2. \A i \in 0 .. n : f[i] \in S
      BY <2>1
    <3> QED BY <2>2, <3>1, <3>2
  <2>4. ASSUME NEW i \in 0 .. n + 1
        PROVE  h[i] = IF i = 0 THEN b ELSE g[i][h[j[i]]]
    <3>1. CASE i = n + 1
      <4>1. h[j[i]] = f[j[i]] /\ i # 0
        BY <2>2, <3>1
      <4> QED BY <3>1, <4>1
    <3>2. CASE i # n + 1
      <4>1. i \in 0 .. n /\ h[i] = f[i]
        BY <2>2, <3>2
      <4>2. i # 0 => j[i] \in 0 .. n /\ h[j[i]] = f[j[i]]
        <5>1. i # 0 => i \in Nat \ {0} /\ j[i] \in Nat /\ j[i] < i
          BY <2>2, <4>1
        <5>2. n \in Nat /\ i \in 0 .. n
          BY <2>2, <4>1
        <5>3. ASSUME NEW k \in Nat, k < i PROVE k \in 0 .. n /\ k # n + 1 /\ k \in 0 .. n + 1
          <6> HIDE DEF h, T, Grounded
          <6> QED BY <5>2, <5>3
        <5> QED BY <5>1, <5>3
      <4>3. f[i] = IF i = 0 THEN b ELSE g[i][f[j[i]]]
        BY <2>1, <4>1
      <4> HIDE DEF h
      <4> QED BY <4>1, <4>2, <4>3
    <3> QED BY <3>1, <3>2
  <2>5. P(n + 1, h)
    <3>1. h \in [0 .. n + 1 -> S]
      BY <2>3
    <3> HIDE DEF h
    <3> QED BY <2>4, <3>1
  <2> HIDE DEF P, h
  <2> QED BY <2>2, <2>5
<1>3. T = Nat
  <2>1. T \in SUBSET Nat
    OBVIOUS
  <2> HIDE DEF T
  <2> QED BY <1>1, <1>2, <2>1, Induction
<1>4. ASSUME NEW m \in Nat, NEW n \in Nat, m <= n, NEW f, P(m, f), NEW h, P(n, h),
             NEW i \in 0 .. m
      PROVE  f[i] = h[i]
  <2> DEFINE U == {k \in Nat : k <= m => f[k] = h[k]}
  <2>1. ASSUME NEW k \in Nat, 0 .. k - 1 \subseteq U PROVE k \in U
    <3> SUFFICES ASSUME k <= m PROVE f[k] = h[k]
      OBVIOUS
    <3>4. k \in 0 .. m /\ k \in 0 .. n
      BY <1>4
    <3>1. f[k] = IF k = 0 THEN b ELSE g[k][f[j[k]]]
      BY <1>4, <3>4, Zenon
    <3>2. h[k] = IF k = 0 THEN b ELSE g[k][h[j[k]]]
      BY <1>4, <3>4, Zenon
    <3>3. k # 0 => f[j[k]] = h[j[k]]
      <4>1. k # 0 => k \in Nat \ {0} /\ j[k] \in Nat /\ j[k] < k
        OBVIOUS
      <4>2. k # 0 => j[k] \in U /\ j[k] <= m
        BY <2>1, <4>1
      <4> QED BY <4>2
    <3> QED BY <3>1, <3>2, <3>3
  <2>2. U = Nat
    <3>1. U \in SUBSET Nat
      OBVIOUS
    <3> HIDE DEF U
    <3> QED BY <2>1, <3>1, StrongInduction
  <2>3. i \in U /\ i <= m
    BY <2>2
  <2> QED BY <2>3
<1> DEFINE c(n) == CHOOSE f : P(n, f)
           F == [n \in Nat |-> c(n)[n]]
<1>5. \A n \in Nat : P(n, c(n))
  <2> SUFFICES ASSUME NEW n \in Nat PROVE P(n, c(n))
    OBVIOUS
  <2>1. \E f : P(n, f)
    <3> HIDE DEF P
    <3> QED BY <1>3
  <2> HIDE DEF P
  <2> QED BY <2>1, Zenon
<1>6. ASSUME NEW i \in Nat
      PROVE  F[i] \in S /\ F[i] = IF i = 0 THEN b ELSE g[i][F[j[i]]]
  <2>1. P(i, c(i))
    BY <1>5
  <2> HIDE DEF c
  <2>2. c(i)[i] \in S /\ c(i)[i] = IF i = 0 THEN b ELSE g[i][c(i)[j[i]]]
    BY <2>1
  <2>3. i # 0 => c(j[i])[j[i]] = c(i)[j[i]]
    <3> SUFFICES ASSUME i # 0 PROVE c(j[i])[j[i]] = c(i)[j[i]]
      OBVIOUS
    <3>1. j[i] \in Nat /\ j[i] <= i /\ j[i] \in 0 .. j[i]
      OBVIOUS
    <3>2. P(j[i], c(j[i]))
      BY <1>5, <3>1
    <3> HIDE DEF P
    <3> QED BY <1>4, <2>1, <3>1, <3>2
  <2>4. i # 0 => F[j[i]] = c(j[i])[j[i]]
    OBVIOUS
  <2>5. F[i] = c(i)[i]
    OBVIOUS
  <2> HIDE DEF F
  <2> QED BY <2>2, <2>3, <2>4, <2>5
<1>7. F \in [Nat -> S]
  BY <1>6
<1> HIDE DEF F
<1> QED BY <1>6, <1>7 DEF Solves

-----------------------------------------------------------------------------
(* Sequences put together by FlattenSeq, and where their parts are.         *)

\* Joined(s)[k]: the first k parts of s one after another.
Joined(s) ==
  LET flatten[i \in 1 .. Len(s)] == IF i = 1 THEN s[i] ELSE flatten[i - 1] \o s[i]
  IN  [k \in 0 .. Len(s) |-> IF k = 0 THEN <<>> ELSE flatten[k]]

LEMMA JoinedIs ==
  ASSUME NEW A, NEW s \in Seq(Seq(A))
  PROVE  /\ Joined(s) \in [0 .. Len(s) -> Seq(A)]
         /\ Joined(s)[0] = <<>>
         /\ \A k \in 1 .. Len(s) : Joined(s)[k] = Joined(s)[k - 1] \o s[k]
         /\ FlattenSeq(s) = Joined(s)[Len(s)]
<1> DEFINE n == Len(s)
           Q(f) == f = [i \in 1 .. n |-> IF i = 1 THEN s[i] ELSE f[i - 1] \o s[i]]
           h == CHOOSE f : Q(f)
<1>1. n \in Nat /\ \A k \in 1 .. n : s[k] \in Seq(A)
  OBVIOUS
<1>2. \E f : Q(f)
  <2> DEFINE j == [i \in Nat |-> IF i = 0 THEN 0 ELSE i - 1]
             g == [i \in Nat |-> [r \in Seq(A) |-> IF i \in 1 .. n THEN r \o s[i] ELSE r]]
  <2>1. <<>> \in Seq(A) /\ j \in [Nat -> Nat] /\ \A i \in Nat \ {0} : j[i] < i
    OBVIOUS
  <2>2. g \in [Nat -> [Seq(A) -> Seq(A)]]
    BY <1>1
  <2>3. PICK f \in [Nat -> Seq(A)] :
          \A i \in Nat : f[i] = IF i = 0 THEN <<>> ELSE g[i][f[j[i]]]
    <3>1. Grounded(Seq(A), <<>>, j, g)
      BY <2>1, <2>2 DEF Grounded
    <3> HIDE DEF j, g
    <3>2. PICK f : Solves(f, Seq(A), <<>>, j, g)
      BY <3>1, Recursion
    <3> QED BY <3>2 DEF Solves
  <2> DEFINE e == [i \in 1 .. n |-> f[i]]
  <2>4. ASSUME NEW i \in 1 .. n
        PROVE  e[i] = IF i = 1 THEN s[i] ELSE e[i - 1] \o s[i]
    <3>0. i \in Nat /\ i # 0 /\ i - 1 \in Nat
      BY <1>1
    <3>1. j[i] = i - 1 /\ f[i - 1] \in Seq(A)
      BY <3>0
    <3>2. f[i] = f[i - 1] \o s[i]
      <4>1. f[i] = g[i][f[i - 1]]
        <5> HIDE DEF g, j
        <5> QED BY <2>3, <3>0, <3>1
      <4>2. g[i] = [r \in Seq(A) |-> r \o s[i]]
        BY <3>0
      <4> HIDE DEF g
      <4> QED BY <3>1, <4>1, <4>2
    <3>3. f[0] = <<>>
      BY <2>3
    <3>4. e[i] = f[i] /\ (i # 1 => e[i - 1] = f[i - 1])
      BY <1>1
    <3>5. s[i] \in Seq(A) /\ <<>> \o s[i] = s[i]
      BY <1>1
    <3>6. i = 1 => f[i - 1] = <<>>
      BY <3>3
    <3> HIDE DEF j, g, e
    <3> QED BY <3>2, <3>4, <3>5, <3>6
  <2>5. Q(e)
    BY <2>4
  <2> HIDE DEF Q, e
  <2> QED BY <2>5
<1>3. Q(h)
  <2> HIDE DEF Q
  <2> QED BY <1>2, Zenon
<1>4. Joined(s) = [k \in 0 .. n |-> IF k = 0 THEN <<>> ELSE h[k]]
  BY Zenon DEF Joined
<1>5. n # 0 => FlattenSeq(s) = h[n]
  BY Zenon DEF FlattenSeq
<1>6. \A i \in 1 .. n : h[i] = IF i = 1 THEN s[i] ELSE h[i - 1] \o s[i]
  BY <1>3
<1> HIDE DEF h, n
<1>7. ASSUME NEW k \in 1 .. n PROVE Joined(s)[k] = Joined(s)[k - 1] \o s[k]
  <2>1. Joined(s)[k] = h[k]
    BY <1>1, <1>4
  <2>2. Joined(s)[k - 1] = IF k = 1 THEN <<>> ELSE h[k - 1]
    BY <1>1, <1>4
  <2>3. s[k] \in Seq(A) /\ <<>> \o s[k] = s[k]
    BY <1>1
  <2> QED BY <1>6, <2>1, <2>2, <2>3
<1>8. Joined(s)[0] = <<>>
  BY <1>1, <1>4
<1>9. \A k \in 0 .. n : Joined(s)[k] \in Seq(A)
  <2> DEFINE T == {k \in Nat : k <= n => Joined(s)[k] \in Seq(A)}
  <2>1. 0 \in T
    <3>1. <<>> \in Seq(A)
      OBVIOUS
    <3> QED BY <1>8, <3>1
  <2>2. ASSUME NEW k \in T PROVE k + 1 \in T
    <3> SUFFICES ASSUME k + 1 <= n PROVE Joined(s)[k + 1] \in Seq(A)
      OBVIOUS
    <3>1. k + 1 \in 1 .. n /\ k + 1 - 1 = k /\ Joined(s)[k] \in Seq(A)
      BY <1>1
    <3>2. Joined(s)[k + 1] = Joined(s)[k] \o s[k + 1]
      <4> DEFINE q == k + 1
      <4>1. q \in 1 .. n /\ q - 1 = k
        BY <3>1
      <4> HIDE DEF q
      <4>2. Joined(s)[q] = Joined(s)[k] \o s[q]
        BY <1>7, <4>1
      <4> QED BY <4>2 DEF q
    <3> QED BY <1>1, <3>1, <3>2
  <2>3. T = Nat
    <3>1. T \in SUBSET Nat
      OBVIOUS
    <3> HIDE DEF T
    <3> QED BY <2>1, <2>2, <3>1, Induction
  <2> QED BY <2>3
<1>10. Joined(s) \in [0 .. n -> Seq(A)]
  BY <1>4, <1>9
<1>11. FlattenSeq(s) = Joined(s)[n]
  <2>1. CASE n = 0
    <3>1. s = <<>> /\ FlattenSeq(s) = s
      BY <2>1 DEF FlattenSeq, n
    <3> QED BY <2>1, <1>8, <3>1
  <2>2. CASE n # 0
    <3>1. n \in 0 .. n
      BY <1>1
    <3> QED BY <1>4, <1>5, <2>2, <3>1
  <2> QED BY <2>1, <2>2
<1> QED BY <1>7, <1>8, <1>10, <1>11 DEF n

\* Where part k ends.
Ends(s, k) == Len(Joined(s)[k])

LEMMA PartsIn ==
  ASSUME NEW A, NEW s \in Seq(Seq(A))
  PROVE  /\ FlattenSeq(s) \in Seq(A) /\ Len(FlattenSeq(s)) = Ends(s, Len(s))
         /\ Ends(s, 0) = 0
         /\ \A k \in 0 .. Len(s) : Ends(s, k) \in 0 .. Len(FlattenSeq(s))
         /\ \A k \in 1 .. Len(s) : Ends(s, k) = Ends(s, k - 1) + Len(s[k])
         /\ \A k \in 1 .. Len(s) : \A i \in 1 .. Len(s[k]) :
              FlattenSeq(s)[Ends(s, k - 1) + i] = s[k][i]
         /\ \A k, l \in 0 .. Len(s) : k <= l => Ends(s, k) <= Ends(s, l)
<1> DEFINE n == Len(s)
           J == Joined(s)
<1>1. /\ n \in Nat
      /\ \A k \in 1 .. n : s[k] \in Seq(A) /\ Len(s[k]) \in Nat
      /\ \A k \in 0 .. n : J[k] \in Seq(A) /\ Len(J[k]) \in Nat
  <2>1. n \in Nat /\ \A k \in 1 .. n : s[k] \in Seq(A)
    OBVIOUS
  <2>2. \A k \in 0 .. n : J[k] \in Seq(A)
    BY JoinedIs
  <2>3. \A t \in Seq(A) : Len(t) \in Nat
    OBVIOUS
  <2> HIDE DEF n, J
  <2> QED BY <2>1, <2>2, <2>3
<1>2. ASSUME NEW k \in 1 .. n
      PROVE  /\ J[k] = J[k - 1] \o s[k]
             /\ k - 1 \in 0 .. n /\ k \in 0 .. n
             /\ Len(J[k]) = Len(J[k - 1]) + Len(s[k])
             /\ \A i \in 1 .. Len(J[k - 1]) : J[k][i] = J[k - 1][i]
             /\ \A i \in 1 .. Len(s[k]) : J[k][Len(J[k - 1]) + i] = s[k][i]
  <2>1. J[k] = J[k - 1] \o s[k]
    BY JoinedIs
  <2>2. k - 1 \in 0 .. n /\ k \in 0 .. n
    BY <1>1
  <2> HIDE DEF J
  <2>3. J[k - 1] \in Seq(A) /\ s[k] \in Seq(A)
    BY <1>1, <2>2
  <2>4. ASSUME NEW x \in Seq(A), NEW y \in Seq(A), NEW z, z = x \o y
        PROVE  /\ Len(z) = Len(x) + Len(y)
               /\ \A i \in 1 .. Len(x) : z[i] = x[i]
               /\ \A i \in 1 .. Len(y) : z[Len(x) + i] = y[i]
    BY <2>4
  <2>5. /\ Len(J[k]) = Len(J[k - 1]) + Len(s[k])
        /\ \A i \in 1 .. Len(J[k - 1]) : J[k][i] = J[k - 1][i]
        /\ \A i \in 1 .. Len(s[k]) : J[k][Len(J[k - 1]) + i] = s[k][i]
    <3> DEFINE x == J[k - 1]
               y == s[k]
               z == J[k]
    <3>1. x \in Seq(A) /\ y \in Seq(A) /\ z = x \o y
      BY <2>1, <2>3
    <3> HIDE DEF x, y, z
    <3>2. /\ Len(z) = Len(x) + Len(y)
          /\ \A i \in 1 .. Len(x) : z[i] = x[i]
          /\ \A i \in 1 .. Len(y) : z[Len(x) + i] = y[i]
      BY <3>1, <2>4
    <3> QED BY <3>2 DEF x, y, z
  <2> QED BY <2>1, <2>2, <2>5
<1>3. ASSUME NEW k \in 0 .. n
      PROVE  \A l \in Nat : l \in k .. n =>
               Len(J[k]) <= Len(J[l]) /\ \A i \in 1 .. Len(J[k]) : J[l][i] = J[k][i]
  <2> DEFINE T == {l \in Nat : l \in k .. n =>
               Len(J[k]) <= Len(J[l]) /\ \A i \in 1 .. Len(J[k]) : J[l][i] = J[k][i]}
  <2> HIDE DEF J
  <2>1. 0 \in T
    BY <1>1
  <2>2. ASSUME NEW l \in T PROVE l + 1 \in T
    <3> SUFFICES ASSUME l + 1 \in k .. n
                 PROVE  /\ Len(J[k]) <= Len(J[l + 1])
                        /\ \A i \in 1 .. Len(J[k]) : J[l + 1][i] = J[k][i]
      OBVIOUS
    <3>1. CASE l + 1 = k
      BY <1>1, <3>1
    <3>2. CASE l + 1 # k
      <4>1. l \in k .. n /\ l + 1 \in 1 .. n /\ l + 1 - 1 = l
        BY <3>2
      <4>2. Len(J[k]) <= Len(J[l]) /\ \A i \in 1 .. Len(J[k]) : J[l][i] = J[k][i]
        BY <4>1
      <4>3. Len(J[l + 1]) >= Len(J[l]) /\ \A i \in 1 .. Len(J[l]) : J[l + 1][i] = J[l][i]
        <5> DEFINE q == l + 1
        <5>1. q \in 1 .. n /\ q - 1 = l /\ l \in 0 .. n
          BY <4>1
        <5> HIDE DEF q
        <5>2. /\ Len(J[q]) = Len(J[q - 1]) + Len(s[q])
              /\ \A i \in 1 .. Len(J[q - 1]) : J[q][i] = J[q - 1][i]
          BY <1>2, <5>1
        <5>3. Len(s[q]) \in Nat /\ Len(J[l]) \in Nat
          BY <1>1, <5>1
        <5>5. /\ Len(J[q]) = Len(J[l]) + Len(s[q])
              /\ \A i \in 1 .. Len(J[l]) : J[q][i] = J[l][i]
          BY <5>1, <5>2, Zenon
        <5>4. Len(J[q]) >= Len(J[l])
          <6> DEFINE a == Len(J[l])
                     c == Len(s[q])
                     d == Len(J[q])
          <6>1. a \in Nat /\ c \in Nat /\ d = a + c
            BY <5>3, <5>5
          <6> HIDE DEF a, c, d
          <6>2. d >= a
            BY <6>1
          <6> QED BY <6>2 DEF a, d
        <5> QED BY <5>4, <5>5 DEF q
      <4>4. Len(J[k]) \in Nat /\ Len(J[l]) \in Nat /\ Len(J[l + 1]) \in Nat
        BY <1>1, <4>1
      <4> QED BY <4>2, <4>3, <4>4
    <3> QED BY <3>1, <3>2
  <2>3. T = Nat
    <3>1. T \in SUBSET Nat
      OBVIOUS
    <3> HIDE DEF T
    <3> QED BY <2>1, <2>2, <3>1, Induction
  <2> QED BY <2>3
<1>4. FlattenSeq(s) = J[n] /\ J[0] = <<>>
  BY JoinedIs
<1>5. \A k \in 0 .. n : Ends(s, k) = Len(J[k])
  BY DEF Ends
<1> HIDE DEF J
<1>6. \A k, l \in 0 .. n : k <= l => Len(J[k]) <= Len(J[l])
  BY <1>1, <1>3
<1>7. \A k \in 0 .. n : Len(J[k]) \in 0 .. Len(J[n])
  BY <1>1, <1>6
<1>8. ASSUME NEW k \in 1 .. n, NEW i \in 1 .. Len(s[k])
      PROVE  J[n][Len(J[k - 1]) + i] = s[k][i]
  <2>1. Len(J[k - 1]) \in Nat /\ Len(s[k]) \in Nat /\ Len(J[k]) = Len(J[k - 1]) + Len(s[k])
    BY <1>1, <1>2
  <2>2. Len(J[k - 1]) + i \in 1 .. Len(J[k])
    <3> DEFINE a == Len(J[k - 1])
               c == Len(s[k])
               d == Len(J[k])
    <3>1. a \in Nat /\ c \in Nat /\ d = a + c /\ i \in 1 .. c
      BY <2>1
    <3> HIDE DEF a, c, d
    <3>2. a + i \in 1 .. d
      BY <3>1
    <3> QED BY <3>2 DEF a, d
  <2>3. J[n][Len(J[k - 1]) + i] = J[k][Len(J[k - 1]) + i]
    <3>1. k \in 0 .. n /\ n \in Nat /\ n \in k .. n
      BY <1>1
    <3>2. \A p \in 1 .. Len(J[k]) : J[n][p] = J[k][p]
      BY <1>3, <3>1
    <3> QED BY <2>2, <3>2
  <2> QED BY <1>2, <2>3
<1>9. Len(J[0]) = 0 /\ J[n] \in Seq(A) /\ n \in 0 .. n /\ 0 \in 0 .. n
  BY <1>1, <1>4
<1> HIDE DEF Ends
<1>10. \A k \in 1 .. n : Ends(s, k) = Ends(s, k - 1) + Len(s[k])
  BY <1>1, <1>2, <1>5
<1>11. ASSUME NEW k \in 1 .. n, NEW i \in 1 .. Len(s[k])
       PROVE  FlattenSeq(s)[Ends(s, k - 1) + i] = s[k][i]
  <2>1. k - 1 \in 0 .. n
    BY <1>1
  <2>2. Ends(s, k - 1) = Len(J[k - 1])
    BY <1>5, <2>1
  <2> QED BY <1>4, <1>8, <2>2, Zenon
<1>12. \A k, l \in 0 .. n : k <= l => Ends(s, k) <= Ends(s, l)
  BY <1>5, <1>6
<1> QED BY <1>4, <1>5, <1>7, <1>9, <1>10, <1>11, <1>12

\* Each position is in one of the parts.
LEMMA PartOf ==
  ASSUME NEW A, NEW s \in Seq(Seq(A)), NEW i \in 1 .. Len(FlattenSeq(s))
  PROVE  \E k \in 1 .. Len(s) : i - Ends(s, k - 1) \in 1 .. Len(s[k])
<1> DEFINE T == {k \in 0 .. Len(s) : i <= Ends(s, k)}
<1>1. Len(s) \in Nat /\ Len(FlattenSeq(s)) \in Nat
  BY PartsIn
<1>2. Len(s) \in T
  BY <1>1, PartsIn
<1>3. PICK k \in T : \A l \in T : k <= l
  <2>1. T \in SUBSET Nat /\ T # {}
    BY <1>1, <1>2
  <2> HIDE DEF T
  <2> QED BY <2>1, Least
<1>4. k # 0
  BY PartsIn
<1>5. k \in 1 .. Len(s) /\ k - 1 \in 0 .. Len(s) /\ k - 1 \notin T
  BY <1>1, <1>3, <1>4
<1>6. Ends(s, k) = Ends(s, k - 1) + Len(s[k]) /\ Ends(s, k - 1) \in Nat /\ Ends(s, k) \in Nat
  BY <1>5, PartsIn
<1>7. i > Ends(s, k - 1) /\ i <= Ends(s, k) /\ Len(s[k]) \in Nat
  BY <1>5, <1>6
<1>8. i - Ends(s, k - 1) \in 1 .. Len(s[k])
  <2> DEFINE a == Ends(s, k - 1)
             c == Len(s[k])
  <2>1. a \in Nat /\ c \in Nat /\ i > a /\ i <= a + c /\ i \in Nat
    BY <1>1, <1>6, <1>7
  <2> HIDE DEF a, c
  <2>2. i - a \in 1 .. c
    BY <2>1
  <2> QED BY <2>2 DEF a, c
<1> QED BY <1>5, <1>8
-----------------------------------------------------------------------------
(* The elements of a set in their order.                                    *)

StrictOrder(S, R) ==
  /\ IsFiniteSet(S)
  /\ \A x \in S : <<x, x>> \notin R
  /\ \A x, y, z \in S : <<x, y>> \in R /\ <<y, z>> \in R => <<x, z>> \in R
  /\ \A x, y \in S : x # y => <<x, y>> \in R \/ <<y, x>> \in R

Before(S, R, x) == {y \in S : <<y, x>> \in R}

\* No two elements have as many elements before them.
LEMMA Ranks ==
  ASSUME NEW S, NEW R, StrictOrder(S, R)
  PROVE  /\ Cardinality(S) \in Nat
         /\ \A x \in S : Cardinality(Before(S, R, x)) \in 0 .. Cardinality(S) - 1
         /\ \A x, y \in S : <<x, y>> \in R =>
              Cardinality(Before(S, R, x)) < Cardinality(Before(S, R, y))
<1>1. IsFiniteSet(S) /\ Cardinality(S) \in Nat
  BY FS_CardinalityType DEF StrictOrder
<1>2. ASSUME NEW x \in S
      PROVE  /\ IsFiniteSet(Before(S, R, x))
             /\ Cardinality(Before(S, R, x)) \in 0 .. Cardinality(S) - 1
  <2>1. Before(S, R, x) \in SUBSET S /\ x \notin Before(S, R, x)
    BY DEF Before, StrictOrder
  <2>2. IsFiniteSet(Before(S, R, x)) /\ Cardinality(Before(S, R, x)) <= Cardinality(S)
        /\ (Cardinality(Before(S, R, x)) = Cardinality(S) => S = Before(S, R, x))
    BY <1>1, <2>1, FS_Subset
  <2>3. Cardinality(Before(S, R, x)) \in Nat
    BY <2>2, FS_CardinalityType
  <2> QED BY <1>1, <2>1, <2>2, <2>3
<1>3. ASSUME NEW x \in S, NEW y \in S, <<x, y>> \in R
      PROVE  Cardinality(Before(S, R, x)) < Cardinality(Before(S, R, y))
  <2>1. Before(S, R, x) \in SUBSET Before(S, R, y)
    BY <1>3 DEF Before, StrictOrder
  <2>2. x \in Before(S, R, y) /\ x \notin Before(S, R, x)
    BY <1>3 DEF Before, StrictOrder
  <2>3. Cardinality(Before(S, R, x)) <= Cardinality(Before(S, R, y))
        /\ Cardinality(Before(S, R, x)) # Cardinality(Before(S, R, y))
    BY <1>2, <2>1, <2>2, FS_Subset
  <2> QED BY <1>1, <1>2, <2>3
<1> QED BY <1>1, <1>2, <1>3

\* Ordered has each element of the set once, in the order.
LEMMA OrderedIs ==
  ASSUME NEW S, NEW R, StrictOrder(S, R)
  PROVE  /\ Cardinality(S) \in Nat
         /\ Ordered(S, R) \in [1 .. Cardinality(S) -> S]
         /\ \A x \in S : \E k \in 1 .. Cardinality(S) : Ordered(S, R)[k] = x
         /\ \A k, l \in 1 .. Cardinality(S) :
              k < l => <<Ordered(S, R)[k], Ordered(S, R)[l]>> \in R
<1> DEFINE n == Cardinality(S)
           rank == [x \in S |-> Cardinality(Before(S, R, x)) + 1]
           O == Ordered(S, R)
<1>1. /\ n \in Nat /\ IsFiniteSet(S)
      /\ \A x \in S : rank[x] \in 1 .. n
      /\ \A x, y \in S : <<x, y>> \in R => rank[x] < rank[y]
  <2>1. n \in Nat /\ IsFiniteSet(S)
    BY Ranks DEF StrictOrder
  <2>2. ASSUME NEW x \in S PROVE rank[x] \in 1 .. n
    <3>1. Cardinality(Before(S, R, x)) \in 0 .. n - 1
      BY Ranks
    <3> QED BY <2>1, <3>1
  <2>3. ASSUME NEW x \in S, NEW y \in S, <<x, y>> \in R PROVE rank[x] < rank[y]
    <3>1. /\ Cardinality(Before(S, R, x)) \in Nat /\ Cardinality(Before(S, R, y)) \in Nat
          /\ Cardinality(Before(S, R, x)) < Cardinality(Before(S, R, y))
      BY <2>3, Ranks
    <3> QED BY <3>1
  <2> QED BY <2>1, <2>2, <2>3
<1>2. \A x \in S : Cardinality({y \in S : <<y, x>> \in R}) = rank[x] - 1
  BY <1>1, Ranks DEF Before
<1> HIDE DEF rank
<1>3. \A x, y \in S : rank[x] = rank[y] => x = y
  <2> SUFFICES ASSUME NEW x \in S, NEW y \in S, rank[x] = rank[y], x # y PROVE FALSE
    OBVIOUS
  <2>1. rank[x] < rank[y] \/ rank[y] < rank[x]
    BY <1>1 DEF StrictOrder
  <2>2. rank[x] \in Int
    BY <1>1
  <2> QED BY <2>1, <2>2
<1>4. \A k \in 1 .. n : \E x \in S : rank[x] = k
  <2>1. rank \in [S -> 1 .. n]
    BY <1>1, Ranks DEF rank
  <2>2. rank \in Injection(S, 1 .. n)
    BY <1>3, <2>1 DEF Injection, IsInjective
  <2>3. IsFiniteSet(1 .. n) /\ Cardinality(1 .. n) = n
    BY <1>1, FS_Interval
  <2>4. rank \in Surjection(S, 1 .. n)
    BY <2>2, <2>3, FS_Injection
  <2> QED BY <2>4 DEF Surjection
<1>5. \A k \in 1 .. n : O[k] \in S /\ rank[O[k]] = k
  <2> SUFFICES ASSUME NEW k \in 1 .. n PROVE O[k] \in S /\ rank[O[k]] = k
    OBVIOUS
  <2>1. PICK x \in S : rank[x] = k
    BY <1>4
  <2>2. Cardinality({y \in S : <<y, x>> \in R}) = k - 1
    BY <1>2, <2>1
  <2>3. O[k] = CHOOSE z \in S : Cardinality({y \in S : <<y, z>> \in R}) = k - 1
    BY DEF Ordered
  <2> HIDE DEF O
  <2>4. O[k] \in S /\ Cardinality({y \in S : <<y, O[k]>> \in R}) = k - 1
    BY <2>2, <2>3, Zenon
  <2>5. rank[O[k]] - 1 = k - 1 /\ rank[O[k]] \in 1 .. n
    BY <1>1, <1>2, <2>4
  <2> QED BY <1>1, <2>4, <2>5
<1>6. O \in [1 .. n -> S]
  <2> DEFINE r(k) == CHOOSE x \in S : Cardinality({y \in S : <<y, x>> \in R}) = k - 1
  <2>1. O = [k \in 1 .. n |-> r(k)]
    BY DEF Ordered
  <2> HIDE DEF O, r
  <2> QED BY <1>5, <2>1
<1> HIDE DEF O
<1>7. \A x \in S : \E k \in 1 .. n : O[k] = x
  BY <1>1, <1>3, <1>5
<1>8. \A k, l \in 1 .. n : k < l => <<O[k], O[l]>> \in R
  <2> SUFFICES ASSUME NEW k \in 1 .. n, NEW l \in 1 .. n, k < l
               PROVE  <<O[k], O[l]>> \in R
    OBVIOUS
  <2>1. O[k] \in S /\ O[l] \in S /\ rank[O[k]] = k /\ rank[O[l]] = l
    BY <1>5
  <2>2. O[k] # O[l] /\ ~ (<<O[l], O[k]>> \in R)
    BY <1>1, <2>1
  <2> QED BY <2>1, <2>2 DEF StrictOrder
<1> QED BY <1>1, <1>6, <1>7, <1>8 DEF n, O

\* An enumeration in the order is Ordered.
Enumerates(f, n, S, R) ==
  /\ n \in Nat /\ f \in [1 .. n -> S]
  /\ \A x \in S : \E k \in 1 .. n : f[k] = x
  /\ \A k, l \in 1 .. n : k < l => <<f[k], f[l]>> \in R

LEMMA OrderedUnique ==
  ASSUME NEW S, NEW R, StrictOrder(S, R), NEW n, NEW f, Enumerates(f, n, S, R)
  PROVE  Cardinality(S) = n /\ Ordered(S, R) = f
<1> USE DEF Enumerates
<1>1. \A k, l \in 1 .. n : k # l => f[k] # f[l] /\ (<<f[k], f[l]>> \in R => k < l)
  <2> SUFFICES ASSUME NEW k \in 1 .. n, NEW l \in 1 .. n, k # l
               PROVE  f[k] # f[l] /\ (<<f[k], f[l]>> \in R => k < l)
    OBVIOUS
  <2>1. f[k] \in S /\ f[l] \in S
    OBVIOUS
  <2>2. CASE k < l
    BY <2>1, <2>2 DEF StrictOrder
  <2>3. CASE l < k
    BY <2>1, <2>3 DEF StrictOrder
  <2> QED BY <2>2, <2>3
<1>2. Cardinality(S) = n
  <2>1. f \in Injection(1 .. n, S) /\ f \in Surjection(1 .. n, S)
    BY <1>1 DEF Injection, IsInjective, Surjection
  <2>2. ExistsBijection(1 .. n, S)
    BY <2>1 DEF ExistsBijection, Bijection
  <2> QED BY <2>2, FS_CountingElements
<1>3. ASSUME NEW k \in 1 .. n PROVE Ordered(S, R)[k] = f[k]
  <2> DEFINE B(x) == {y \in S : <<y, x>> \in R}
  <2>1. Cardinality(B(f[k])) = k - 1
    <3> DEFINE g == [i \in 1 .. k - 1 |-> f[i]]
    <3>1. g \in [1 .. k - 1 -> B(f[k])]
      OBVIOUS
    <3>2. \A x \in B(f[k]) : \E i \in 1 .. k - 1 : g[i] = x
      <4> SUFFICES ASSUME NEW x \in B(f[k]) PROVE \E i \in 1 .. k - 1 : g[i] = x
        OBVIOUS
      <4>1. PICK i \in 1 .. n : f[i] = x
        OBVIOUS
      <4>2. i # k
        BY <4>1 DEF StrictOrder
      <4>3. i < k
        BY <1>1, <4>1, <4>2
      <4> QED BY <4>1, <4>3
    <3>3. \A i, j \in 1 .. k - 1 : g[i] = g[j] => i = j
      <4> SUFFICES ASSUME NEW i \in 1 .. k - 1, NEW j \in 1 .. k - 1, g[i] = g[j]
                   PROVE  i = j
        OBVIOUS
      <4>1. i \in 1 .. n /\ j \in 1 .. n /\ f[i] = f[j]
        OBVIOUS
      <4> QED BY <1>1, <4>1
    <3> HIDE DEF g, B
    <3>4. ExistsBijection(1 .. k - 1, B(f[k]))
      BY <3>1, <3>2, <3>3 DEF ExistsBijection, Bijection, Injection, IsInjective, Surjection
    <3>5. k - 1 \in Nat
      OBVIOUS
    <3> QED BY <3>4, <3>5, FS_CountingElements
  <2>2. \A x \in S : Cardinality(B(x)) = k - 1 => x = f[k]
    <3> SUFFICES ASSUME NEW x \in S, Cardinality(B(x)) = k - 1, x # f[k] PROVE FALSE
      OBVIOUS
    <3>1. B(x) = Before(S, R, x) /\ B(f[k]) = Before(S, R, f[k]) /\ f[k] \in S
      BY DEF Before
    <3> HIDE DEF B
    <3>2. Cardinality(Before(S, R, x)) = Cardinality(Before(S, R, f[k]))
      BY <2>1, <3>1
    <3>3. <<x, f[k]>> \in R \/ <<f[k], x>> \in R
      BY <3>1 DEF StrictOrder
    <3>4. /\ Cardinality(Before(S, R, x)) \in Int
          /\ Cardinality(Before(S, R, x)) < Cardinality(Before(S, R, f[k]))
             \/ Cardinality(Before(S, R, f[k])) < Cardinality(Before(S, R, x))
      BY <3>1, <3>3, Ranks
    <3> QED BY <3>2, <3>4
  <2>3. Ordered(S, R)[k] = CHOOSE x \in S : Cardinality({y \in S : <<y, x>> \in R}) = k - 1
    BY <1>2 DEF Ordered
  <2>4. Ordered(S, R)[k] = CHOOSE x \in S : Cardinality(B(x)) = k - 1
    BY <2>3
  <2>5. f[k] \in S
    OBVIOUS
  <2> HIDE DEF B
  <2> QED BY <2>1, <2>2, <2>4, <2>5, Zenon
<1>4. Ordered(S, R) = f
  <2> DEFINE r(k) == CHOOSE x \in S : Cardinality({y \in S : <<y, x>> \in R}) = k - 1
  <2>1. Ordered(S, R) = [k \in 1 .. n |-> r(k)]
    BY <1>2 DEF Ordered
  <2> HIDE DEF r
  <2> QED BY <1>3, <2>1
<1> QED BY <1>2, <1>4

\* Positions.
LEMMA AscendingIs ==
  ASSUME NEW T, T \in SUBSET Int, IsFiniteSet(T)
  PROVE  /\ Cardinality(T) \in Nat
         /\ Ascending(T) \in [1 .. Cardinality(T) -> T]
         /\ \A x \in T : \E k \in 1 .. Cardinality(T) : Ascending(T)[k] = x
         /\ \A k, l \in 1 .. Cardinality(T) : k < l => Ascending(T)[k] < Ascending(T)[l]
<1> DEFINE R == {p \in T \X T : p[1] < p[2]}
<1>1. StrictOrder(T, R) /\ \A x, y \in T : <<x, y>> \in R <=> x < y
  BY DEF StrictOrder
<1>2. Ascending(T) = Ordered(T, R)
  BY DEF Ascending
<1> HIDE DEF R
<1>3. /\ Cardinality(T) \in Nat
      /\ Ascending(T) \in [1 .. Cardinality(T) -> T]
      /\ \A x \in T : \E k \in 1 .. Cardinality(T) : Ascending(T)[k] = x
      /\ \A k, l \in 1 .. Cardinality(T) :
           k < l => <<Ascending(T)[k], Ascending(T)[l]>> \in R
  BY <1>1, <1>2, OrderedIs
<1> QED BY <1>1, <1>3

LEMMA AscendingUnique ==
  ASSUME NEW T, T \in SUBSET Int, IsFiniteSet(T), NEW n \in Nat, NEW f \in [1 .. n -> T],
         \A x \in T : \E k \in 1 .. n : f[k] = x,
         \A k, l \in 1 .. n : k < l => f[k] < f[l]
  PROVE  Cardinality(T) = n /\ Ascending(T) = f
<1> DEFINE R == {p \in T \X T : p[1] < p[2]}
<1>1. StrictOrder(T, R) /\ Enumerates(f, n, T, R)
  BY DEF StrictOrder, Enumerates
<1>2. Ascending(T) = Ordered(T, R)
  BY DEF Ascending
<1> HIDE DEF R
<1> QED BY <1>1, <1>2, OrderedUnique

\* Names are ordered by their bytes.
LEMMA LessOrder ==
  ASSUME NEW names \in SUBSET Seq(Character), IsFiniteSet(names)
  PROVE  StrictOrder(names, {p \in names \X names : Less(p[1], p[2])})
<1>1. \A c \in Character : Code[c] \in Int
  <2>1. \A c \in Character : Code[c] \in 0 .. 255
    BY CodeAssumption, Zenon DEF Character
  <2>2. \A x \in 0 .. 255 : x \in Int
    OBVIOUS
  <2> QED BY <2>1, <2>2, Zenon
<1>2. \A c, d \in Character : Code[c] = Code[d] => c = d
  BY CodeAssumption DEF Character
<1>3. \A a \in Seq(Character) :
        Len(a) \in Nat /\ DOMAIN a = 1 .. Len(a) /\ \A i \in 1 .. Len(a) : a[i] \in Character
  OBVIOUS
<1> HIDE DEF Character
<1>4. ASSUME NEW a \in Seq(Character) PROVE ~ Less(a, a)
  BY <1>1, <1>3 DEF Less
<1>5. ASSUME NEW a \in Seq(Character), NEW b \in Seq(Character), NEW c \in Seq(Character),
             Less(a, b), Less(b, c)
      PROVE  Less(a, c)
  <2>1. PICK k \in 1 .. Len(b) :
          /\ \A i \in 1 .. k - 1 : i \in 1 .. Len(a) /\ a[i] = b[i]
          /\ k \in 1 .. Len(a) => Code[a[k]] < Code[b[k]]
    BY <1>3, <1>5 DEF Less
  <2>2. PICK l \in 1 .. Len(c) :
          /\ \A i \in 1 .. l - 1 : i \in 1 .. Len(b) /\ b[i] = c[i]
          /\ l \in 1 .. Len(b) => Code[b[l]] < Code[c[l]]
    BY <1>3, <1>5 DEF Less
  <2>3. \E m \in 1 .. Len(c) :
          /\ \A i \in 1 .. m - 1 : i \in 1 .. Len(a) /\ a[i] = c[i]
          /\ m \in 1 .. Len(a) => Code[a[m]] < Code[c[m]]
    <3>1. CASE k < l
      <4>1. k \in 1 .. Len(c) /\ b[k] = c[k]
        BY <1>3, <2>2, <3>1
      <4>2. ASSUME NEW i \in 1 .. k - 1 PROVE i \in 1 .. Len(a) /\ a[i] = c[i]
        BY <2>1, <2>2, <3>1
      <4> QED BY <2>1, <4>1, <4>2
    <3>2. CASE k = l
      <4>1. ASSUME NEW i \in 1 .. l - 1 PROVE i \in 1 .. Len(a) /\ a[i] = c[i]
        BY <2>1, <2>2, <3>2
      <4>2. ASSUME l \in 1 .. Len(a) PROVE Code[a[l]] < Code[c[l]]
        <5>1. Code[a[l]] < Code[b[l]] /\ Code[b[l]] < Code[c[l]]
          BY <2>1, <2>2, <3>2, <4>2
        <5>2. Code[a[l]] \in Int /\ Code[b[l]] \in Int /\ Code[c[l]] \in Int
          BY <1>1, <1>3, <3>2, <4>2
        <5> QED BY <5>1, <5>2
      <4> QED BY <4>1, <4>2
    <3>3. CASE l < k
      <4>1. ASSUME NEW i \in 1 .. l - 1 PROVE i \in 1 .. Len(a) /\ a[i] = c[i]
        BY <2>1, <2>2, <3>3
      <4>2. l \in 1 .. Len(a) /\ a[l] = b[l] /\ l \in 1 .. Len(b)
        BY <1>3, <2>1, <3>3
      <4> QED BY <2>2, <4>1, <4>2
    <3> QED BY <1>3, <3>1, <3>2, <3>3
  <2> QED BY <1>3, <2>3 DEF Less
<1>6. ASSUME NEW a \in Seq(Character), NEW b \in Seq(Character), a # b
      PROVE  Less(a, b) \/ Less(b, a)
  <2> DEFINE T == {k \in Nat \ {0} : k \in 1 .. Len(a) /\ k \in 1 .. Len(b) => a[k] # b[k]}
  <2>1. PICK k \in T : \A l \in T : k <= l
    <3>1. T \in SUBSET Nat /\ Len(a) + 1 \in T
      BY <1>3
    <3> HIDE DEF T
    <3> QED BY <3>1, Least
  <2>2. \A i \in 1 .. k - 1 : i \in 1 .. Len(a) /\ i \in 1 .. Len(b) /\ a[i] = b[i]
    <3> SUFFICES ASSUME NEW i \in 1 .. k - 1
                 PROVE  i \in 1 .. Len(a) /\ i \in 1 .. Len(b) /\ a[i] = b[i]
      OBVIOUS
    <3>1. i \in Nat \ {0} /\ i \notin T
      BY <2>1
    <3> QED BY <3>1
  <2>3. k \in 1 .. Len(a) \/ k \in 1 .. Len(b)
    <3> SUFFICES ASSUME k \notin 1 .. Len(a), k \notin 1 .. Len(b) PROVE FALSE
      OBVIOUS
    <3>1. Len(a) = k - 1 /\ Len(b) = k - 1
      <4>1. Len(a) < k /\ Len(b) < k
        BY <1>3
      <4>2. k - 1 <= Len(a) /\ k - 1 <= Len(b)
        <5>1. k - 1 # 0 => k - 1 \in 1 .. k - 1
          OBVIOUS
        <5> QED BY <1>3, <2>2, <5>1
      <4> QED BY <1>3, <4>1, <4>2
    <3>2. Len(a) = Len(b) /\ \A i \in 1 .. Len(a) : a[i] = b[i]
      BY <2>2, <3>1
    <3>3. a = b
      BY <3>2, SeqEqual
    <3> QED BY <1>6, <3>3
  <2>4. k \in 1 .. Len(a) /\ k \in 1 .. Len(b) =>
          Code[a[k]] < Code[b[k]] \/ Code[b[k]] < Code[a[k]]
    <3> SUFFICES ASSUME k \in 1 .. Len(a), k \in 1 .. Len(b)
                 PROVE  Code[a[k]] < Code[b[k]] \/ Code[b[k]] < Code[a[k]]
      OBVIOUS
    <3>1. a[k] # b[k] /\ a[k] \in Character /\ b[k] \in Character
      BY <1>3
    <3>2. Code[a[k]] \in Int /\ Code[b[k]] \in Int /\ Code[a[k]] # Code[b[k]]
      BY <1>1, <1>2, <3>1
    <3> QED BY <3>2
  <2> HIDE DEF T
  <2>5. CASE k \in 1 .. Len(a) /\ k \in 1 .. Len(b)
    BY <1>3, <2>2, <2>4, <2>5 DEF Less
  <2>6. CASE k \notin 1 .. Len(a) /\ k \in 1 .. Len(b)
    BY <1>3, <2>2, <2>6 DEF Less
  <2>7. CASE k \in 1 .. Len(a) /\ k \notin 1 .. Len(b)
    BY <1>3, <2>2, <2>7 DEF Less
  <2> QED BY <2>3, <2>5, <2>6, <2>7
<1>7. \A a, b \in names : <<a, b>> \in {p \in names \X names : Less(p[1], p[2])} <=> Less(a, b)
  OBVIOUS
<1> QED BY <1>4, <1>5, <1>6, <1>7 DEF StrictOrder

LEMMA SortStringsIs ==
  ASSUME NEW names \in SUBSET Seq(Character), IsFiniteSet(names)
  PROVE  /\ SortStrings(names) \in Seq(names)
         /\ \A m \in names : \E k \in 1 .. Len(SortStrings(names)) : SortStrings(names)[k] = m
         /\ \A k, l \in 1 .. Len(SortStrings(names)) :
              k < l => Less(SortStrings(names)[k], SortStrings(names)[l])
         /\ \A k, l \in 1 .. Len(SortStrings(names)) :
              k # l => SortStrings(names)[k] # SortStrings(names)[l]
<1> DEFINE R == {p \in names \X names : Less(p[1], p[2])}
           n == Cardinality(names)
           O == SortStrings(names)
<1>1. O = Ordered(names, R)
  BY DEF SortStrings
<1>2. StrictOrder(names, R) /\ \A a, b \in names : <<a, b>> \in R => Less(a, b)
  BY LessOrder
<1> HIDE DEF R, O
<1>3. /\ n \in Nat /\ O \in [1 .. n -> names]
      /\ \A x \in names : \E k \in 1 .. n : O[k] = x
      /\ \A k, l \in 1 .. n : k < l => <<O[k], O[l]>> \in R
  BY <1>1, <1>2, OrderedIs
<1> HIDE DEF n
<1>4. O \in Seq(names) /\ Len(O) = n
  BY <1>3
<1>5. \A k, l \in 1 .. n : k < l => Less(O[k], O[l]) /\ O[k] # O[l]
  BY <1>2, <1>3 DEF StrictOrder
<1>6. \A k, l \in 1 .. n : k # l => O[k] # O[l]
  BY <1>3, <1>5
<1> QED BY <1>3, <1>4, <1>5, <1>6 DEF O

-----------------------------------------------------------------------------
(* Where a sequence occurs in another one.                                  *)

\* d is what b has after its first o elements.
At(b, o, d) ==
  /\ o \in Nat /\ o + Len(d) <= Len(b)
  /\ \A k \in 1 .. Len(d) : b[o + k] = d[k]

LEMMA ConcatIs ==
  ASSUME NEW A, NEW x \in Seq(A), NEW y \in Seq(A)
  PROVE  /\ x \o y \in Seq(A) /\ Len(x \o y) = Len(x) + Len(y)
         /\ \A i \in 1 .. Len(x) : (x \o y)[i] = x[i]
         /\ \A i \in 1 .. Len(y) : (x \o y)[Len(x) + i] = y[i]
  OBVIOUS

LEMMA AtConcat ==
  ASSUME NEW A, NEW b \in Seq(A), NEW o, NEW x \in Seq(A), NEW y \in Seq(A), At(b, o, x \o y)
  PROVE  At(b, o, x) /\ At(b, o + Len(x), y)
<1> DEFINE z == x \o y
<1>1. /\ Len(z) = Len(x) + Len(y)
      /\ \A i \in 1 .. Len(x) : z[i] = x[i]
      /\ \A i \in 1 .. Len(y) : z[Len(x) + i] = y[i]
  BY ConcatIs
<1>2. o \in Nat /\ o + Len(z) <= Len(b) /\ \A k \in 1 .. Len(z) : b[o + k] = z[k]
  BY DEF At
<1>3. Len(x) \in Nat /\ Len(y) \in Nat /\ Len(b) \in Nat
  OBVIOUS
<1> HIDE DEF z
<1>4. \A k \in 1 .. Len(x) : b[o + k] = x[k]
  BY <1>1, <1>2, <1>3
<1>5. ASSUME NEW k \in 1 .. Len(y) PROVE b[o + Len(x) + k] = y[k]
  <2>1. Len(x) + k \in 1 .. Len(z) /\ o + (Len(x) + k) = o + Len(x) + k
    BY <1>1, <1>2, <1>3
  <2> QED BY <1>1, <1>2, <2>1
<1> QED BY <1>1, <1>2, <1>3, <1>4, <1>5 DEF At

LEMMA AtIs ==
  ASSUME NEW A, NEW b \in Seq(A), NEW o, NEW d \in Seq(A), At(b, o, d)
  PROVE  SubSeq(b, o + 1, o + Len(d)) = d
<1>1. o \in Nat /\ o + Len(d) <= Len(b) /\ \A k \in 1 .. Len(d) : b[o + k] = d[k]
  BY DEF At
<1>2. Len(d) \in Nat /\ Len(b) \in Nat /\ \A i \in o + 1 .. o + Len(d) : b[i] \in A
  BY <1>1
<1> DEFINE e == SubSeq(b, o + 1, o + Len(d))
<1>3. /\ e \in Seq(A)
      /\ Len(e) = IF o + 1 <= o + Len(d) THEN o + Len(d) - (o + 1) + 1 ELSE 0
      /\ \A i \in 1 .. o + Len(d) - (o + 1) + 1 : e[i] = b[o + 1 + i - 1]
  BY <1>1, <1>2, SubSeqProperties
<1> HIDE DEF e
<1>4. Len(e) = Len(d)
  BY <1>1, <1>2, <1>3
<1>5. ASSUME NEW i \in 1 .. Len(e) PROVE e[i] = d[i]
  <2>1. i \in 1 .. o + Len(d) - (o + 1) + 1 /\ o + 1 + i - 1 = o + i
    BY <1>1, <1>2, <1>4
  <2> QED BY <1>1, <1>3, <1>4, <2>1
<1>6. e = d
  BY <1>3, <1>4, <1>5, SeqEqual
<1> QED BY <1>6 DEF e

LEMMA AtPart ==
  ASSUME NEW A, NEW s \in Seq(Seq(A)), NEW k \in 1 .. Len(s)
  PROVE  At(FlattenSeq(s), Ends(s, k - 1), s[k])
<1>1. k - 1 \in 0 .. Len(s) /\ k \in 0 .. Len(s) /\ Len(FlattenSeq(s)) \in Nat
  BY PartsIn
<1>2. /\ Ends(s, k - 1) \in Nat /\ Ends(s, k) <= Len(FlattenSeq(s))
      /\ Ends(s, k) = Ends(s, k - 1) + Len(s[k])
      /\ \A i \in 1 .. Len(s[k]) : FlattenSeq(s)[Ends(s, k - 1) + i] = s[k][i]
  BY <1>1, PartsIn
<1> QED BY <1>2 DEF At

-----------------------------------------------------------------------------
(* Varints.                                                                 *)

Byte == 0 .. 255

LEMMA VarintIs ==
  ASSUME NEW v \in Nat
  PROVE  /\ Varint(v) \in Seq(Byte)
         /\ Varint(v) = IF v >= 128 THEN <<128 + (v % 128)>> \o Varint(v \div 128) ELSE <<v>>
<1> DEFINE Q(f) == f = [u \in Nat |-> IF u >= 128 THEN <<128 + (u % 128)>> \o f[u \div 128] ELSE <<u>>]
           h == CHOOSE f : Q(f)
<1>1. \A u \in Nat : /\ u \div 128 \in Nat /\ u % 128 \in 0 .. 127
                     /\ u # 0 => u \div 128 < u
  OBVIOUS
<1>2. \E f : Q(f) /\ f \in [Nat -> Seq(Byte)]
  <2> DEFINE j == [u \in Nat |-> u \div 128]
             g == [u \in Nat |-> [r \in Seq(Byte) |->
                     IF u >= 128 THEN <<128 + (u % 128)>> \o r
                     ELSE IF u \in Byte THEN <<u>> ELSE <<>>]]
  <2>1. <<0>> \in Seq(Byte)
    BY DEF Byte
  <2>2. j \in [Nat -> Nat] /\ \A i \in Nat \ {0} : j[i] < i
    BY <1>1
  <2>3. g \in [Nat -> [Seq(Byte) -> Seq(Byte)]]
    <3>1. ASSUME NEW u \in Nat, NEW r \in Seq(Byte)
          PROVE  (IF u >= 128 THEN <<128 + (u % 128)>> \o r
                  ELSE IF u \in Byte THEN <<u>> ELSE <<>>) \in Seq(Byte)
      <4>1. 128 + (u % 128) \in Byte
        BY <1>1 DEF Byte
      <4>2. <<128 + (u % 128)>> \in Seq(Byte) /\ <<>> \in Seq(Byte)
        BY <4>1
      <4>3. u \in Byte => <<u>> \in Seq(Byte)
        OBVIOUS
      <4>4. <<128 + (u % 128)>> \o r \in Seq(Byte)
        BY <4>2
      <4> QED BY <4>2, <4>3, <4>4
    <3> QED BY <3>1
  <2>4. PICK f \in [Nat -> Seq(Byte)] :
          \A i \in Nat : f[i] = IF i = 0 THEN <<0>> ELSE g[i][f[j[i]]]
    <3>1. Grounded(Seq(Byte), <<0>>, j, g)
      BY <2>1, <2>2, <2>3 DEF Grounded
    <3> HIDE DEF j, g
    <3>2. PICK f : Solves(f, Seq(Byte), <<0>>, j, g)
      BY <3>1, Recursion
    <3> QED BY <3>2 DEF Solves
  <2>5. ASSUME NEW u \in Nat
        PROVE  f[u] = IF u >= 128 THEN <<128 + (u % 128)>> \o f[u \div 128] ELSE <<u>>
    <3>1. f[u] = IF u = 0 THEN <<0>> ELSE g[u][f[j[u]]]
      <4> HIDE DEF g, j
      <4> QED BY <2>4
    <3>2. j[u] = u \div 128 /\ f[u \div 128] \in Seq(Byte)
      BY <1>1
    <3>3. g[u][f[u \div 128]] = IF u >= 128 THEN <<128 + (u % 128)>> \o f[u \div 128]
                                ELSE IF u \in Byte THEN <<u>> ELSE <<>>
      BY <3>2
    <3>4. u < 128 => u \in Byte
      BY DEF Byte
    <3> HIDE DEF g, j
    <3> QED BY <3>1, <3>2, <3>3, <3>4
  <2>6. Q(f)
    BY <2>5
  <2> HIDE DEF Q
  <2> QED BY <2>6
<1>3. Q(h)
  <2> HIDE DEF Q
  <2> QED BY <1>2, Zenon
<1>4. \A u \in Nat : Varint(u) = h[u]
  BY Zenon DEF Varint
<1>5. \A u \in Nat : h[u] = IF u >= 128 THEN <<128 + (u % 128)>> \o h[u \div 128] ELSE <<u>>
  BY <1>3
<1> HIDE DEF h
<1>6. \A u \in Nat : h[u] \in Seq(Byte)
  <2> DEFINE T == {u \in Nat : h[u] \in Seq(Byte)}
  <2>1. ASSUME NEW u \in Nat, 0 .. u - 1 \subseteq T PROVE u \in T
    <3> SUFFICES h[u] \in Seq(Byte)
      OBVIOUS
    <3>1. CASE u < 128
      <4>1. u \in Byte /\ ~ (u >= 128)
        BY <3>1 DEF Byte
      <4>2. h[u] = <<u>>
        BY <1>5, <4>1
      <4> QED BY <4>1, <4>2
    <3>2. CASE u >= 128
      <4>1. h[u \div 128] \in Seq(Byte)
        BY <1>1, <2>1, <3>2
      <4>2. 128 + (u % 128) \in Byte
        BY <1>1 DEF Byte
      <4>3. h[u] = <<128 + (u % 128)>> \o h[u \div 128]
        BY <1>5, <3>2
      <4> QED BY <4>1, <4>2, <4>3
    <3> QED BY <3>1, <3>2
  <2>2. T = Nat
    <3>1. T \in SUBSET Nat
      OBVIOUS
    <3> HIDE DEF T
    <3> QED BY <2>1, <3>1, StrongInduction
  <2> QED BY <2>2
<1> QED BY <1>1, <1>4, <1>5, <1>6

Varints == [value : Nat, next : Nat]

LEMMA VarintAtIs ==
  ASSUME NEW b \in Seq(Byte), NEW i \in 1 .. Len(b)
  PROVE  /\ VarintAt(b, i) \in Varints
         /\ VarintAt(b, i).next \in i + 1 .. Len(b) + 1
         /\ VarintAt(b, i) =
              IF b[i] < 128 \/ i = Len(b) THEN [value |-> b[i], next |-> i + 1]
              ELSE [value |-> b[i] - 128 + 128 * VarintAt(b, i + 1).value,
                    next |-> VarintAt(b, i + 1).next]
<1> DEFINE n == Len(b)
           E(k, r) == IF b[k] < 128 \/ k = n THEN [value |-> b[k], next |-> k + 1]
                      ELSE [value |-> b[k] - 128 + 128 * r.value, next |-> r.next]
           Q(f) == f = [k \in DOMAIN b |-> E(k, f[k + 1])]
           h == CHOOSE f : Q(f)
<1>1. n \in Nat \ {0} /\ DOMAIN b = 1 .. n /\ \A k \in 1 .. n : b[k] \in Nat
  <2>1. n \in Nat \ {0} /\ DOMAIN b = 1 .. n /\ \A k \in 1 .. n : b[k] \in Byte
    OBVIOUS
  <2>2. \A x \in Byte : x \in Nat
    BY DEF Byte
  <2> QED BY <2>1, <2>2
<1>0. VarintAt(b, i) = h[i] /\ VarintAt(b, i + 1) = h[i + 1]
  BY Zenon DEF VarintAt
<1> HIDE DEF n
<1>2. ASSUME NEW k \in 1 .. n, NEW r \in Varints PROVE E(k, r) \in Varints
  <2>1. CASE b[k] < 128 \/ k = n
    <3>1. [value |-> b[k], next |-> k + 1] \in Varints
      BY <1>1 DEF Varints
    <3> QED BY <2>1, <3>1
  <2>2. CASE ~ (b[k] < 128 \/ k = n)
    <3>0. r.value \in Nat /\ r.next \in Nat /\ b[k] \in Nat
      BY <1>1 DEF Varints
    <3>1. r.value \in Nat /\ r.next \in Nat /\ b[k] \in Nat /\ b[k] >= 128
      BY <2>2, <3>0
    <3>2. b[k] - 128 + 128 * r.value \in Nat
      BY <3>1
    <3>3. [value |-> b[k] - 128 + 128 * r.value, next |-> r.next] \in Varints
      BY <3>1, <3>2 DEF Varints
    <3> QED BY <2>2, <3>3
  <2> QED BY <2>1, <2>2
<1>3. \E f : Q(f)
  <2> DEFINE j == [u \in Nat |-> IF u = 0 THEN 0 ELSE u - 1]
             c == [value |-> b[n], next |-> n + 1]
             g == [u \in Nat |-> [r \in Varints |-> IF u < n THEN E(n - u, r) ELSE r]]
  <2> HIDE DEF E
  <2>1. c \in Varints
    BY <1>1 DEF Varints
  <2>2. j \in [Nat -> Nat] /\ \A u \in Nat \ {0} : j[u] < u
    OBVIOUS
  <2>3. g \in [Nat -> [Varints -> Varints]]
    <3>1. ASSUME NEW u \in Nat, NEW r \in Varints
          PROVE  (IF u < n THEN E(n - u, r) ELSE r) \in Varints
      <4>1. u < n => n - u \in 1 .. n
        BY <1>1
      <4> QED BY <1>2, <4>1
    <3> QED BY <3>1
  <2>4. PICK f \in [Nat -> Varints] : \A u \in Nat : f[u] = IF u = 0 THEN c ELSE g[u][f[j[u]]]
    <3>1. Grounded(Varints, c, j, g)
      BY <2>1, <2>2, <2>3 DEF Grounded
    <3> HIDE DEF j, g, c
    <3>2. PICK f : Solves(f, Varints, c, j, g)
      BY <3>1, Recursion
    <3> QED BY <3>2 DEF Solves
  <2> DEFINE e == [k \in DOMAIN b |-> f[n - k]]
  <2>5. ASSUME NEW k \in 1 .. n PROVE e[k] = E(k, e[k + 1])
    <3>1. e[k] = f[n - k] /\ n - k \in Nat
      BY <1>1
    <3>2. CASE k = n
      <4>1. f[n - k] = c
        <5> HIDE DEF c, g, j
        <5> QED BY <1>1, <2>4, <3>2
      <4> HIDE DEF e, g, j
      <4> QED BY <3>1, <3>2, <4>1 DEF E
    <3>3. CASE k # n
      <4>1. n - k \in Nat \ {0} /\ n - k < n /\ n - (n - k) = k /\ k + 1 \in 1 .. n
        BY <1>1, <3>3
      <4>2. j[n - k] = n - (k + 1)
        BY <1>1, <4>1
      <4>3. e[k + 1] = f[n - (k + 1)] /\ n - (k + 1) \in Nat
        BY <1>1, <4>1
      <4>4. f[n - k] = g[n - k][f[n - (k + 1)]]
        <5> HIDE DEF c, g, j
        <5> QED BY <2>4, <4>1, <4>2
      <4>5. \A r \in Varints : g[n - k][r] = E(n - (n - k), r)
        BY <4>1
      <4>6. f[n - (k + 1)] \in Varints
        BY <4>3
      <4> HIDE DEF e, g, j
      <4> QED BY <3>1, <4>1, <4>3, <4>4, <4>5, <4>6
    <3> QED BY <3>2, <3>3
  <2>6. Q(e)
    BY <1>1, <2>5
  <2> HIDE DEF Q
  <2> QED BY <2>6
<1>4. Q(h)
  <2> HIDE DEF Q
  <2> QED BY <1>3, Zenon
<1>6. \A k \in 1 .. n : h[k] = E(k, h[k + 1])
  <2> HIDE DEF E
  <2> QED BY <1>1, <1>4
<1> HIDE DEF h
<1>7. \A k \in 1 .. n : h[k] \in Varints /\ h[k].next \in k + 1 .. n + 1
  <2> DEFINE T == {u \in Nat : u < n => h[n - u] \in Varints /\ h[n - u].next \in n - u + 1 .. n + 1}
  <2>1. 0 \in T
    <3>1. n - 0 = n /\ n \in 1 .. n
      BY <1>1
    <3>2. h[n] = [value |-> b[n], next |-> n + 1]
      BY <1>6, <3>1
    <3>3. h[n] \in Varints /\ h[n].next = n + 1
      BY <1>1, <3>2 DEF Varints
    <3> QED BY <1>1, <3>1, <3>3
  <2>2. ASSUME NEW u \in T PROVE u + 1 \in T
    <3> SUFFICES ASSUME u + 1 < n
                 PROVE  h[n - (u + 1)] \in Varints /\ h[n - (u + 1)].next \in n - (u + 1) + 1 .. n + 1
      OBVIOUS
    <3> DEFINE k == n - (u + 1)
    <3>1. k \in 1 .. n /\ k # n /\ k + 1 = n - u /\ u \in Nat /\ u < n
      BY <1>1
    <3>2. h[k + 1] \in Varints /\ h[k + 1].next \in k + 2 .. n + 1
      BY <3>1
    <3> HIDE DEF k
    <3>3. h[k] = E(k, h[k + 1])
      BY <1>6, <3>1
    <3>4. h[k] \in Varints
      <4> HIDE DEF E
      <4> QED BY <1>2, <3>1, <3>2, <3>3
    <3>5. h[k].next = k + 1 \/ h[k].next = h[k + 1].next
      BY <3>3
    <3>6. h[k].next \in k + 1 .. n + 1
      BY <1>1, <3>1, <3>2, <3>5
    <3> QED BY <3>4, <3>6 DEF k
  <2>3. T = Nat
    <3>1. T \in SUBSET Nat
      OBVIOUS
    <3> HIDE DEF T
    <3> QED BY <2>1, <2>2, <3>1, Induction
  <2>4. ASSUME NEW k \in 1 .. n PROVE h[k] \in Varints /\ h[k].next \in k + 1 .. n + 1
    <3>1. n - k \in Nat /\ n - k < n /\ n - (n - k) = k
      BY <1>1
    <3>2. n - k \in T
      <4> HIDE DEF T
      <4> QED BY <2>3, <3>1
    <3> QED BY <3>1, <3>2
  <2> QED BY <2>4
<1>8. i \in 1 .. n
  BY DEF n
<1>9. h[i] = E(i, h[i + 1])
  BY <1>6, <1>8
<1> QED BY <1>0, <1>7, <1>8, <1>9 DEF n

\* A varint is read back, wherever it is.
LEMMA VarintRead ==
  ASSUME NEW b \in Seq(Byte), NEW v \in Nat, NEW o, At(b, o, Varint(v))
  PROVE  /\ VarintAt(b, o + 1) = [value |-> v, next |-> o + 1 + Len(Varint(v))]
         /\ Len(Varint(v)) \in Nat \ {0} /\ o + 1 \in 1 .. Len(b)
<1> DEFINE T == {u \in Nat : /\ Len(Varint(u)) \in Nat \ {0}
                             /\ \A p \in Nat : At(b, p, Varint(u)) =>
                                  VarintAt(b, p + 1) = [value |-> u, next |-> p + 1 + Len(Varint(u))]}
<1>1. ASSUME NEW u \in Nat, 0 .. u - 1 \subseteq T PROVE u \in T
  <2>1. CASE u < 128
    <3>1. Varint(u) = <<u>> /\ Len(Varint(u)) = 1
      <4>1. ~ (u >= 128)
        BY <2>1
      <4>2. Varint(u) = <<u>>
        BY <4>1, VarintIs
      <4> QED BY <4>2
    <3>2. ASSUME NEW p \in Nat, At(b, p, Varint(u))
          PROVE  VarintAt(b, p + 1) = [value |-> u, next |-> p + 1 + Len(Varint(u))]
      <4>1. p + 1 \in 1 .. Len(b) /\ b[p + 1] = u
        BY <3>1, <3>2 DEF At
      <4>2. VarintAt(b, p + 1) = [value |-> b[p + 1], next |-> p + 1 + 1]
        BY <2>1, <4>1, VarintAtIs
      <4> QED BY <3>1, <4>1, <4>2
    <3>3. Len(Varint(u)) \in Nat \ {0}
      BY <3>1
    <3> QED BY <3>2, <3>3, Zenon
  <2>2. CASE u >= 128
    <3> DEFINE q == u \div 128
               c == 128 + (u % 128)
    <3>1. q \in Nat /\ q < u /\ c \in Byte /\ c >= 128 /\ c - 128 + 128 * q = u
      BY <2>2 DEF Byte
    <3>2. Varint(u) = <<c>> \o Varint(q) /\ Varint(q) \in Seq(Byte)
      BY <2>2, <3>1, VarintIs
    <3>3. q \in T
      BY <1>1, <3>1
    <3> HIDE DEF q, c
    <3>4. /\ Len(Varint(q)) \in Nat \ {0}
          /\ \A p \in Nat : At(b, p, Varint(q)) =>
               VarintAt(b, p + 1) = [value |-> q, next |-> p + 1 + Len(Varint(q))]
      BY <3>3
    <3>5. <<c>> \in Seq(Byte) /\ Len(<<c>>) = 1 /\ Len(Varint(u)) = 1 + Len(Varint(q))
      BY <3>1, <3>2
    <3>6. ASSUME NEW p \in Nat, At(b, p, Varint(u))
          PROVE  VarintAt(b, p + 1) = [value |-> u, next |-> p + 1 + Len(Varint(u))]
      <4>1. At(b, p, <<c>>) /\ At(b, p + 1, Varint(q))
        BY <3>2, <3>5, <3>6, AtConcat
      <4>2. b[p + 1] = c /\ p + 1 + Len(Varint(q)) <= Len(b)
        BY <4>1, <3>5 DEF At
      <4>3. p + 1 \in 1 .. Len(b) /\ p + 1 # Len(b)
        BY <3>4, <4>2
      <4>4. VarintAt(b, p + 1 + 1) = [value |-> q, next |-> p + 1 + 1 + Len(Varint(q))]
        BY <3>4, <4>1
      <4>5. VarintAt(b, p + 1) = [value |-> b[p + 1] - 128 + 128 * VarintAt(b, p + 1 + 1).value,
                                  next |-> VarintAt(b, p + 1 + 1).next]
        <5>1. ~ (b[p + 1] < 128 \/ p + 1 = Len(b))
          BY <3>1, <4>2, <4>3 DEF Byte
        <5> QED BY <4>3, <5>1, VarintAtIs
      <4>6. p + 1 + 1 + Len(Varint(q)) = p + 1 + Len(Varint(u))
        BY <3>4, <3>5
      <4> QED BY <3>1, <4>2, <4>4, <4>5, <4>6
    <3>7. Len(Varint(u)) \in Nat \ {0}
      BY <3>4, <3>5
    <3> QED BY <3>6, <3>7, Zenon
  <2> QED BY <2>1, <2>2
<1>2. T = Nat
  <2>1. T \in SUBSET Nat
    OBVIOUS
  <2> HIDE DEF T
  <2> QED BY <1>1, <2>1, StrongInduction
<1>3. o \in Nat /\ v \in T /\ o + Len(Varint(v)) <= Len(b)
  BY <1>2 DEF At
<1> QED BY <1>3

-----------------------------------------------------------------------------
(* Fields of a message.                                                     *)

\* Wherever e is, field f with the content c is read there, and nothing more.
Reads(e, f, c) ==
  /\ e \in Seq(Byte) /\ Len(e) >= 2
  /\ \A b \in Seq(Byte) : \A o \in Nat :
       At(b, o, e) => FieldAt(b, o + 1) = [field |-> f, content |-> c, next |-> o + 1 + Len(e)]

LEMMA TagIs ==
  ASSUME NEW f \in {1, 2}, NEW w \in {0, 1, 2}
  PROVE  /\ Tag(f, w) \in Seq(Byte) /\ Len(Tag(f, w)) = 1 /\ Tag(f, w)[1] \in Byte
         /\ Tag(f, w)[1] % 8 = w /\ Tag(f, w)[1] \div 8 = f
<1> DEFINE t == f * 8 + w
<1>1. t \in Byte /\ t % 8 = w /\ t \div 8 = f
  BY DEF Byte
<1>2. Tag(f, w) = <<t>>
  BY DEF Tag
<1> HIDE DEF t
<1> QED BY <1>1, <1>2

LEMMA DelimitedReads ==
  ASSUME NEW f \in {1, 2}, NEW data \in Seq(Byte)
  PROVE  Reads(Delimited(f, data), f, data)
<1> DEFINE t == Tag(f, 2)
           n == Len(data)
           v == Varint(n)
           e == Delimited(f, data)
<1>1. t \in Seq(Byte) /\ Len(t) = 1 /\ t[1] % 8 = 2 /\ t[1] \div 8 = f
  BY TagIs
<1>2. n \in Nat
  OBVIOUS
<1>3. v \in Seq(Byte)
  BY <1>2, VarintIs
<1>4. e = (t \o v) \o data
  BY DEF Delimited
<1> HIDE DEF t, v, e
<1>5. t \o v \in Seq(Byte) /\ Len(t \o v) = 1 + Len(v)
  <2>1. t \o v \in Seq(Byte) /\ Len(t \o v) = Len(t) + Len(v)
    BY <1>1, <1>3, ConcatIs, Zenon
  <2> QED BY <1>1, <2>1, Zenon
<1>6. e \in Seq(Byte) /\ Len(e) = 1 + Len(v) + n
  <2>1. (t \o v) \o data \in Seq(Byte) /\ Len((t \o v) \o data) = Len(t \o v) + Len(data)
    BY <1>5, ConcatIs, Zenon
  <2> QED BY <1>4, <1>5, <2>1, Zenon
<1>7. Len(v) \in Nat
  BY <1>3
<1>8. Len(v) # 0
  <2>1. At(v, 0, v)
    BY <1>7 DEF At
  <2> QED BY <1>2, <1>3, <2>1, VarintRead DEF v
<1>9. ASSUME NEW b \in Seq(Byte), NEW o \in Nat, At(b, o, e)
      PROVE  FieldAt(b, o + 1) = [field |-> f, content |-> data, next |-> o + 1 + Len(e)]
  <2>1. At(b, o, t \o v) /\ At(b, o + (1 + Len(v)), data)
    BY <1>4, <1>5, <1>9, AtConcat
  <2>2. At(b, o, t) /\ At(b, o + 1, v)
    BY <1>1, <1>3, <2>1, AtConcat
  <2>3. b[o + 1] = t[1]
    BY <1>1, <2>2 DEF At
  <2>4. VarintAt(b, o + 1 + 1) = [value |-> n, next |-> o + 1 + 1 + Len(v)]
    BY <1>2, <2>2, VarintRead DEF v
  <2>5. SubSeq(b, o + (1 + Len(v)) + 1, o + (1 + Len(v)) + n) = data
    BY <2>1, AtIs
  <2>6. o + (1 + Len(v)) + 1 = o + 1 + 1 + Len(v)
        /\ o + (1 + Len(v)) + n = o + 1 + 1 + Len(v) + n - 1
        /\ o + 1 + 1 + Len(v) + n = o + 1 + Len(e)
    BY <1>2, <1>6, <1>7
  <2>7. FieldAt(b, o + 1) =
          [field |-> b[o + 1] \div 8,
           content |-> SubSeq(b, VarintAt(b, o + 1 + 1).next,
                              VarintAt(b, o + 1 + 1).next + VarintAt(b, o + 1 + 1).value - 1),
           next |-> VarintAt(b, o + 1 + 1).next + VarintAt(b, o + 1 + 1).value]
    <3>1. b[o + 1] % 8 = 2
      BY <1>1, <2>3
    <3> QED BY <3>1 DEF FieldAt
  <2>8. FieldAt(b, o + 1) =
          [field |-> f,
           content |-> SubSeq(b, o + 1 + 1 + Len(v), o + 1 + 1 + Len(v) + n - 1),
           next |-> o + 1 + 1 + Len(v) + n]
    <3> DEFINE r == VarintAt(b, o + 1 + 1)
    <3>1. r.value = n /\ r.next = o + 1 + 1 + Len(v) /\ b[o + 1] \div 8 = f
      BY <1>1, <2>3, <2>4
    <3>2. FieldAt(b, o + 1) = [field |-> b[o + 1] \div 8,
                               content |-> SubSeq(b, r.next, r.next + r.value - 1),
                               next |-> r.next + r.value]
      BY <2>7
    <3> HIDE DEF r, n
    <3> QED BY <3>1, <3>2, Zenon
  <2> QED BY <2>5, <2>6, <2>8
<1> HIDE DEF n
<1>10. Len(e) >= 2
  BY <1>2, <1>6, <1>7, <1>8
<1> QED BY <1>6, <1>9, <1>10 DEF Reads, e

LEMMA Int64Reads ==
  ASSUME NEW f \in {1, 2}, NEW n \in Nat
  PROVE  Reads(Int64(f, n), f, n)
<1> DEFINE t == Tag(f, 0)
           v == Varint(n)
           e == Int64(f, n)
<1>1. t \in Seq(Byte) /\ Len(t) = 1 /\ t[1] % 8 = 0 /\ t[1] \div 8 = f
  BY TagIs
<1>2. v \in Seq(Byte)
  BY VarintIs
<1>3. e = t \o v
  BY DEF Int64
<1> HIDE DEF t, v, e
<1>4. e \in Seq(Byte) /\ Len(e) = 1 + Len(v) /\ Len(v) \in Nat
  <2>1. Len(v) \in Nat
    BY <1>2
  <2> QED BY <1>1, <1>2, <1>3, <2>1, ConcatIs
<1>5. At(v, 0, v)
  BY <1>4 DEF At
<1>6. Len(v) \in Nat \ {0}
  BY <1>2, <1>5, VarintRead DEF v
<1>7. ASSUME NEW b \in Seq(Byte), NEW o \in Nat, At(b, o, e)
      PROVE  FieldAt(b, o + 1) = [field |-> f, content |-> n, next |-> o + 1 + Len(e)]
  <2>1. At(b, o, t) /\ At(b, o + 1, v)
    BY <1>1, <1>2, <1>3, <1>7, AtConcat
  <2>2. b[o + 1] = t[1]
    BY <1>1, <2>1 DEF At
  <2>3. VarintAt(b, o + 1 + 1) = [value |-> n, next |-> o + 1 + 1 + Len(v)]
    BY <2>1, VarintRead DEF v
  <2>4. FieldAt(b, o + 1) = [field |-> b[o + 1] \div 8,
                             content |-> VarintAt(b, o + 1 + 1).value,
                             next |-> VarintAt(b, o + 1 + 1).next]
    <3>1. b[o + 1] % 8 = 0
      BY <1>1, <2>2
    <3> QED BY <3>1 DEF FieldAt
  <2>5. FieldAt(b, o + 1) = [field |-> f, content |-> n, next |-> o + 1 + 1 + Len(v)]
    BY <1>1, <2>2, <2>3, <2>4
  <2>6. o + 1 + 1 + Len(v) = o + 1 + Len(e)
    BY <1>4
  <2> QED BY <2>5, <2>6
<1>8. Len(e) >= 2
  BY <1>4, <1>6
<1> QED BY <1>4, <1>7, <1>8 DEF Reads, e

Eight(c) == [i \in 1 .. 8 |-> IF i = 8 THEN Code[c] ELSE 0]

LEMMA DoubleReads ==
  ASSUME NEW f \in {1, 2}, NEW c \in Character
  PROVE  Reads(Double(f, c), f, Eight(c)) /\ Eight(c)[8] = Code[c]
<1> DEFINE t == Tag(f, 1)
           v == Eight(c)
           e == Double(f, c)
<1>1. t \in Seq(Byte) /\ Len(t) = 1 /\ t[1] % 8 = 1 /\ t[1] \div 8 = f
  BY TagIs
<1>2. v \in Seq(Byte) /\ Len(v) = 8 /\ v[8] = Code[c]
  <2>1. Code[c] \in Byte
    BY CodeAssumption DEF Byte, Character
  <2>2. 0 \in Byte
    BY DEF Byte
  <2>3. v \in [1 .. 8 -> Byte]
    BY <2>1, <2>2 DEF Eight
  <2> QED BY <2>3 DEF Eight
<1>3. e = t \o v
  BY DEF Double, Eight
<1> HIDE DEF t, v, e
<1>4. e \in Seq(Byte) /\ Len(e) = 1 + 8
  <2>1. t \o v \in Seq(Byte) /\ Len(t \o v) = Len(t) + Len(v)
    BY <1>1, <1>2, ConcatIs, Zenon
  <2> QED BY <1>1, <1>2, <1>3, <2>1, Zenon
<1>5. ASSUME NEW b \in Seq(Byte), NEW o \in Nat, At(b, o, e)
      PROVE  FieldAt(b, o + 1) = [field |-> f, content |-> v, next |-> o + 1 + Len(e)]
  <2>1. At(b, o, t) /\ At(b, o + 1, v)
    BY <1>1, <1>2, <1>3, <1>5, AtConcat
  <2>2. b[o + 1] = t[1]
    BY <1>1, <2>1 DEF At
  <2>3. SubSeq(b, o + 1 + 1, o + 1 + 8) = v
    BY <1>2, <2>1, AtIs
  <2>4. FieldAt(b, o + 1) = [field |-> b[o + 1] \div 8,
                             content |-> SubSeq(b, o + 1 + 1, o + 1 + 8),
                             next |-> o + 1 + 9]
    <3>1. b[o + 1] % 8 = 1
      BY <1>1, <2>2
    <3> QED BY <3>1 DEF FieldAt
  <2>5. o + 1 + 9 = o + 1 + Len(e) /\ b[o + 1] \div 8 = f
    BY <1>1, <1>4, <2>2
  <2> QED BY <2>3, <2>4, <2>5, Zenon
<1>6. Len(e) >= 2
  BY <1>4
<1> QED BY <1>2, <1>4, <1>5, <1>6 DEF Reads, e, v

\* A field takes at least two bytes.
LEMMA FieldNext ==
  ASSUME NEW b \in Seq(Byte), NEW i \in Nat \ {0}, i < Len(b)
  PROVE  FieldAt(b, i).next \in Nat /\ FieldAt(b, i).next > i
<1> DEFINE v == VarintAt(b, i + 1)
           w == b[i] % 8
<1>1. i + 1 \in 1 .. Len(b) /\ Len(b) \in Nat
  OBVIOUS
<1>2. v \in Varints /\ v.next \in i + 1 + 1 .. Len(b) + 1
  BY <1>1, VarintAtIs
<1>3. v.value \in Nat /\ v.next \in Nat /\ v.next > i
  BY <1>2 DEF Varints
<1>4. FieldAt(b, i).next = v.next \/ FieldAt(b, i).next = i + 9
      \/ FieldAt(b, i).next = v.next + v.value \/ FieldAt(b, i).next = Len(b) + 2
  <2> HIDE DEF v
  <2>1. CASE w = 0
    BY <2>1 DEF FieldAt, v
  <2>2. CASE w = 1
    BY <2>2 DEF FieldAt, v
  <2>3. CASE w = 2
    BY <2>3 DEF FieldAt, v
  <2>4. CASE w # 0 /\ w # 1 /\ w # 2
    BY <2>4 DEF FieldAt, v
  <2> QED BY <2>1, <2>2, <2>3, <2>4
<1> HIDE DEF v
<1> QED BY <1>1, <1>3, <1>4

\* A sequence read link by link: the link at i in w is x[i], the next is at nx[i].
Linked(n, w, x, nx, A) ==
  n \in Nat /\ w \subseteq 1 .. n /\ \A i \in w : x[i] \in Seq(A) /\ nx[i] \in i + 1 .. n + 1

Chain(f, n, w, x, nx) == f = [i \in 1 .. n + 1 |-> IF i \in w THEN x[i] \o f[nx[i]] ELSE <<>>]

LEMMA ChainExists ==
  ASSUME NEW n, NEW w, NEW x, NEW nx, NEW A, Linked(n, w, x, nx, A)
  PROVE  \E f : Chain(f, n, w, x, nx)
<1> DEFINE S == Seq(A)
           j == [u \in Nat |-> IF n + 1 - u \in w THEN n + 1 - nx[n + 1 - u] ELSE 0]
           g == [u \in Nat |-> [r \in S |-> IF n + 1 - u \in w THEN x[n + 1 - u] \o r ELSE <<>>]]
<1>1. n \in Nat /\ (\A i \in w : i \in 1 .. n /\ x[i] \in S /\ nx[i] \in i + 1 .. n + 1)
  BY DEF Linked
<1>2. <<>> \in S /\ \A r, t \in S : r \o t \in S
  OBVIOUS
<1>3. j \in [Nat -> Nat] /\ \A u \in Nat \ {0} : j[u] < u
  <2>1. ASSUME NEW u \in Nat PROVE j[u] \in Nat /\ (u # 0 => j[u] < u)
    <3>1. CASE n + 1 - u \in w
      <4> DEFINE a == nx[n + 1 - u]
      <4>1. a \in n + 1 - u + 1 .. n + 1 /\ j[u] = n + 1 - a
        BY <1>1, <3>1
      <4> HIDE DEF a, j
      <4>2. n + 1 - a \in 0 .. u - 1
        BY <1>1, <4>1
      <4> QED BY <4>1, <4>2
    <3>2. CASE n + 1 - u \notin w
      BY <3>2
    <3> QED BY <3>1, <3>2
  <2>2. j = [u \in Nat |-> j[u]]
    OBVIOUS
  <2> HIDE DEF j
  <2> QED BY <2>1, <2>2
<1>4. g \in [Nat -> [S -> S]]
  <2>1. ASSUME NEW u \in Nat, NEW r \in S
        PROVE  (IF n + 1 - u \in w THEN x[n + 1 - u] \o r ELSE <<>>) \in S
    <3> HIDE DEF S
    <3> QED BY <1>1, <1>2
  <2> HIDE DEF S
  <2> QED BY <2>1
<1>5. PICK f \in [Nat -> S] : \A u \in Nat : f[u] = IF u = 0 THEN <<>> ELSE g[u][f[j[u]]]
  <2>1. Grounded(S, <<>>, j, g)
    <3> HIDE DEF S, j, g
    <3> QED BY <1>2, <1>3, <1>4 DEF Grounded
  <2> HIDE DEF j, g, S
  <2>2. PICK f : Solves(f, S, <<>>, j, g)
    BY <2>1, Recursion
  <2> QED BY <2>2 DEF Solves
<1> DEFINE e == [i \in 1 .. n + 1 |-> f[n + 1 - i]]
<1> HIDE DEF S
<1>6. ASSUME NEW i \in 1 .. n + 1
      PROVE  e[i] = IF i \in w THEN x[i] \o e[nx[i]] ELSE <<>>
  <2>1. e[i] = f[n + 1 - i] /\ n + 1 - i \in Nat
    BY <1>1
  <2>2. CASE i = n + 1
    <3>1. i \notin w /\ n + 1 - i = 0
      BY <1>1, <2>2
    <3>2. f[0] = <<>>
      <4> HIDE DEF g, j
      <4> QED BY <1>5
    <3> QED BY <2>1, <3>1, <3>2, Zenon
  <2>3. CASE i # n + 1
    <3> DEFINE u == n + 1 - i
    <3>1. u # 0 /\ u \in Nat /\ n + 1 - u = i
      BY <1>1, <2>3
    <3> HIDE DEF u
    <3>2. f[u] = g[u][f[j[u]]] /\ f[j[u]] \in S
      <4> HIDE DEF g, j
      <4> QED BY <1>3, <1>5, <3>1
    <3>3. \A r \in S : g[u][r] = IF n + 1 - u \in w THEN x[n + 1 - u] \o r ELSE <<>>
      BY <3>1
    <3>4. f[u] = IF i \in w THEN x[i] \o f[j[u]] ELSE <<>>
      <4> HIDE DEF g, j
      <4>1. f[u] = IF n + 1 - u \in w THEN x[n + 1 - u] \o f[j[u]] ELSE <<>>
        BY <3>2, <3>3
      <4> QED BY <3>1, <4>1, Zenon
    <3>5. i \in w => f[j[u]] = e[nx[i]]
      <4> SUFFICES ASSUME i \in w PROVE f[j[u]] = e[nx[i]]
        OBVIOUS
      <4>1. n + 1 - u \in w
        BY <3>1, Zenon
      <4>2. j[u] = n + 1 - nx[n + 1 - u]
        BY <3>1, <4>1
      <4>3. j[u] = n + 1 - nx[i]
        <5> HIDE DEF j
        <5> QED BY <3>1, <4>2, Zenon
      <4>4. nx[i] \in 1 .. n + 1
        BY <1>1
      <4>5. e[nx[i]] = f[n + 1 - nx[i]]
        BY <4>4
      <4> HIDE DEF j, e
      <4> QED BY <4>3, <4>5, Zenon
    <3> HIDE DEF j, g, e
    <3> QED BY <2>1, <3>4, <3>5, Zenon DEF u
  <2> QED BY <2>2, <2>3
<1>7. Chain(e, n, w, x, nx)
  <2>1. e = [i \in 1 .. n + 1 |-> e[i]]
    OBVIOUS
  <2> HIDE DEF e
  <2> QED BY <1>6, <2>1 DEF Chain
<1> QED BY <1>7, Zenon

LEMMA ChainIs ==
  ASSUME NEW n, NEW w, NEW x, NEW nx, NEW A, Linked(n, w, x, nx, A),
         NEW h, Chain(h, n, w, x, nx)
  PROVE  /\ h \in [1 .. n + 1 -> Seq(A)]
         /\ \A i \in 1 .. n + 1 : h[i] = IF i \in w THEN x[i] \o h[nx[i]] ELSE <<>>
<1> DEFINE S == Seq(A)
<1>1. n \in Nat /\ (\A i \in w : i \in 1 .. n /\ x[i] \in S /\ nx[i] \in i + 1 .. n + 1)
  BY DEF Linked
<1>2. <<>> \in S /\ \A r, t \in S : r \o t \in S
  OBVIOUS
<1> HIDE DEF S
<1>3. /\ h = [i \in 1 .. n + 1 |-> h[i]]
      /\ \A i \in 1 .. n + 1 : h[i] = IF i \in w THEN x[i] \o h[nx[i]] ELSE <<>>
  BY DEF Chain
<1>4. \A i \in 1 .. n + 1 : h[i] \in S
  <2> DEFINE T == {u \in Nat : u <= n => h[n + 1 - u] \in S}
  <2>1. ASSUME NEW u \in Nat, 0 .. u - 1 \subseteq T PROVE u \in T
    <3> SUFFICES ASSUME u <= n PROVE h[n + 1 - u] \in S
      OBVIOUS
    <3> DEFINE i == n + 1 - u
    <3>1. i \in 1 .. n + 1 /\ u = n + 1 - i
      BY <1>1
    <3> HIDE DEF i
    <3>2. i \in w => h[nx[i]] \in S
      <4> SUFFICES ASSUME i \in w PROVE h[nx[i]] \in S
        OBVIOUS
      <4> DEFINE p == nx[i]
                 v == n + 1 - p
      <4>1. p \in i + 1 .. n + 1
        BY <1>1
      <4> HIDE DEF p
      <4>2. v \in 0 .. u - 1 /\ n + 1 - v = p /\ v <= n
        BY <1>1, <3>1, <4>1
      <4> HIDE DEF v
      <4>3. h[n + 1 - v] \in S
        BY <2>1, <4>2
      <4>4. h[p] \in S
        BY <4>2, <4>3, Zenon
      <4> QED BY <4>4 DEF p
    <3>3. h[i] \in S
      BY <1>1, <1>2, <1>3, <3>1, <3>2
    <3> QED BY <3>3 DEF i
  <2>2. T = Nat
    <3>1. T \in SUBSET Nat
      OBVIOUS
    <3> HIDE DEF T
    <3> QED BY <2>1, <3>1, StrongInduction
  <2>3. ASSUME NEW i \in 1 .. n + 1 PROVE h[i] \in S
    <3> DEFINE u == n + 1 - i
    <3>1. u \in Nat /\ u <= n /\ n + 1 - u = i
      BY <1>1
    <3> HIDE DEF u
    <3>2. h[n + 1 - u] \in S
      BY <2>2, <3>1
    <3> QED BY <3>1, <3>2, Zenon
  <2> QED BY <2>3
<1> QED BY <1>3, <1>4 DEF S

\* The fields from each position of a message.
Fields(b) ==
  LET from[i \in 1 .. Len(b) + 1] ==
        IF i < Len(b) /\ FieldAt(b, i).next <= Len(b) + 1
          THEN <<FieldAt(b, i)>> \o from[FieldAt(b, i).next] ELSE <<>>
  IN  from

LEMMA FieldsAre ==
  ASSUME NEW b \in Seq(Byte)
  PROVE  /\ Message(b) = Fields(b)[1]
         /\ Fields(b) \in [1 .. Len(b) + 1 -> Seq({FieldAt(b, i) : i \in 1 .. Len(b)})]
         /\ \A i \in 1 .. Len(b) + 1 :
              Fields(b)[i] = IF i < Len(b) /\ FieldAt(b, i).next <= Len(b) + 1
                               THEN <<FieldAt(b, i)>> \o Fields(b)[FieldAt(b, i).next] ELSE <<>>
<1> DEFINE n == Len(b)
           F(i) == FieldAt(b, i)
           A == {FieldAt(b, i) : i \in 1 .. Len(b)}
           w == {i \in 1 .. n : i < n /\ F(i).next <= n + 1}
           x == [i \in w |-> <<F(i)>>]
           nx == [i \in w |-> F(i).next]
           Q(f) == f = [i \in 1 .. n + 1 |-> IF i < n /\ F(i).next <= n + 1
                                               THEN <<F(i)>> \o f[F(i).next] ELSE <<>>]
           h == CHOOSE f : Q(f)
<1>1. n \in Nat /\ \A i \in 1 .. n + 1 : i < n /\ F(i).next <= n + 1 <=> i \in w
  OBVIOUS
<1>2. Linked(n, w, x, nx, A)
  <2>1. ASSUME NEW i \in w PROVE x[i] \in Seq(A) /\ nx[i] \in i + 1 .. n + 1
    <3>1. i \in Nat \ {0} /\ i < Len(b) /\ i \in 1 .. Len(b) /\ F(i).next <= n + 1
      BY <1>1
    <3>2. FieldAt(b, i).next \in Nat /\ FieldAt(b, i).next > i
      BY <3>1, FieldNext
    <3>3. F(i) \in A
      BY <3>1
    <3> HIDE DEF A, F
    <3> QED BY <1>1, <3>1, <3>2, <3>3 DEF F
  <2> HIDE DEF x, nx, F
  <2> QED BY <1>1, <2>1 DEF Linked
<1>3. Fields(b) = h /\ Message(b) = h[1]
  BY Zenon DEF Fields, Message
<1>4. \A f : Q(f) <=> Chain(f, n, w, x, nx)
  <2> SUFFICES ASSUME NEW f PROVE Q(f) <=> Chain(f, n, w, x, nx)
    OBVIOUS
  <2>1. ASSUME NEW i \in 1 .. n + 1
        PROVE  (IF i < n /\ F(i).next <= n + 1 THEN <<F(i)>> \o f[F(i).next] ELSE <<>>)
                 = IF i \in w THEN x[i] \o f[nx[i]] ELSE <<>>
    <3>1. i \in w => x[i] = <<F(i)>> /\ nx[i] = F(i).next
      <4> HIDE DEF F
      <4> QED OBVIOUS
    <3> HIDE DEF w, x, nx, F
    <3> QED BY <1>1, <3>1
  <2> HIDE DEF w, x, nx, F
  <2>2. [i \in 1 .. n + 1 |-> IF i < n /\ F(i).next <= n + 1 THEN <<F(i)>> \o f[F(i).next] ELSE <<>>]
          = [i \in 1 .. n + 1 |-> IF i \in w THEN x[i] \o f[nx[i]] ELSE <<>>]
    BY <2>1
  <2> QED BY <2>2, Zenon DEF Chain
<1>5. Chain(h, n, w, x, nx)
  <2> HIDE DEF Q, n, w, x, nx, A
  <2>1. \E f : Chain(f, n, w, x, nx)
    BY <1>2, ChainExists
  <2> QED BY <1>4, <2>1, Zenon
<1>6. h \in [1 .. n + 1 -> Seq(A)]
  <2> HIDE DEF h, n, w, x, nx, A
  <2> QED BY <1>2, <1>5, ChainIs
<1>7. \A i \in 1 .. n + 1 : h[i] = IF i < n /\ F(i).next <= n + 1 THEN <<F(i)>> \o h[F(i).next] ELSE <<>>
  <2>1. Q(h)
    BY <1>4, <1>5, Zenon
  <2> HIDE DEF h, F, n
  <2> QED BY <2>1
<1> QED BY <1>3, <1>6, <1>7

\* A message of fields one after another is read as these fields.
AllRead(es, fs, cs) ==
  es \in Seq(Seq(Byte)) /\ \A k \in 1 .. Len(es) : Reads(es[k], fs[k], cs[k])

LEMMA MessageOf ==
  ASSUME NEW es, NEW fs, NEW cs, AllRead(es, fs, cs)
  PROVE  /\ Len(Message(FlattenSeq(es))) = Len(es)
         /\ DOMAIN Message(FlattenSeq(es)) = 1 .. Len(es)
         /\ \A k \in 1 .. Len(es) : /\ Message(FlattenSeq(es))[k].field = fs[k]
                                    /\ Message(FlattenSeq(es))[k].content = cs[k]
<1> DEFINE b == FlattenSeq(es)
           n == Len(es)
           E(k) == Ends(es, k)
           R == {FieldAt(b, i) : i \in 1 .. Len(b)}
           M == Fields(b)
<1>0. es \in Seq(Seq(Byte)) /\ \A k \in 1 .. Len(es) : Reads(es[k], fs[k], cs[k])
  BY DEF AllRead
<1>1. n \in Nat /\ b \in Seq(Byte) /\ Len(b) \in Nat /\ E(n) = Len(b) /\ E(0) = 0
  BY <1>0, PartsIn
<1>2. \A k \in 0 .. n : E(k) \in 0 .. Len(b)
  BY <1>0, PartsIn
<1>3. ASSUME NEW k \in 1 .. n
      PROVE  /\ FieldAt(b, E(k - 1) + 1) = [field |-> fs[k], content |-> cs[k], next |-> E(k) + 1]
             /\ E(k - 1) + 1 < E(k) /\ E(k - 1) \in Nat /\ E(k) \in Nat /\ E(k) <= Len(b)
  <2>1. At(b, E(k - 1), es[k]) /\ es[k] \in Seq(Byte)
    BY <1>0, AtPart
  <2>2. k - 1 \in 0 .. n /\ k \in 0 .. n
    BY <1>1
  <2>3. E(k) = E(k - 1) + Len(es[k]) /\ E(k - 1) \in Nat /\ E(k) \in Nat /\ E(k) <= Len(b)
    <3>1. E(k) = E(k - 1) + Len(es[k])
      BY <1>0, PartsIn
    <3>2. E(k - 1) \in 0 .. Len(b) /\ E(k) \in 0 .. Len(b)
      BY <1>2, <2>2
    <3> HIDE DEF E, b
    <3> QED BY <1>1, <3>1, <3>2
  <2> HIDE DEF E, b
  <2>4. /\ Len(es[k]) >= 2
        /\ FieldAt(b, E(k - 1) + 1) =
             [field |-> fs[k], content |-> cs[k], next |-> E(k - 1) + 1 + Len(es[k])]
    <3>1. Reads(es[k], fs[k], cs[k])
      BY <1>0 DEF n
    <3> QED BY <1>1, <2>1, <2>3, <3>1 DEF Reads
  <2>5. E(k - 1) + 1 + Len(es[k]) = E(k) + 1 /\ E(k - 1) + 1 < E(k)
    <3> DEFINE a == E(k - 1)
               c == Len(es[k])
               d == E(k)
    <3>1. a \in Nat /\ c \in Nat /\ c >= 2 /\ d = a + c
      BY <2>1, <2>3, <2>4
    <3> HIDE DEF a, c, d
    <3>2. a + 1 + c = d + 1 /\ a + 1 < d
      BY <3>1
    <3> QED BY <3>2 DEF a, c, d
  <2> QED BY <2>3, <2>4, <2>5
<1>4. /\ Message(b) = M[1] /\ M \in [1 .. Len(b) + 1 -> Seq(R)]
      /\ \A i \in 1 .. Len(b) + 1 :
           M[i] = IF i < Len(b) /\ FieldAt(b, i).next <= Len(b) + 1
                    THEN <<FieldAt(b, i)>> \o M[FieldAt(b, i).next] ELSE <<>>
  BY <1>1, FieldsAre
<1> HIDE DEF b, n, E, M
<1> DEFINE P(k) == /\ M[E(k) + 1] \in Seq(R) /\ Len(M[E(k) + 1]) = n - k
                   /\ \A q \in 1 .. n - k : M[E(k) + 1][q] = FieldAt(b, E(k + q - 1) + 1)
           T == {u \in Nat : u <= n => P(n - u)}
<1>5. 0 \in T
  <2>1. n - 0 = n /\ E(n) + 1 \in 1 .. Len(b) + 1 /\ ~ (E(n) + 1 < Len(b))
    BY <1>1
  <2>2. M[E(n) + 1] = <<>>
    BY <1>4, <2>1
  <2>3. <<>> \in Seq(R) /\ Len(<<>>) = 0
    OBVIOUS
  <2>4. P(n)
    <3> HIDE DEF R
    <3> QED BY <1>1, <2>2, <2>3
  <2> HIDE DEF P
  <2> QED BY <2>1, <2>4
<1>6. ASSUME NEW u \in T PROVE u + 1 \in T
  <2>0. u + 1 \in Nat
    OBVIOUS
  <2> SUFFICES ASSUME u + 1 <= n PROVE P(n - (u + 1))
    <3> HIDE DEF P
    <3> QED BY <2>0
  <2> DEFINE k == n - (u + 1)
             l == k + 1
             x == FieldAt(b, E(k) + 1)
             y == M[E(l) + 1]
  <2>1. k \in 0 .. n /\ l \in 1 .. n /\ l - 1 = k /\ l = n - u /\ u <= n /\ n - l = u /\ n - k = u + 1 /\ u \in Nat
    BY <1>1
  <2>2. P(l)
    <3> HIDE DEF P, k
    <3> QED BY <2>1, Zenon
  <2> HIDE DEF k, l
  <2>3. /\ x = [field |-> fs[l], content |-> cs[l], next |-> E(l) + 1]
        /\ E(k) + 1 < E(l) /\ E(k) \in Nat /\ E(l) \in Nat /\ E(l) <= Len(b)
    BY <1>3, <2>1, Zenon
  <2>4. x.next = E(l) + 1 /\ E(k) + 1 \in 1 .. Len(b) + 1 /\ E(k) + 1 < Len(b) /\ E(l) + 1 <= Len(b) + 1
        /\ E(k) + 1 \in 1 .. Len(b)
    BY <1>1, <2>3
  <2>5. M[E(k) + 1] = <<x>> \o y
    BY <1>4, <2>4
  <2>6. x \in R /\ y \in Seq(R) /\ Len(y) = u
    BY <2>1, <2>2, <2>4
  <2>7. \A q \in 1 .. u : y[q] = FieldAt(b, E(l + q - 1) + 1)
    BY <2>1, <2>2
  <2> HIDE DEF x, y, R
  <2> DEFINE z == <<x>> \o y
  <2>8. z \in Seq(R) /\ Len(z) = u + 1 /\ z[1] = x /\ \A q \in 1 .. u : z[q + 1] = y[q]
    BY <2>1, <2>6
  <2> HIDE DEF z
  <2>9. ASSUME NEW q \in 1 .. u + 1 PROVE z[q] = FieldAt(b, E(k + q - 1) + 1)
    <3>1. CASE q = 1
      <4>1. k + q - 1 = k
        BY <2>1, <3>1
      <4> QED BY <2>8, <3>1, <4>1, Zenon DEF x
    <3>2. CASE q # 1
      <4> DEFINE r == q - 1
      <4>0. u \in Nat /\ k \in Nat /\ l \in Nat /\ l = k + 1 /\ q \in 1 .. u + 1
        BY <1>1, <2>1
      <4>1. r \in 1 .. u /\ r + 1 = q /\ l + r - 1 = k + q - 1
        BY <3>2, <4>0
      <4> HIDE DEF r
      <4> QED BY <2>7, <2>8, <4>1, Zenon
    <3> QED BY <3>1, <3>2
  <2>10. M[E(k) + 1] = z
    BY <2>5 DEF z
  <2>11. P(k)
    <3>1. M[E(k) + 1] \in Seq(R) /\ Len(M[E(k) + 1]) = n - k
      BY <2>1, <2>8, <2>10, Zenon
    <3>2. \A q \in 1 .. n - k : M[E(k) + 1][q] = FieldAt(b, E(k + q - 1) + 1)
      BY <2>1, <2>9, <2>10, Zenon
    <3> QED BY <3>1, <3>2, Zenon
  <2> HIDE DEF P
  <2> QED BY <2>11 DEF k
<1>7. P(0)
  <2>1. T = Nat
    <3>1. T \in SUBSET Nat
      OBVIOUS
    <3> HIDE DEF T
    <3> QED BY <1>5, <1>6, <3>1, Induction
  <2> HIDE DEF P
  <2>4. n \in T
    <3> HIDE DEF T
    <3> QED BY <1>1, <2>1
  <2>2. P(n - n)
    <3>1. n <= n
      BY <1>1
    <3> QED BY <2>4, <3>1, Zenon
  <2>3. n - n = 0
    BY <1>1
  <2> QED BY <2>2, <2>3, Zenon
<1>8. E(0) + 1 = 1 /\ n - 0 = n
  BY <1>1
<1>9. M[1] \in Seq(R) /\ Len(M[1]) = n
  BY <1>7, <1>8, Zenon
<1>10. ASSUME NEW k \in 1 .. n PROVE M[1][k].field = fs[k] /\ M[1][k].content = cs[k]
  <2>1. 0 + k - 1 = k - 1
    BY <1>1
  <2>2. M[1][k] = FieldAt(b, E(k - 1) + 1)
    BY <1>7, <1>8, <2>1, Zenon
  <2>3. FieldAt(b, E(k - 1) + 1) = [field |-> fs[k], content |-> cs[k], next |-> E(k) + 1]
    BY <1>3
  <2>4. M[1][k] = [field |-> fs[k], content |-> cs[k], next |-> E(k) + 1]
    BY <2>2, <2>3, Zenon
  <2> QED BY <2>4
<1>11. DOMAIN M[1] = 1 .. n
  BY <1>9
<1> QED BY <1>4, <1>9, <1>10, <1>11, Zenon DEF b, n

LEMMA ChosenInterval ==
  ASSUME NEW s, NEW a \in Nat, NEW n \in Nat
  PROVE  Chosen(s, a + 1 .. a + n) = [k \in 1 .. n |-> s[a + k]]
<1> DEFINE T == a + 1 .. a + n
           f == [k \in 1 .. n |-> a + k]
<1>1. T \in SUBSET Int /\ IsFiniteSet(T)
  BY FS_Interval
<1>2. f \in [1 .. n -> T] /\ \A k, l \in 1 .. n : k < l => f[k] < f[l]
  OBVIOUS
<1>3. \A x \in T : \E k \in 1 .. n : f[k] = x
  <2> SUFFICES ASSUME NEW x \in T PROVE \E k \in 1 .. n : f[k] = x
    OBVIOUS
  <2>1. x - a \in 1 .. n /\ f[x - a] = x
    OBVIOUS
  <2> QED BY <2>1
<1> HIDE DEF T, f
<1>4. Cardinality(T) = n /\ Ascending(T) = f
  BY <1>1, <1>2, <1>3, AscendingUnique
<1>5. Chosen(s, T) = [k \in 1 .. Cardinality(T) |-> s[Ascending(T)[k]]]
  BY DEF Chosen
<1>6. Chosen(s, T) = [k \in 1 .. n |-> s[f[k]]]
  BY <1>4, <1>5
<1>7. \A k \in 1 .. n : f[k] = a + k
  BY DEF f
<1> QED BY <1>6, <1>7 DEF T

HasFieldIn(m, f, a, n) ==
  a \in Nat /\ n \in Nat /\ {i \in DOMAIN m : m[i].field = f} = a + 1 .. a + n

LEMMA ContentsOf ==
  ASSUME NEW m, NEW f, NEW a, NEW n, HasFieldIn(m, f, a, n)
  PROVE  Contents(m, f) = [k \in 1 .. n |-> m[a + k].content]
<1> DEFINE c == Chosen(m, {i \in DOMAIN m : m[i].field = f})
<1>1. c = [k \in 1 .. n |-> m[a + k]]
  <2>1. Chosen(m, a + 1 .. a + n) = [k \in 1 .. n |-> m[a + k]]
    BY ChosenInterval DEF HasFieldIn
  <2> QED BY <2>1, Zenon DEF HasFieldIn
<1>2. Contents(m, f) = [i \in 1 .. Len(c) |-> c[i].content]
  BY DEF Contents
<1> HIDE DEF c
<1>3. Len(c) = n /\ \A k \in 1 .. n : c[k] = m[a + k]
  BY <1>1 DEF HasFieldIn
<1> QED BY <1>2, <1>3

\* A message of two fields, 1 and 2.
LEMMA Pair ==
  ASSUME NEW e1, NEW c1, NEW e2, NEW c2, Reads(e1, 1, c1), Reads(e2, 2, c2)
  PROVE  /\ FlattenSeq(<<e1, e2>>) \in Seq(Byte)
         /\ Contents(Message(FlattenSeq(<<e1, e2>>)), 1)[1] = c1
         /\ Contents(Message(FlattenSeq(<<e1, e2>>)), 2)[1] = c2
<1> DEFINE es == <<e1, e2>>
           cs == <<c1, c2>>
           fs == <<1, 2>>
           m == Message(FlattenSeq(es))
<1>1. es \in Seq(Seq(Byte)) /\ Len(es) = 2 /\ es[1] = e1 /\ es[2] = e2
  BY DEF Reads
<1>2. cs[1] = c1 /\ cs[2] = c2 /\ fs[1] = 1 /\ fs[2] = 2
  OBVIOUS
<1> HIDE DEF es, cs, fs
<1>3. \A k \in 1 .. Len(es) : Reads(es[k], fs[k], cs[k])
  <2> SUFFICES ASSUME NEW k \in 1 .. Len(es) PROVE Reads(es[k], fs[k], cs[k])
    OBVIOUS
  <2>1. k = 1 \/ k = 2
    BY <1>1
  <2> QED BY <1>1, <1>2, <2>1
<1>4. /\ FlattenSeq(es) \in Seq(Byte) /\ DOMAIN m = 1 .. 2
      /\ m[1].field = 1 /\ m[1].content = c1 /\ m[2].field = 2 /\ m[2].content = c2
  <2>1. FlattenSeq(es) \in Seq(Byte)
    BY <1>1, PartsIn
  <2>2. /\ DOMAIN m = 1 .. Len(es)
        /\ \A k \in 1 .. Len(es) : m[k].field = fs[k] /\ m[k].content = cs[k]
    <3>1. AllRead(es, fs, cs)
      BY <1>1, <1>3 DEF AllRead
    <3> QED BY <3>1, MessageOf
  <2>3. DOMAIN m = 1 .. 2
    BY <1>1, <2>2
  <2>4. 1 \in 1 .. Len(es) /\ 2 \in 1 .. Len(es)
    BY <1>1
  <2> QED BY <1>2, <2>1, <2>2, <2>3, <2>4
<1> HIDE DEF m
<1>5. {i \in DOMAIN m : m[i].field = 1} = 0 + 1 .. 0 + 1
      /\ {i \in DOMAIN m : m[i].field = 2} = 1 + 1 .. 1 + 1
  <2>1. \A i : i \in 1 .. 2 <=> i = 1 \/ i = 2
    OBVIOUS
  <2>2. \A i : (i \in 0 + 1 .. 0 + 1 <=> i = 1) /\ (i \in 1 + 1 .. 1 + 1 <=> i = 2)
    OBVIOUS
  <2> QED BY <1>4, <2>1, <2>2
<1>6. Contents(m, 1) = [k \in 1 .. 1 |-> m[0 + k].content]
  <2>1. HasFieldIn(m, 1, 0, 1)
    BY <1>5 DEF HasFieldIn
  <2>2. \A a, n : HasFieldIn(m, 1, a, n) => Contents(m, 1) = [k \in 1 .. n |-> m[a + k].content]
    BY ContentsOf
  <2> QED BY <2>1, <2>2
<1>7. Contents(m, 2) = [k \in 1 .. 1 |-> m[1 + k].content]
  <2>1. HasFieldIn(m, 2, 1, 1)
    BY <1>5 DEF HasFieldIn
  <2> QED BY <2>1, ContentsOf
<1>8. Contents(m, 1)[1] = m[1].content /\ Contents(m, 2)[1] = m[2].content
  BY <1>6, <1>7
<1> QED BY <1>4, <1>8 DEF m, es

Labels == [name : Seq(Character), value : Seq(Character)]
Points == [ts : Nat, value : Character]
AllSeries == [labels : Seq(Labels), samples : Seq(Points)]

LEMMA BytesIs ==
  ASSUME NEW s \in Seq(Character)
  PROVE  Bytes(s) \in Seq(Byte) /\ Len(Bytes(s)) = Len(s)
<1>1. Len(s) \in Nat /\ \A i \in 1 .. Len(s) : s[i] \in Character
  OBVIOUS
<1>2. \A c \in Character : Code[c] \in Byte
  BY CodeAssumption, Zenon DEF Byte, Character
<1> HIDE DEF Character, Byte
<1>3. Bytes(s) \in [1 .. Len(s) -> Byte]
  BY <1>1, <1>2 DEF Bytes
<1> QED BY <1>1, <1>3

LEMMA LabelRead ==
  ASSUME NEW l \in Labels
  PROVE  /\ EncodeLabel(l) \in Seq(Byte)
         /\ LabelOf(EncodeLabel(l)) = [name |-> Bytes(l.name), value |-> Bytes(l.value)]
<1>1. Bytes(l.name) \in Seq(Byte) /\ Bytes(l.value) \in Seq(Byte)
  BY BytesIs DEF Labels
<1>2. /\ Reads(Delimited(1, Bytes(l.name)), 1, Bytes(l.name))
      /\ Reads(Delimited(2, Bytes(l.value)), 2, Bytes(l.value))
  BY <1>1, DelimitedReads
<1>3. /\ EncodeLabel(l) \in Seq(Byte)
      /\ Contents(Message(EncodeLabel(l)), 1)[1] = Bytes(l.name)
      /\ Contents(Message(EncodeLabel(l)), 2)[1] = Bytes(l.value)
  BY <1>2, Pair DEF EncodeLabel
<1> QED BY <1>3 DEF LabelOf

LEMMA SampleRead ==
  ASSUME NEW s \in Points
  PROVE  /\ EncodeSample(s) \in Seq(Byte)
         /\ SampleOf(EncodeSample(s)) = [value |-> Code[s.value], ts |-> s.ts]
<1>1. s.value \in Character /\ s.ts \in Nat
  BY DEF Points
<1>2. /\ Reads(Double(1, s.value), 1, Eight(s.value)) /\ Eight(s.value)[8] = Code[s.value]
      /\ Reads(Int64(2, s.ts), 2, s.ts)
  BY <1>1, DoubleReads, Int64Reads
<1>3. /\ EncodeSample(s) \in Seq(Byte)
      /\ Contents(Message(EncodeSample(s)), 1)[1] = Eight(s.value)
      /\ Contents(Message(EncodeSample(s)), 2)[1] = s.ts
  BY <1>2, Pair DEF EncodeSample
<1> QED BY <1>2, <1>3 DEF SampleOf

ReadSample(s) == [value |-> Code[s.value], ts |-> s.ts]
ReadLabel(l) == [name |-> Bytes(l.name), value |-> Bytes(l.value)]
ReadSeries(s) == [labels |-> [i \in 1 .. Len(s.labels) |-> ReadLabel(s.labels[i])],
                  samples |-> [i \in 1 .. Len(s.samples) |-> ReadSample(s.samples[i])]]

LEMMA SeriesRead ==
  ASSUME NEW s \in AllSeries
  PROVE  EncodeSeries(s) \in Seq(Byte) /\ SeriesOf(EncodeSeries(s)) = ReadSeries(s)
<1> DEFINE p == Len(s.labels)
           q == Len(s.samples)
           x == [i \in 1 .. p |-> Delimited(1, EncodeLabel(s.labels[i]))]
           y == [i \in 1 .. q |-> Delimited(2, EncodeSample(s.samples[i]))]
           es == x \o y
           b == FlattenSeq(es)
           m == Message(b)
           fs == [k \in 1 .. p + q |-> IF k <= p THEN 1 ELSE 2]
           cs == [k \in 1 .. p + q |-> IF k <= p THEN EncodeLabel(s.labels[k])
                                       ELSE EncodeSample(s.samples[k - p])]
<1>1. /\ p \in Nat /\ q \in Nat
      /\ \A i \in 1 .. p : s.labels[i] \in Labels
      /\ \A i \in 1 .. q : s.samples[i] \in Points
  <2>1. s.labels \in Seq(Labels) /\ s.samples \in Seq(Points)
    BY DEF AllSeries
  <2> QED BY <2>1
<1>2. b = EncodeSeries(s)
  BY DEF EncodeSeries
<1> HIDE DEF p, q
<1>3. \A i \in 1 .. p : Reads(Delimited(1, EncodeLabel(s.labels[i])), 1, EncodeLabel(s.labels[i]))
  BY <1>1, LabelRead, DelimitedReads
<1>4. \A i \in 1 .. q : Reads(Delimited(2, EncodeSample(s.samples[i])), 2, EncodeSample(s.samples[i]))
  BY <1>1, SampleRead, DelimitedReads
<1>5. x \in Seq(Seq(Byte)) /\ Len(x) = p /\ y \in Seq(Seq(Byte)) /\ Len(y) = q
  <2>1. x \in [1 .. p -> Seq(Byte)]
    BY <1>3 DEF Reads
  <2>2. y \in [1 .. q -> Seq(Byte)]
    BY <1>4 DEF Reads
  <2> HIDE DEF x, y
  <2> QED BY <1>1, <2>1, <2>2
<1>6. \A i \in 1 .. p : x[i] = Delimited(1, EncodeLabel(s.labels[i]))
  OBVIOUS
<1>7. \A i \in 1 .. q : y[i] = Delimited(2, EncodeSample(s.samples[i]))
  OBVIOUS
<1> HIDE DEF x, y
<1>8. /\ es \in Seq(Seq(Byte)) /\ Len(es) = p + q
      /\ \A i \in 1 .. p : es[i] = x[i]
      /\ \A i \in 1 .. q : es[p + i] = y[i]
  <2>1. es \in Seq(Seq(Byte)) /\ Len(es) = Len(x) + Len(y)
        /\ (\A i \in 1 .. Len(x) : es[i] = x[i]) /\ (\A i \in 1 .. Len(y) : es[Len(x) + i] = y[i])
    <3> DEFINE A == Seq(Byte)
    <3>1. x \in Seq(A) /\ y \in Seq(A)
      BY <1>5
    <3> HIDE DEF A
    <3>2. es \in Seq(A) /\ Len(es) = Len(x) + Len(y)
          /\ (\A i \in 1 .. Len(x) : es[i] = x[i]) /\ (\A i \in 1 .. Len(y) : es[Len(x) + i] = y[i])
      BY <3>1, ConcatIs
    <3> QED BY <3>2 DEF A
  <2> QED BY <1>5, <2>1, Zenon
<1> HIDE DEF es
<1>9. ASSUME NEW k \in 1 .. p + q PROVE Reads(es[k], fs[k], cs[k])
  <2>1. CASE k <= p
    <3>1. k \in 1 .. p /\ fs[k] = 1 /\ cs[k] = EncodeLabel(s.labels[k])
      BY <1>1, <2>1
    <3> QED BY <1>3, <1>6, <1>8, <3>1, Zenon
  <2>2. CASE ~ (k <= p)
    <3> DEFINE i == k - p
    <3>1. i \in 1 .. q /\ k = p + i /\ fs[k] = 2 /\ cs[k] = EncodeSample(s.samples[i])
      BY <1>1, <2>2
    <3>2. es[p + i] = y[i]
      BY <1>8, <3>1
    <3> HIDE DEF i, fs, cs
    <3> QED BY <1>4, <1>7, <3>1, <3>2, Zenon
  <2> QED BY <2>1, <2>2
<1>10. b \in Seq(Byte)
  BY <1>8, PartsIn
<1>11. /\ DOMAIN m = 1 .. p + q
       /\ \A k \in 1 .. p + q : m[k].field = fs[k] /\ m[k].content = cs[k]
  <2> HIDE DEF fs, cs
  <2>1. \A k \in 1 .. Len(es) : Reads(es[k], fs[k], cs[k])
    BY <1>8, <1>9
  <2>2. DOMAIN m = 1 .. Len(es) /\ \A k \in 1 .. Len(es) : m[k].field = fs[k] /\ m[k].content = cs[k]
    <3>1. AllRead(es, fs, cs)
      BY <1>8, <2>1 DEF AllRead
    <3> QED BY <3>1, MessageOf DEF m, b
  <2> QED BY <1>8, <2>2
<1> HIDE DEF m, b
<1>12. {k \in DOMAIN m : m[k].field = 1} = 0 + 1 .. 0 + p
  BY <1>1, <1>11
<1>13. {k \in DOMAIN m : m[k].field = 2} = p + 1 .. p + q
  BY <1>1, <1>11
<1>14. Contents(m, 1) = [k \in 1 .. p |-> EncodeLabel(s.labels[k])]
  <2>1. Contents(m, 1) = [k \in 1 .. p |-> m[0 + k].content]
    <3>1. HasFieldIn(m, 1, 0, p)
      BY <1>1, <1>12 DEF HasFieldIn
    <3> QED BY <3>1, ContentsOf
  <2>2. \A k \in 1 .. p : m[0 + k].content = EncodeLabel(s.labels[k])
    <3> SUFFICES ASSUME NEW k \in 1 .. p PROVE m[0 + k].content = EncodeLabel(s.labels[k])
      OBVIOUS
    <3>1. 0 + k = k /\ k \in 1 .. p + q /\ cs[k] = EncodeLabel(s.labels[k])
      BY <1>1
    <3> HIDE DEF cs
    <3> QED BY <1>11, <3>1
  <2> QED BY <2>1, <2>2
<1>15. Contents(m, 2) = [k \in 1 .. q |-> EncodeSample(s.samples[k])]
  <2>1. Contents(m, 2) = [k \in 1 .. q |-> m[p + k].content]
    <3>1. HasFieldIn(m, 2, p, q)
      BY <1>1, <1>13 DEF HasFieldIn
    <3> QED BY <3>1, ContentsOf
  <2>2. \A k \in 1 .. q : m[p + k].content = EncodeSample(s.samples[k])
    <3> SUFFICES ASSUME NEW k \in 1 .. q PROVE m[p + k].content = EncodeSample(s.samples[k])
      OBVIOUS
    <3> DEFINE i == p + k
    <3>1. i \in 1 .. p + q /\ ~ (i <= p) /\ i - p = k
      BY <1>1
    <3> HIDE DEF i
    <3>2. cs[i] = EncodeSample(s.samples[i - p])
      BY <3>1, Zenon
    <3> HIDE DEF cs
    <3>3. m[i].content = EncodeSample(s.samples[k])
      BY <1>11, <3>1, <3>2, Zenon
    <3> QED BY <3>3 DEF i
  <2> QED BY <2>1, <2>2
<1> DEFINE ls == Contents(m, 1)
           ss == Contents(m, 2)
<1>16. Len(ls) = p /\ Len(ss) = q
       /\ (\A k \in 1 .. p : ls[k] = EncodeLabel(s.labels[k]))
       /\ (\A k \in 1 .. q : ss[k] = EncodeSample(s.samples[k]))
  BY <1>1, <1>14, <1>15
<1>17. SeriesOf(b) = [labels |-> [i \in 1 .. Len(ls) |-> LabelOf(ls[i])],
                      samples |-> [i \in 1 .. Len(ss) |-> SampleOf(ss[i])]]
  BY DEF SeriesOf, m
<1> HIDE DEF ls, ss
<1>18. \A i \in 1 .. p : LabelOf(ls[i]) = ReadLabel(s.labels[i])
  BY <1>1, <1>16, LabelRead DEF ReadLabel
<1>19. \A i \in 1 .. q : SampleOf(ss[i]) = ReadSample(s.samples[i])
  BY <1>1, <1>16, SampleRead DEF ReadSample
<1>20. SeriesOf(b) = [labels |-> [i \in 1 .. p |-> ReadLabel(s.labels[i])],
                      samples |-> [i \in 1 .. q |-> ReadSample(s.samples[i])]]
  <2>1. [i \in 1 .. Len(ls) |-> LabelOf(ls[i])] = [i \in 1 .. p |-> ReadLabel(s.labels[i])]
    BY <1>16, <1>18
  <2>2. [i \in 1 .. Len(ss) |-> SampleOf(ss[i])] = [i \in 1 .. q |-> ReadSample(s.samples[i])]
    BY <1>16, <1>19
  <2> QED BY <1>17, <2>1, <2>2, Zenon
<1> QED BY <1>2, <1>10, <1>20 DEF p, q, ReadSeries, b

LEMMA RequestRead ==
  ASSUME NEW ss \in Seq(AllSeries)
  PROVE  /\ EncodeRequest(ss) \in Seq(Byte)
         /\ Contents(Message(EncodeRequest(ss)), 1) = [i \in 1 .. Len(ss) |-> EncodeSeries(ss[i])]
<1> DEFINE n == Len(ss)
           es == [i \in 1 .. n |-> Delimited(1, EncodeSeries(ss[i]))]
           fs == [i \in 1 .. n |-> 1]
           cs == [i \in 1 .. n |-> EncodeSeries(ss[i])]
           b == FlattenSeq(es)
           m == Message(b)
<1>1. n \in Nat /\ \A i \in 1 .. n : ss[i] \in AllSeries
  OBVIOUS
<1>2. b = EncodeRequest(ss)
  BY DEF EncodeRequest
<1> HIDE DEF n
<1>3. \A i \in 1 .. n : Reads(Delimited(1, EncodeSeries(ss[i])), 1, EncodeSeries(ss[i]))
  BY <1>1, SeriesRead, DelimitedReads
<1>4. es \in Seq(Seq(Byte)) /\ Len(es) = n
  <2>1. es \in [1 .. n -> Seq(Byte)]
    BY <1>3 DEF Reads
  <2> HIDE DEF es
  <2> QED BY <1>1, <2>1
<1>5. AllRead(es, fs, cs)
  <2>1. \A i \in 1 .. n : Reads(es[i], fs[i], cs[i])
    BY <1>3
  <2> HIDE DEF es, fs, cs
  <2> QED BY <1>4, <2>1 DEF AllRead
<1> HIDE DEF es
<1>6. b \in Seq(Byte)
  BY <1>4, PartsIn
<1>7. DOMAIN m = 1 .. n /\ \A k \in 1 .. n : m[k].field = 1 /\ m[k].content = EncodeSeries(ss[k])
  <2> HIDE DEF fs, cs
  <2>1. DOMAIN m = 1 .. Len(es) /\ \A k \in 1 .. Len(es) : m[k].field = fs[k] /\ m[k].content = cs[k]
    BY <1>5, MessageOf
  <2>2. \A k \in 1 .. n : fs[k] = 1 /\ cs[k] = EncodeSeries(ss[k])
    BY DEF fs, cs
  <2> HIDE DEF m
  <2> QED BY <1>4, <2>1, <2>2
<1> HIDE DEF m, b
<1>8. HasFieldIn(m, 1, 0, n)
  <2>1. {i \in DOMAIN m : m[i].field = 1} = 0 + 1 .. 0 + n
    BY <1>1, <1>7
  <2> QED BY <1>1, <2>1 DEF HasFieldIn
<1>9. \A a, l : HasFieldIn(m, 1, a, l) => Contents(m, 1) = [k \in 1 .. l |-> m[a + k].content]
  BY ContentsOf
<1>10. Contents(m, 1) = [k \in 1 .. n |-> m[0 + k].content]
  BY <1>8, <1>9
<1>11. \A k \in 1 .. n : 0 + k = k /\ m[k].content = EncodeSeries(ss[k])
  BY <1>1, <1>7
<1>12. Contents(m, 1) = [k \in 1 .. n |-> EncodeSeries(ss[k])]
  BY <1>10, <1>11
<1> QED BY <1>2, <1>6, <1>12 DEF m, b, n

-----------------------------------------------------------------------------
(* Snappy.                                                                  *)

Outs(b) ==
  LET from[j \in 1 .. Len(b) + 1] ==
        LET n == b[j] \div 4 + 1
        IN  IF j <= Len(b) /\ b[j] % 4 = 0 /\ n <= 60 /\ j + n <= Len(b)
              THEN SubSeq(b, j + 1, j + n) \o from[j + n + 1]
              ELSE <<>>
  IN  from

LEMMA ElementsAre ==
  ASSUME NEW b \in Seq(Byte)
  PROVE  /\ \A i : Elements(b, i) = Outs(b)[i]
         /\ Outs(b) \in [1 .. Len(b) + 1 -> Seq(Byte)]
         /\ \A j \in 1 .. Len(b) + 1 :
              Outs(b)[j] =
                IF j <= Len(b) /\ b[j] % 4 = 0 /\ b[j] \div 4 + 1 <= 60 /\ j + (b[j] \div 4 + 1) <= Len(b)
                  THEN SubSeq(b, j + 1, j + (b[j] \div 4 + 1)) \o Outs(b)[j + (b[j] \div 4 + 1) + 1]
                  ELSE <<>>
<1> DEFINE n == Len(b)
           l(j) == b[j] \div 4 + 1
           C(j) == j <= n /\ b[j] % 4 = 0 /\ l(j) <= 60 /\ j + l(j) <= n
           w == {j \in 1 .. n : C(j)}
           x == [j \in w |-> SubSeq(b, j + 1, j + l(j))]
           nx == [j \in w |-> j + l(j) + 1]
           Q(f) == f = [j \in 1 .. n + 1 |-> IF C(j) THEN SubSeq(b, j + 1, j + l(j)) \o f[j + l(j) + 1]
                                             ELSE <<>>]
           h == CHOOSE f : Q(f)
<1>1. n \in Nat /\ \A j \in 1 .. n : l(j) \in Nat \ {0}
  <2>1. n \in Nat /\ \A j \in 1 .. n : b[j] \in Byte
    OBVIOUS
  <2>2. \A c \in Byte : c \div 4 + 1 \in Nat \ {0}
    BY DEF Byte
  <2> QED BY <2>1, <2>2
<1>2. Outs(b) = h /\ \A i : Elements(b, i) = h[i]
  BY Zenon DEF Outs, Elements
<1> HIDE DEF n, l
<1>3. \A j \in 1 .. n + 1 : C(j) <=> j \in w
  BY <1>1
<1>4. Linked(n, w, x, nx, Byte)
  <2>1. ASSUME NEW j \in w PROVE x[j] \in Seq(Byte) /\ nx[j] \in j + 1 .. n + 1
    <3>1. j \in 1 .. n /\ l(j) \in Nat \ {0} /\ j + l(j) <= n
      BY <1>1
    <3>2. j + 1 \in Int /\ j + l(j) \in Int /\ \A i \in j + 1 .. j + l(j) : b[i] \in Byte
      BY <1>1, <3>1 DEF n
    <3>3. SubSeq(b, j + 1, j + l(j)) \in Seq(Byte)
      BY <3>2, SubSeqProperties
    <3>4. j + l(j) + 1 \in j + 1 .. n + 1
      BY <1>1, <3>1
    <3> QED BY <3>3, <3>4
  <2> HIDE DEF x, nx
  <2> QED BY <1>1, <2>1 DEF Linked
<1>5. \A f : Q(f) <=> Chain(f, n, w, x, nx)
  <2> SUFFICES ASSUME NEW f PROVE Q(f) <=> Chain(f, n, w, x, nx)
    OBVIOUS
  <2>1. ASSUME NEW j \in 1 .. n + 1
        PROVE  (IF C(j) THEN SubSeq(b, j + 1, j + l(j)) \o f[j + l(j) + 1] ELSE <<>>)
                 = IF j \in w THEN x[j] \o f[nx[j]] ELSE <<>>
    <3>1. j \in w => x[j] = SubSeq(b, j + 1, j + l(j)) /\ nx[j] = j + l(j) + 1
      <4> HIDE DEF C
      <4> QED OBVIOUS
    <3> HIDE DEF w, x, nx, C
    <3> QED BY <1>3, <3>1
  <2> HIDE DEF w, x, nx, C
  <2>2. [j \in 1 .. n + 1 |-> IF C(j) THEN SubSeq(b, j + 1, j + l(j)) \o f[j + l(j) + 1] ELSE <<>>]
          = [j \in 1 .. n + 1 |-> IF j \in w THEN x[j] \o f[nx[j]] ELSE <<>>]
    BY <2>1
  <2> QED BY <2>2, Zenon DEF Chain
<1>6. Chain(h, n, w, x, nx)
  <2> HIDE DEF Q, w, x, nx
  <2>1. \E f : Chain(f, n, w, x, nx)
    BY <1>4, ChainExists
  <2> QED BY <1>5, <2>1, Zenon
<1>7. h \in [1 .. n + 1 -> Seq(Byte)]
  <2> HIDE DEF h, w, x, nx
  <2> QED BY <1>4, <1>6, ChainIs
<1>8. \A j \in 1 .. n + 1 : h[j] = IF C(j) THEN SubSeq(b, j + 1, j + l(j)) \o h[j + l(j) + 1] ELSE <<>>
  <2>1. Q(h)
    BY <1>5, <1>6, Zenon
  <2> HIDE DEF h, C
  <2> QED BY <2>1
<1> HIDE DEF h
<1>9. Outs(b) = h
  BY <1>2
<1>10. \A i : Elements(b, i) = Outs(b)[i]
  BY <1>2
<1>11. Outs(b) \in [1 .. n + 1 -> Seq(Byte)]
  BY <1>7, <1>9
<1> HIDE DEF C
<1>12. \A j \in 1 .. n + 1 :
         Outs(b)[j] = IF C(j) THEN SubSeq(b, j + 1, j + l(j)) \o Outs(b)[j + l(j) + 1] ELSE <<>>
  BY <1>8, <1>9, Zenon
<1> QED BY <1>10, <1>11, <1>12, Zenon DEF n, l, C

LEMMA AtWithin ==
  ASSUME NEW A, NEW b \in Seq(A), NEW c \in Seq(A), NEW d \in Seq(A), NEW o, NEW p,
         At(b, o, c), At(c, p, d)
  PROVE  At(b, o + p, d)
<1>1. /\ o \in Nat /\ o + Len(c) <= Len(b) /\ \A k \in 1 .. Len(c) : b[o + k] = c[k]
      /\ p \in Nat /\ p + Len(d) <= Len(c) /\ \A k \in 1 .. Len(d) : c[p + k] = d[k]
      /\ Len(b) \in Nat /\ Len(c) \in Nat /\ Len(d) \in Nat
  BY DEF At
<1>2. ASSUME NEW k \in 1 .. Len(d) PROVE b[o + p + k] = d[k]
  <2> DEFINE q == p + k
  <2>1. q \in 1 .. Len(c) /\ o + q = o + p + k /\ c[q] = d[k]
    BY <1>1
  <2> HIDE DEF q
  <2>2. b[o + q] = d[k]
    BY <1>1, <2>1
  <2> QED BY <2>1, <2>2
<1>3. o + p \in Nat /\ o + p + Len(d) <= Len(b)
  BY <1>1
<1> QED BY <1>2, <1>3 DEF At

LEMMA AtSuffix ==
  ASSUME NEW A, NEW x \in Seq(A), NEW y \in Seq(A)
  PROVE  At(x \o y, 0, x) /\ At(x \o y, Len(x), y)
<1> DEFINE z == x \o y
<1>1. z \in Seq(A) /\ Len(z) \in Nat
  BY ConcatIs
<1>2. At(z, 0, x \o y)
  BY <1>1 DEF At
<1> HIDE DEF z
<1>3. At(z, 0, x) /\ At(z, 0 + Len(x), y)
  BY <1>1, <1>2, AtConcat
<1>4. 0 + Len(x) = Len(x)
  OBVIOUS
<1> QED BY <1>3, <1>4 DEF z

\* A receiver uncompresses a block to what was compressed.
LEMMA SnappyRead ==
  ASSUME NEW src \in Seq(Byte)
  PROVE  snappyEncode(src) \in Seq(Byte) /\ Uncompressed(snappyEncode(src)) = src
<1> DEFINE n == Len(src)
           K == (n + 59) \div 60
           e(k) == IF 60 * k > n THEN n ELSE 60 * k
           r(k) == SubSeq(src, e(k - 1) + 1, e(k))
           ps == [k \in 1 .. K |-> LiteralTag(Len(Run(src, k))) \o Run(src, k)]
           V == Varint(n)
           L == Literals(src)
           b == snappyEncode(src)
           O == Outs(b)
           o == Len(V)
           E(k) == Ends(ps, k)
           rest(k) == SubSeq(src, e(k) + 1, n)
<1>1. n \in Nat
  OBVIOUS
<1>2. K \in Nat /\ 60 * K >= n /\ (\A k \in 1 .. K : 60 * (k - 1) < n)
  BY <1>1
<1>3. e(0) = 0 /\ e(K) = n /\ \A k \in 0 .. K : e(k) \in 0 .. n
  BY <1>1, <1>2
<1>4. \A k \in 1 .. K : e(k - 1) = 60 * (k - 1) /\ e(k) - e(k - 1) \in 1 .. 60 /\ k - 1 \in 0 .. K /\ k \in 0 .. K
  <2> SUFFICES ASSUME NEW k \in 1 .. K
               PROVE  /\ e(k - 1) = 60 * (k - 1) /\ e(k) - e(k - 1) \in 1 .. 60
                      /\ k - 1 \in 0 .. K /\ k \in 0 .. K
    BY Zenon
  <2> HIDE DEF K, n
  <2>1. 60 * (k - 1) < n /\ k \in Nat /\ k - 1 \in 0 .. K /\ k \in 0 .. K
    BY <1>2
  <2>2. e(k - 1) = 60 * (k - 1)
    BY <1>1, <2>1
  <2>3. e(k) \in Nat /\ e(k) > 60 * (k - 1) /\ e(k) <= 60 * (k - 1) + 60
    BY <1>1, <2>1
  <2> DEFINE a == e(k - 1)
             c == e(k)
             f == 60 * (k - 1)
  <2>4. a = f /\ f \in Int /\ c \in Nat /\ c > f /\ c <= f + 60
    BY <2>1, <2>2, <2>3
  <2> HIDE DEF a, c, f
  <2>5. c - a \in 1 .. 60
    BY <2>4
  <2> QED BY <2>1, <2>4, <2>5 DEF a, c, f
<1>5. \A k \in 1 .. K : Run(src, k) = r(k)
  <2> SUFFICES ASSUME NEW k \in 1 .. K PROVE Run(src, k) = r(k)
    OBVIOUS
  <2>1. e(k - 1) + 1 = 60 * (k - 1) + 1
    BY <1>4
  <2>2. Run(src, k) = SubSeq(src, 60 * (k - 1) + 1, e(k))
    BY DEF Run
  <2> QED BY <2>1, <2>2
<1>6. b = V \o L /\ L = FlattenSeq(ps)
  BY DEF snappyEncode, Literals
<1>7. V \in Seq(Byte)
  BY <1>1, VarintIs
<1> HIDE DEF b, V, L, n, K, e
<1>8. ASSUME NEW k \in 1 .. K
      PROVE  /\ r(k) \in Seq(Byte) /\ Len(r(k)) = e(k) - e(k - 1) /\ Len(r(k)) \in 1 .. 60
             /\ LiteralTag(Len(r(k))) \in Seq(Byte) /\ Len(LiteralTag(Len(r(k)))) = 1
             /\ LiteralTag(Len(r(k)))[1] % 4 = 0
             /\ LiteralTag(Len(r(k)))[1] \div 4 + 1 = Len(r(k))
  <2>1. e(k - 1) \in 0 .. n /\ e(k) \in 0 .. n /\ e(k) - e(k - 1) \in 1 .. 60
    BY <1>3, <1>4
  <2> DEFINE a == e(k - 1)
             c == e(k)
             d == Len(r(k))
  <2>2. a \in 0 .. n /\ c \in 0 .. n /\ c - a \in 1 .. 60
    BY <2>1
  <2> HIDE DEF a, c
  <2>3. \A i \in a + 1 .. c : src[i] \in Byte
    BY <1>1, <2>2 DEF n
  <2>4. /\ SubSeq(src, a + 1, c) \in Seq(Byte)
        /\ Len(SubSeq(src, a + 1, c)) = IF a + 1 <= c THEN c - (a + 1) + 1 ELSE 0
    BY <1>1, <2>2, <2>3, SubSeqProperties
  <2>5. r(k) \in Seq(Byte) /\ d = c - a /\ d \in 1 .. 60
    <3>1. r(k) = SubSeq(src, a + 1, c)
      BY DEF a, c
    <3> HIDE DEF r
    <3>2. Len(r(k)) = c - a /\ c - a \in 1 .. 60 /\ r(k) \in Seq(Byte)
      BY <1>1, <2>2, <2>4, <3>1
    <3> QED BY <3>2
  <2> HIDE DEF d
  <2>6. (d - 1) * 4 \in Byte /\ ((d - 1) * 4) % 4 = 0 /\ ((d - 1) * 4) \div 4 + 1 = d
    <3> DEFINE v == d - 1
    <3>1. v \in 0 .. 59 /\ d = v + 1
      BY <2>5
    <3> HIDE DEF v
    <3>2. v * 4 \in Byte
      BY <3>1 DEF Byte
    <3>3. (v * 4) % 4 = 0
      BY <3>1
    <3>4. (v * 4) \div 4 = v
      BY <3>1
    <3>5. v * 4 \in Byte /\ (v * 4) % 4 = 0 /\ (v * 4) \div 4 + 1 = d
      BY <3>1, <3>2, <3>3, <3>4
    <3> QED BY <3>5 DEF v
  <2>7. LiteralTag(d) = <<(d - 1) * 4>>
    BY DEF LiteralTag
  <2>8. LiteralTag(d) \in Seq(Byte) /\ Len(LiteralTag(d)) = 1 /\ LiteralTag(d)[1] % 4 = 0
        /\ LiteralTag(d)[1] \div 4 + 1 = d
    BY <2>6, <2>7
  <2> QED BY <2>5, <2>8 DEF a, c, d
<1>9. \A k \in 1 .. K : ps[k] = LiteralTag(Len(r(k))) \o r(k)
  BY <1>5
<1> HIDE DEF r
<1>10. ps \in Seq(Seq(Byte)) /\ Len(ps) = K
  <2>1. \A k \in 1 .. K : ps[k] \in Seq(Byte)
    BY <1>8, <1>9, ConcatIs
  <2>2. ps = [k \in 1 .. K |-> ps[k]]
    OBVIOUS
  <2> HIDE DEF ps
  <2>3. ps \in [1 .. K -> Seq(Byte)]
    BY <2>1, <2>2
  <2> QED BY <1>2, <2>3
<1> HIDE DEF ps
<1>11. /\ L \in Seq(Byte) /\ Len(L) = E(K) /\ E(0) = 0
       /\ \A k \in 0 .. K : E(k) \in 0 .. Len(L)
       /\ \A k \in 1 .. K : E(k) = E(k - 1) + Len(ps[k])
  BY <1>6, <1>10, PartsIn
<1>12. \A k \in 1 .. K : At(L, E(k - 1), ps[k])
  BY <1>6, <1>10, AtPart
<1>13. /\ b \in Seq(Byte) /\ Len(b) = o + Len(L) /\ o \in Nat /\ Len(b) \in Nat /\ Len(L) \in Nat
       /\ At(b, 0, V) /\ At(b, o, L)
  <2>1. b \in Seq(Byte) /\ Len(b) = o + Len(L)
    BY <1>6, <1>7, <1>11, ConcatIs, Zenon
  <2>2. At(b, 0, V) /\ At(b, o, L)
    BY <1>6, <1>7, <1>11, AtSuffix, Zenon
  <2> QED BY <1>7, <1>11, <2>1, <2>2
<1> HIDE DEF o, E, O
<1>14. VarintAt(b, 1) = [value |-> n, next |-> o + 1]
  <2>1. VarintAt(b, 0 + 1) = [value |-> n, next |-> 0 + 1 + o]
    BY <1>1, <1>13, VarintRead DEF V, o
  <2>2. 0 + 1 = 1 /\ 0 + 1 + o = o + 1
    BY <1>13
  <2> QED BY <2>1, <2>2
<1>15. /\ \A i : Elements(b, i) = O[i]
       /\ O \in [1 .. Len(b) + 1 -> Seq(Byte)]
       /\ \A j \in 1 .. Len(b) + 1 :
            O[j] =
              IF j <= Len(b) /\ b[j] % 4 = 0 /\ b[j] \div 4 + 1 <= 60 /\ j + (b[j] \div 4 + 1) <= Len(b)
                THEN SubSeq(b, j + 1, j + (b[j] \div 4 + 1)) \o O[j + (b[j] \div 4 + 1) + 1]
                ELSE <<>>
  BY <1>13, ElementsAre DEF O
<1>16. ASSUME NEW k \in 1 .. K
       PROVE  O[o + E(k - 1) + 1] = r(k) \o O[o + E(k) + 1]
  <2> DEFINE a == E(k - 1)
             t == LiteralTag(Len(r(k)))
             d == Len(r(k))
             j == o + a + 1
  <2>1. /\ t \in Seq(Byte) /\ Len(t) = 1 /\ t[1] % 4 = 0 /\ t[1] \div 4 + 1 = d
        /\ r(k) \in Seq(Byte) /\ d \in 1 .. 60
    BY <1>8
  <2>2. a \in 0 .. Len(L) /\ E(k) \in 0 .. Len(L)
    BY <1>4, <1>11
  <2>3. ps[k] = t \o r(k) /\ ps[k] \in Seq(Byte)
    BY <1>9, <1>10
  <2> HIDE DEF a, t, d
  <2>4. Len(ps[k]) = 1 + d
    <3>1. Len(ps[k]) = Len(t) + Len(r(k))
      <4> DEFINE z == r(k)
      <4>0. z \in Seq(Byte)
        BY <2>1
      <4> HIDE DEF z
      <4>1. Len(t \o z) = Len(t) + Len(z)
        BY <2>1, <4>0, ConcatIs, Zenon
      <4> QED BY <2>3, <4>1, Zenon DEF z
    <3> QED BY <2>1, <3>1 DEF d
  <2>5. E(k) = a + (1 + d)
    BY <1>11, <2>4 DEF a
  <2>6. At(b, o + a, ps[k])
    BY <1>11, <1>12, <1>13, <2>3, AtWithin DEF a
  <2>7. At(b, o + a, t) /\ At(b, o + a + 1, r(k))
    BY <1>13, <2>1, <2>3, <2>6, AtConcat
  <2>8. b[o + a + 1] = t[1]
    BY <2>1, <2>7 DEF At
  <2>9. SubSeq(b, o + a + 1 + 1, o + a + 1 + d) = r(k)
    BY <1>13, <2>1, <2>7, AtIs DEF d
  <2>10. j \in 1 .. Len(b) + 1 /\ j <= Len(b) /\ j + d <= Len(b) /\ j + d + 1 = o + E(k) + 1
    BY <1>13, <2>1, <2>2, <2>5
  <2>11. b[j] % 4 = 0 /\ b[j] \div 4 + 1 = d /\ d <= 60
    BY <2>1, <2>8
  <2>12. SubSeq(b, j + 1, j + d) = r(k)
    BY <2>9
  <2> HIDE DEF j
  <2>13. O[j] = SubSeq(b, j + 1, j + d) \o O[j + d + 1]
    BY <1>15, <2>10, <2>11
  <2>14. O[j] = r(k) \o O[o + E(k) + 1]
    BY <2>10, <2>12, <2>13, Zenon
  <2> QED BY <2>14 DEF j, a
<1>17. ASSUME NEW k \in 1 .. K PROVE rest(k - 1) = r(k) \o rest(k)
  <2> DEFINE a == e(k - 1)
             c == e(k)
  <2>1. a \in 0 .. n /\ c \in 0 .. n /\ c - a \in 1 .. 60
    BY <1>3, <1>4
  <2> HIDE DEF a, c
  <2>2. a + 1 \in 1 .. n + 1 /\ c \in a + 1 - 1 .. n /\ n \in c .. n
    BY <1>1, <2>1
  <2>3. SubSeq(src, a + 1, c) \o SubSeq(src, c + 1, n) = SubSeq(src, a + 1, n)
    <3> DEFINE f == a + 1
    <3>0. f \in 1 .. n + 1 /\ c \in f - 1 .. n /\ n \in c .. n
      BY <1>1, <2>1
    <3> HIDE DEF f
    <3>1. f \in 1 .. Len(src) + 1 /\ c \in f - 1 .. Len(src) /\ n \in c .. Len(src)
      BY <3>0, Zenon DEF n
    <3>2. SubSeq(src, f, c) \o SubSeq(src, c + 1, n) = SubSeq(src, f, n)
      BY <3>1, ConcatAdjacentSubSeq
    <3> QED BY <3>2 DEF f
  <2> QED BY <2>3 DEF a, c, r
<1>18. O[o + E(K) + 1] = <<>> /\ rest(K) = <<>>
  <2>1. o + E(K) + 1 = Len(b) + 1 /\ ~ (o + E(K) + 1 <= Len(b)) /\ Len(b) + 1 \in 1 .. Len(b) + 1
    BY <1>11, <1>13
  <2>2. O[o + E(K) + 1] = <<>>
    BY <1>15, <2>1
  <2>3. n + 1 \in Int /\ n \in Int /\ n < n + 1
    BY <1>1
  <2>4. SubSeq(src, n + 1, n) = <<>>
    BY <2>3, SubSeqEmpty
  <2> QED BY <1>3, <2>2, <2>4
<1> HIDE DEF rest
<1> DEFINE T == {u \in Nat : u <= K => O[o + E(K - u) + 1] = rest(K - u)}
<1>19. 0 \in T
  <2>1. K - 0 = K
    BY <1>2
  <2> QED BY <1>18, <2>1
<1>20. ASSUME NEW u \in T PROVE u + 1 \in T
  <2> SUFFICES ASSUME u + 1 <= K PROVE O[o + E(K - (u + 1)) + 1] = rest(K - (u + 1))
    OBVIOUS
  <2> DEFINE k == K - u
  <2>1. k \in 1 .. K /\ k - 1 = K - (u + 1) /\ u <= K
    BY <1>2
  <2>2. O[o + E(k) + 1] = rest(k)
    BY <2>1
  <2> HIDE DEF k
  <2>3. O[o + E(k - 1) + 1] = rest(k - 1)
    BY <1>16, <1>17, <2>1, <2>2
  <2> QED BY <2>1, <2>3, Zenon
<1>21. O[o + E(0) + 1] = rest(0)
  <2>1. T = Nat
    <3>1. T \in SUBSET Nat
      OBVIOUS
    <3> HIDE DEF T
    <3> QED BY <1>19, <1>20, <3>1, Induction
  <2>2. K \in T
    <3> HIDE DEF T
    <3> QED BY <1>2, <2>1
  <2>3. K <= K /\ K - K = 0
    BY <1>2
  <2> QED BY <2>2, <2>3
<1>22. rest(0) = src
  <2>1. rest(0) = SubSeq(src, 1, n)
    <3>1. e(0) + 1 = 1
      BY <1>3
    <3> QED BY <3>1, Zenon DEF rest
  <2> QED BY <2>1, SubSeqFull DEF n
<1>23. Elements(b, o + 1) = src
  <2>1. o + E(0) + 1 = o + 1
    BY <1>11, <1>13
  <2> QED BY <1>15, <1>21, <1>22, <2>1
<1>24. Uncompressed(b) = src
  BY <1>14, <1>23 DEF Uncompressed, n
<1> QED BY <1>13, <1>24 DEF b

\* Remote write: the receiver has each series with its labels and samples.
LEMMA WriteRequestRead ==
  ASSUME NEW ss \in Seq(AllSeries)
  PROVE  /\ snappyEncode(EncodeRequest(ss)) \in Seq(Byte)
         /\ WriteRequestOf(snappyEncode(EncodeRequest(ss))) = [i \in 1 .. Len(ss) |-> ReadSeries(ss[i])]
<1> DEFINE b == EncodeRequest(ss)
           c == Contents(Message(Uncompressed(snappyEncode(b))), 1)
           n == Len(ss)
<1>1. n \in Nat /\ \A i \in 1 .. n : ss[i] \in AllSeries
  OBVIOUS
<1>2. b \in Seq(Byte) /\ Contents(Message(b), 1) = [i \in 1 .. n |-> EncodeSeries(ss[i])]
  BY RequestRead
<1> HIDE DEF b
<1>3. snappyEncode(b) \in Seq(Byte) /\ Uncompressed(snappyEncode(b)) = b
  BY <1>2, SnappyRead
<1>4. c = [i \in 1 .. n |-> EncodeSeries(ss[i])]
  BY <1>2, <1>3
<1>5. WriteRequestOf(snappyEncode(b)) = [i \in 1 .. Len(c) |-> SeriesOf(c[i])]
  BY DEF WriteRequestOf
<1> HIDE DEF c, n
<1>6. Len(c) = n /\ \A i \in 1 .. n : c[i] = EncodeSeries(ss[i])
  BY <1>1, <1>4
<1>7. \A i \in 1 .. n : SeriesOf(c[i]) = ReadSeries(ss[i])
  BY <1>1, <1>6, SeriesRead
<1>8. WriteRequestOf(snappyEncode(b)) = [i \in 1 .. n |-> ReadSeries(ss[i])]
  BY <1>5, <1>6, <1>7
<1> QED BY <1>3, <1>8 DEF b, n

-----------------------------------------------------------------------------
(* The grouping of a batch.                                                 *)

BatchPoint == [metric : Name, host : {Host}, value : Numbers, ts : Nat]

LEMMA MetricsIs ==
  ASSUME NEW points \in Seq(BatchPoint)
  PROVE  /\ {p.metric : p \in Range(points)} \in SUBSET Seq(Character)
         /\ IsFiniteSet({p.metric : p \in Range(points)})
         /\ Metrics(points) \in Seq({p.metric : p \in Range(points)})
         /\ \A k, l \in 1 .. Len(Metrics(points)) : k # l => Metrics(points)[k] # Metrics(points)[l]
<1> DEFINE names == {p.metric : p \in Range(points)}
           f == [i \in 1 .. Len(points) |-> points[i].metric]
<1>1. Len(points) \in Nat /\ DOMAIN points = 1 .. Len(points)
      /\ \A i \in 1 .. Len(points) : points[i] \in BatchPoint
  OBVIOUS
<1>2. Range(points) = {points[i] : i \in 1 .. Len(points)}
  BY <1>1 DEF Range
<1>3. \A i \in 1 .. Len(points) : points[i].metric \in Seq(Character)
  BY <1>1 DEF BatchPoint, Name
<1>4. names \in SUBSET Seq(Character)
  BY <1>2, <1>3
<1>5. f \in Surjection(1 .. Len(points), names)
  <2>1. \A i \in 1 .. Len(points) : f[i] \in names
    BY <1>2
  <2>2. \A m \in names : \E i \in 1 .. Len(points) : f[i] = m
    BY <1>2
  <2>3. f \in [1 .. Len(points) -> names]
    BY <2>1
  <2> HIDE DEF f, names
  <2> QED BY <2>2, <2>3 DEF Surjection
<1> HIDE DEF names, f
<1>6. IsFiniteSet(1 .. Len(points))
  BY <1>1, FS_Interval
<1>7. IsFiniteSet(names)
  BY <1>5, <1>6, FS_Surjection
<1>8. Metrics(points) = SortStrings(names)
  BY DEF Metrics, names
<1>9. /\ Metrics(points) \in Seq(names)
      /\ \A k, l \in 1 .. Len(Metrics(points)) : k # l => Metrics(points)[k] # Metrics(points)[l]
  BY <1>4, <1>7, <1>8, SortStringsIs
<1> QED BY <1>4, <1>7, <1>9 DEF names

\* A chosen part of a sequence.
LEMMA ChosenIs ==
  ASSUME NEW A, NEW s \in Seq(A), NEW T \in SUBSET (1 .. Len(s))
  PROVE  /\ Chosen(s, T) \in Seq(A) /\ Len(Chosen(s, T)) = Cardinality(T) /\ Cardinality(T) \in Nat
         /\ Ascending(T) \in [1 .. Cardinality(T) -> T]
         /\ \A k \in 1 .. Cardinality(T) : Chosen(s, T)[k] = s[Ascending(T)[k]]
<1>1. Len(s) \in Nat /\ T \in SUBSET Int
  OBVIOUS
<1>2. IsFiniteSet(T)
  <2>1. IsFiniteSet(1 .. Len(s))
    BY <1>1, FS_Interval
  <2> QED BY <2>1, FS_Subset
<1> DEFINE n == Cardinality(T)
           at == Ascending(T)
<1>3. n \in Nat /\ at \in [1 .. n -> T]
  BY <1>1, <1>2, AscendingIs
<1>4. Chosen(s, T) = [k \in 1 .. n |-> s[at[k]]]
  BY DEF Chosen
<1> HIDE DEF n, at
<1>5. \A k \in 1 .. n : s[at[k]] \in A
  <2>1. \A i \in 1 .. Len(s) : s[i] \in A
    OBVIOUS
  <2>2. \A k \in 1 .. n : at[k] \in 1 .. Len(s)
    BY <1>3
  <2> QED BY <2>1, <2>2, Zenon
<1>6. /\ Chosen(s, T) \in Seq(A) /\ Len(Chosen(s, T)) = n
      /\ \A k \in 1 .. n : Chosen(s, T)[k] = s[at[k]]
  BY <1>3, <1>4, <1>5
<1> QED BY <1>3, <1>6 DEF n, at

\* Sorted has the same samples, by their time stamps.
LEMMA SortedIs ==
  ASSUME NEW s \in Seq(Points)
  PROVE  \E at : /\ at \in Bijection(1 .. Len(s), 1 .. Len(s))
                 /\ Sorted(s) = [k \in 1 .. Len(s) |-> s[at[k]]]
                 /\ \A k \in 1 .. Len(s) - 1 : s[at[k]].ts <= s[at[k + 1]].ts
<1> DEFINE n == Len(s)
           D == 1 .. n
           R == {p \in (DOMAIN s) \X (DOMAIN s) : \/ s[p[1]].ts < s[p[2]].ts
                                                  \/ s[p[1]].ts = s[p[2]].ts /\ p[1] < p[2]}
           at == Ordered(DOMAIN s, R)
<1>1. n \in Nat /\ DOMAIN s = D /\ \A i \in D : s[i].ts \in Nat /\ i \in Int
  <2>1. n \in Nat /\ DOMAIN s = D /\ \A i \in D : s[i] \in Points /\ i \in Int
    OBVIOUS
  <2>2. \A x \in Points : x.ts \in Nat
    BY DEF Points
  <2> QED BY <2>1, <2>2
<1>2. Sorted(s) = [k \in DOMAIN s |-> s[at[k]]]
  BY DEF Sorted
<1>3. \A i, j \in D : <<i, j>> \in R <=> s[i].ts < s[j].ts \/ (s[i].ts = s[j].ts /\ i < j)
  BY <1>1
<1> HIDE DEF R, n
<1>4. IsFiniteSet(D) /\ Cardinality(D) = n
  BY <1>1, FS_Interval
<1> HIDE DEF D
<1>5. StrictOrder(D, R)
  <2> DEFINE ts == [i \in D |-> s[i].ts]
  <2>1. \A i \in D : ts[i] \in Nat /\ i \in Int
    BY <1>1
  <2>2. \A i, j \in D : <<i, j>> \in R <=> ts[i] < ts[j] \/ (ts[i] = ts[j] /\ i < j)
    BY <1>3
  <2> HIDE DEF ts
  <2>3. \A x \in D : <<x, x>> \notin R
    BY <2>1, <2>2
  <2>4. \A x, y, z \in D : <<x, y>> \in R /\ <<y, z>> \in R => <<x, z>> \in R
    BY <2>1, <2>2
  <2>5. \A x, y \in D : x # y => <<x, y>> \in R \/ <<y, x>> \in R
    BY <2>1, <2>2
  <2> QED BY <1>4, <2>3, <2>4, <2>5 DEF StrictOrder
<1>9. at = Ordered(D, R)
  BY <1>1, Zenon
<1> HIDE DEF at
<1>6. /\ at \in [1 .. n -> D]
      /\ \A x \in D : \E k \in 1 .. n : at[k] = x
      /\ \A k, l \in 1 .. n : k < l => <<at[k], at[l]>> \in R
  <2> DEFINE O == Ordered(D, R)
             c == Cardinality(D)
  <2>1. /\ O \in [1 .. c -> D] /\ (\A x \in D : \E k \in 1 .. c : O[k] = x)
        /\ \A k, l \in 1 .. c : k < l => <<O[k], O[l]>> \in R
    BY <1>5, OrderedIs
  <2> HIDE DEF O
  <2> QED BY <1>4, <1>9, <2>1, Zenon DEF O
<1>7. at \in Bijection(1 .. n, D)
  <2>1. at \in Surjection(1 .. n, D)
    BY <1>6 DEF Surjection
  <2>2. \A k, l \in 1 .. n : at[k] = at[l] => k = l
    <3> SUFFICES ASSUME NEW k \in 1 .. n, NEW l \in 1 .. n, at[k] = at[l], k # l PROVE FALSE
      OBVIOUS
    <3>1. <<at[k], at[l]>> \in R \/ <<at[l], at[k]>> \in R
      BY <1>1, <1>6
    <3>2. at[k] \in D
      BY <1>6
    <3> QED BY <1>5, <3>1, <3>2 DEF StrictOrder
  <2>3. at \in Injection(1 .. n, D)
    BY <1>6, <2>2 DEF Injection, IsInjective
  <2> QED BY <2>1, <2>3 DEF Bijection
<1>8. ASSUME NEW k \in 1 .. n - 1 PROVE s[at[k]].ts <= s[at[k + 1]].ts
  <2> DEFINE l == k + 1
  <2>1. k \in 1 .. n /\ l \in 1 .. n /\ k < l
    BY <1>1
  <2> HIDE DEF l
  <2>2. <<at[k], at[l]>> \in R /\ at[k] \in D /\ at[l] \in D
    BY <1>6, <2>1
  <2>3. s[at[k]].ts <= s[at[l]].ts
    <3> DEFINE i == at[k]
               j == at[l]
    <3>1. i \in D /\ j \in D /\ <<i, j>> \in R
      BY <2>2
    <3> HIDE DEF i, j
    <3>2. s[i].ts <= s[j].ts
      BY <1>1, <1>3, <3>1
    <3> QED BY <3>2 DEF i, j
  <2> QED BY <2>3 DEF l
<1> QED BY <1>1, <1>2, <1>7, <1>8 DEF n, D

\* t is s in another order.
Permuted(n, at, s, t) ==
  /\ n \in Nat /\ at \in Bijection(1 .. n, 1 .. n)
  /\ DOMAIN s = 1 .. n /\ t = [k \in 1 .. n |-> s[at[k]]]

LEMMA TimesPermuted ==
  ASSUME NEW n, NEW at, NEW s, NEW t, Permuted(n, at, s, t), NEW x
  PROVE  Times(t, x) = Times(s, x)
<1> USE DEF Permuted
<1> DEFINE T == {i \in DOMAIN t : t[i] = x}
           S == {i \in DOMAIN s : s[i] = x}
           f == [i \in T |-> at[i]]
<1>1. T \in SUBSET (1 .. n) /\ \A i \in 1 .. n : i \in T <=> s[at[i]] = x
  OBVIOUS
<1>2. S \in SUBSET (1 .. n) /\ \A i \in 1 .. n : i \in S <=> s[i] = x
  OBVIOUS
<1>3. /\ at \in [1 .. n -> 1 .. n] /\ (\A i, j \in 1 .. n : at[i] = at[j] => i = j)
      /\ \A j \in 1 .. n : \E i \in 1 .. n : at[i] = j
  BY DEF Bijection, Injection, IsInjective, Surjection
<1>4. Times(t, x) = Cardinality(T) /\ Times(s, x) = Cardinality(S)
  BY DEF Times
<1> HIDE DEF T, S
<1>5. ExistsBijection(T, S)
  <2>1. f \in [T -> S]
    BY <1>1, <1>2, <1>3
  <2>2. \A i, j \in T : f[i] = f[j] => i = j
    BY <1>1, <1>3
  <2>3. \A j \in S : \E i \in T : f[i] = j
    <3> SUFFICES ASSUME NEW j \in S PROVE \E i \in T : f[i] = j
      OBVIOUS
    <3>1. PICK i \in 1 .. n : at[i] = j
      BY <1>2, <1>3
    <3>2. i \in T
      BY <1>1, <1>2, <3>1
    <3> QED BY <3>1, <3>2
  <2> HIDE DEF f
  <2>4. f \in Bijection(T, S)
    BY <2>1, <2>2, <2>3 DEF Bijection, Injection, IsInjective, Surjection
  <2> QED BY <2>4 DEF ExistsBijection
<1>6. IsFiniteSet(T)
  <2>1. IsFiniteSet(1 .. n)
    BY FS_Interval
  <2> QED BY <1>1, <2>1, FS_Subset
<1> QED BY <1>4, <1>5, <1>6, FS_Bijection

\* The two names of one metric in Prometheus differ in "." and "_" alone.
LEMMA PromNameIs ==
  ASSUME NEW m \in Seq(Character)
  PROVE  /\ prometheusMetricName(m) \in Seq(Character)
         /\ Len(prometheusMetricName(m)) = Len(m) + 1
         /\ \A k \in 1 .. Len(m) : prometheusMetricName(m)[k + 1] = IF m[k] = "." THEN "_" ELSE m[k]
<1> DEFINE r == [i \in 1 .. Len(m) |-> IF m[i] = "." THEN "_" ELSE m[i]]
<1>1. "rhelmon_" \in Character /\ "_" \in Character
  BY CharacterAssumption
<1> HIDE DEF Character
<1>2. Len(m) \in Nat /\ \A i \in 1 .. Len(m) : m[i] \in Character
  OBVIOUS
<1>3. r \in Seq(Character) /\ Len(r) = Len(m)
  <2>1. r \in [1 .. Len(m) -> Character]
    BY <1>1, <1>2
  <2> HIDE DEF r
  <2> QED BY <1>2, <2>1
<1>4. prometheusMetricName(m) = <<"rhelmon_">> \o r
  BY DEF prometheusMetricName
<1>5. \A i \in 1 .. Len(m) : r[i] = IF m[i] = "." THEN "_" ELSE m[i]
  OBVIOUS
<1> HIDE DEF r
<1> DEFINE h == <<"rhelmon_">>
<1>6. h \in Seq(Character) /\ Len(h) = 1
  <2>1. \A c \in Character : <<c>> \in Seq(Character) /\ Len(<<c>>) = 1
    OBVIOUS
  <2> QED BY <1>1, <2>1, Zenon
<1> HIDE DEF h
<1>7. /\ h \o r \in Seq(Character) /\ Len(h \o r) = 1 + Len(m)
      /\ \A i \in 1 .. Len(m) : (h \o r)[1 + i] = r[i]
  <2>1. /\ h \o r \in Seq(Character) /\ Len(h \o r) = Len(h) + Len(r)
        /\ \A i \in 1 .. Len(r) : (h \o r)[Len(h) + i] = r[i]
    <3>1. \A x, y \in Seq(Character) :
             /\ x \o y \in Seq(Character) /\ Len(x \o y) = Len(x) + Len(y)
             /\ \A i \in 1 .. Len(y) : (x \o y)[Len(x) + i] = y[i]
      BY ConcatIs
    <3> QED BY <1>3, <1>6, <3>1, Zenon
  <2> QED BY <1>3, <1>6, <2>1, Zenon
<1>8. \A i \in 1 .. Len(m) : i + 1 = 1 + i
  OBVIOUS
<1>9. 1 + Len(m) = Len(m) + 1
  BY <1>2
<1> QED BY <1>4, <1>5, <1>7, <1>8, <1>9, Zenon DEF h

LEMMA PromNamesDiffer ==
  ASSUME NEW a \in Seq(Character), NEW b \in Seq(Character), a # b,
         Bytes(prometheusMetricName(a)) = Bytes(prometheusMetricName(b))
  PROVE  \E k \in DOMAIN a : {a[k], b[k]} = {".", "_"}
<1> DEFINE p == prometheusMetricName(a)
           q == prometheusMetricName(b)
<1>1. /\ p \in Seq(Character) /\ Len(p) = Len(a) + 1
      /\ \A k \in 1 .. Len(a) : p[k + 1] = IF a[k] = "." THEN "_" ELSE a[k]
  BY PromNameIs
<1>2. /\ q \in Seq(Character) /\ Len(q) = Len(b) + 1
      /\ \A k \in 1 .. Len(b) : q[k + 1] = IF b[k] = "." THEN "_" ELSE b[k]
  BY PromNameIs
<1>3. Bytes(p) = Bytes(q)
  OBVIOUS
<1> HIDE DEF p, q
<1>4. Len(p) = Len(q)
  BY <1>1, <1>2, <1>3, BytesIs
<1>5. Len(a) \in Nat /\ Len(b) \in Nat /\ Len(a) = Len(b)
  <2> DEFINE x == Len(a)
             y == Len(b)
  <2>1. x \in Nat /\ y \in Nat
    OBVIOUS
  <2>2. x + 1 = y + 1
    BY <1>1, <1>2, <1>4, Zenon
  <2> HIDE DEF x, y
  <2>3. x = y
    BY <2>1, <2>2
  <2> QED BY <2>1, <2>3 DEF x, y
<1>6. \A c, d \in Character : Code[c] = Code[d] => c = d
  BY CodeAssumption DEF Character
<1> HIDE DEF Character
<1>7. ASSUME NEW k \in 1 .. Len(p) PROVE p[k] = q[k]
  <2>1. Bytes(p)[k] = Code[p[k]] /\ Bytes(q)[k] = Code[q[k]]
    BY <1>4 DEF Bytes
  <2>2. Code[p[k]] = Code[q[k]]
    BY <1>3, <2>1, Zenon
  <2>3. k \in 1 .. Len(q)
    BY <1>4, Zenon
  <2>4. p[k] \in Character
    <3>1. p \in Seq(Character)
      BY <1>1
    <3> QED BY <3>1
  <2>5. q[k] \in Character
    <3>1. q \in Seq(Character)
      BY <1>2
    <3> QED BY <2>3, <3>1
  <2> QED BY <1>6, <2>2, <2>4, <2>5
<1>8. PICK k \in 1 .. Len(a) : a[k] # b[k]
  <2> SUFFICES ASSUME \A k \in 1 .. Len(a) : a[k] = b[k] PROVE FALSE
    OBVIOUS
  <2>1. a = b
    BY <1>5, SeqEqual
  <2> QED BY <2>1
<1>9. p[k + 1] = q[k + 1]
  <2>1. k + 1 \in 1 .. Len(a) + 1
    BY <1>5
  <2>2. k + 1 \in 1 .. Len(p)
    BY <1>1, <2>1, Zenon
  <2> QED BY <1>7, <2>2, Zenon
<1>10. (IF a[k] = "." THEN "_" ELSE a[k]) = IF b[k] = "." THEN "_" ELSE b[k]
  BY <1>1, <1>2, <1>5, <1>9
<1>11. {a[k], b[k]} = {".", "_"}
  BY <1>8, <1>10
<1>12. DOMAIN a = 1 .. Len(a)
  OBVIOUS
<1> QED BY <1>11, <1>12

\* The series of one metric.
LEMMA SeriesIs ==
  ASSUME NEW points \in Seq(BatchPoint), NEW m \in {p.metric : p \in Range(points)}
  PROVE  LET mine == Chosen(points, {i \in DOMAIN points : points[i].metric = m})
             sent == [j \in DOMAIN mine |-> [value |-> Code[mine[j].value], ts |-> mine[j].ts]]
             read == ReadSeries(TimeSeries(points, m))
             ss == read.samples
         IN  /\ TimeSeries(points, m) \in AllSeries
             /\ read.labels = << [name |-> Bytes(<<"__name__">>),
                                  value |-> Bytes(prometheusMetricName(m))],
                                 [name |-> Bytes(<<"host">>), value |-> Bytes(Host)] >>
             /\ Len(ss) = Len(sent) /\ \A s \in Range(sent) : Times(ss, s) = Times(sent, s)
             /\ \A j \in 1 .. Len(ss) - 1 : ss[j].ts <= ss[j + 1].ts
<1> DEFINE T == {i \in DOMAIN points : points[i].metric = m}
           mine == Chosen(points, T)
           sent == [j \in DOMAIN mine |-> [value |-> Code[mine[j].value], ts |-> mine[j].ts]]
           series == TimeSeries(points, m)
           read == ReadSeries(series)
           ss == read.samples
           samples == Samples(points, m)
           n == Len(mine)
           l1 == [name |-> <<"__name__">>, value |-> prometheusMetricName(m)]
           l2 == [name |-> <<"host">>, value |-> points[1].host]
<1>1. DOMAIN points = 1 .. Len(points) /\ Len(points) \in Nat
      /\ \A i \in 1 .. Len(points) : points[i] \in BatchPoint
  OBVIOUS
<1>2. PICK p \in 1 .. Len(points) : points[p].metric = m
  BY <1>1 DEF Range
<1>3. m \in Seq(Character) /\ points[1].host = Host
  <2>1. points[p] \in BatchPoint /\ points[1] \in BatchPoint
    BY <1>1, <1>2
  <2> QED BY <1>2, <2>1 DEF BatchPoint, Name
<1>4. l1 \in Labels /\ l2 \in Labels
  <2>1. /\ "__name__" \in Character /\ "host" \in Character /\ "localhost" \in Character
    BY CharacterAssumption
  <2> HIDE DEF Character
  <2>2. <<"__name__">> \in Seq(Character) /\ <<"host">> \in Seq(Character) /\ Host \in Seq(Character)
    BY <2>1 DEF Host
  <2>3. prometheusMetricName(m) \in Seq(Character)
    BY <1>3, PromNameIs
  <2> QED BY <1>3, <2>2, <2>3 DEF Labels
<1>5. mine \in Seq(BatchPoint) /\ n \in Nat /\ DOMAIN mine = 1 .. n
  <2>1. T \in SUBSET (1 .. Len(points))
    BY <1>1
  <2> HIDE DEF T
  <2>2. mine \in Seq(BatchPoint)
    BY <2>1, ChosenIs
  <2> HIDE DEF mine
  <2> QED BY <2>2
<1>6. samples = [i \in 1 .. n |-> [ts |-> mine[i].ts, value |-> mine[i].value]]
  BY DEF Samples
<1> HIDE DEF mine, n, samples, l1, l2
<1>7. \A i \in 1 .. n : mine[i].ts \in Nat /\ mine[i].value \in Character
  <2>1. \A i \in 1 .. n : mine[i] \in BatchPoint
    BY <1>5
  <2>2. \A x \in BatchPoint : x.ts \in Nat /\ x.value \in Numbers
    BY DEF BatchPoint
  <2>3. Numbers \subseteq Character
    BY CharacterAssumption
  <2> HIDE DEF Character
  <2> QED BY <2>1, <2>2, <2>3
<1>8. samples \in Seq(Points) /\ Len(samples) = n
  <2>1. \A i \in 1 .. n : [ts |-> mine[i].ts, value |-> mine[i].value] \in Points
    BY <1>7 DEF Points
  <2> QED BY <1>5, <1>6, <2>1
<1>9. PICK at : /\ at \in Bijection(1 .. n, 1 .. n)
                /\ Sorted(samples) = [k \in 1 .. n |-> samples[at[k]]]
                /\ \A k \in 1 .. n - 1 : samples[at[k]].ts <= samples[at[k + 1]].ts
  BY <1>8, SortedIs
<1>10. at \in [1 .. n -> 1 .. n]
  BY <1>9 DEF Bijection, Injection
<1>11. Sorted(samples) \in Seq(Points) /\ Len(Sorted(samples)) = n
  <2>1. \A k \in 1 .. n : samples[at[k]] \in Points
    BY <1>8, <1>10
  <2> QED BY <1>5, <1>9, <2>1
<1>12. series = [labels |-> <<l1, l2>>, samples |-> Sorted(samples)]
  BY DEF TimeSeries, l1, l2, samples
<1>13. series \in AllSeries
  <2>1. <<l1, l2>> \in Seq(Labels)
    BY <1>4
  <2> QED BY <1>11, <1>12, <2>1 DEF AllSeries
<1> HIDE DEF series
<1>14. read.labels = <<ReadLabel(l1), ReadLabel(l2)>>
  <2>1. series.labels = <<l1, l2>>
    BY <1>12
  <2>2. read.labels = [i \in 1 .. Len(series.labels) |-> ReadLabel(series.labels[i])]
    BY DEF ReadSeries
  <2>3. read.labels = [i \in 1 .. 2 |-> ReadLabel(<<l1, l2>>[i])]
    BY <2>1, <2>2
  <2> HIDE DEF read
  <2> QED BY <2>3
<1>15. ss = [k \in 1 .. n |-> ReadSample(samples[at[k]])]
  <2>1. series.samples = Sorted(samples)
    BY <1>12
  <2>2. ss = [k \in 1 .. Len(series.samples) |-> ReadSample(series.samples[k])]
    BY DEF ReadSeries
  <2>3. \A k \in 1 .. n : Sorted(samples)[k] = samples[at[k]]
    BY <1>9
  <2> HIDE DEF ss
  <2> QED BY <1>11, <2>1, <2>2, <2>3
<1>16. sent = [j \in 1 .. n |-> ReadSample(samples[j])]
  <2>1. \A j \in 1 .. n : ReadSample(samples[j]) = [value |-> Code[mine[j].value], ts |-> mine[j].ts]
    BY <1>6 DEF ReadSample
  <2> QED BY <1>5, <2>1
<1> HIDE DEF sent, ss
<1>17. ss = [k \in 1 .. n |-> sent[at[k]]] /\ DOMAIN sent = 1 .. n /\ Len(sent) = n /\ Len(ss) = n
  <2>1. \A k \in 1 .. n : sent[at[k]] = ReadSample(samples[at[k]])
    BY <1>10, <1>16
  <2>2. ss = [k \in 1 .. n |-> sent[at[k]]]
    BY <1>15, <2>1
  <2> QED BY <1>5, <1>15, <1>16, <2>2
<1>18. \A s : Times(ss, s) = Times(sent, s)
  <2>1. Permuted(n, at, sent, ss)
    BY <1>5, <1>9, <1>17 DEF Permuted
  <2> QED BY <2>1, TimesPermuted
<1>19. ASSUME NEW j \in 1 .. Len(ss) - 1 PROVE ss[j].ts <= ss[j + 1].ts
  <2> DEFINE k == j + 1
  <2>1. j \in 1 .. n /\ k \in 1 .. n /\ j \in 1 .. n - 1
    BY <1>5, <1>17, <1>19
  <2>2. samples[at[j]].ts <= samples[at[k]].ts
    BY <1>9, <2>1
  <2> HIDE DEF k
  <2>3. ss[j] = ReadSample(samples[at[j]]) /\ ss[k] = ReadSample(samples[at[k]])
    BY <1>15, <2>1
  <2>4. ss[j].ts = samples[at[j]].ts /\ ss[k].ts = samples[at[k]].ts
    BY <2>3 DEF ReadSample
  <2>5. ss[j].ts <= ss[k].ts
    BY <2>2, <2>4
  <2> QED BY <2>5 DEF k
<1>20. <<ReadLabel(l1), ReadLabel(l2)>> =
          << [name |-> Bytes(<<"__name__">>), value |-> Bytes(prometheusMetricName(m))],
             [name |-> Bytes(<<"host">>), value |-> Bytes(Host)] >>
  <2>1. l1.name = <<"__name__">> /\ l1.value = prometheusMetricName(m)
    BY DEF l1
  <2>2. l2.name = <<"host">> /\ l2.value = Host
    BY <1>3 DEF l2
  <2> QED BY <2>1, <2>2 DEF ReadLabel
<1> QED BY <1>13, <1>14, <1>17, <1>18, <1>19, <1>20, Zenon DEF ss, sent, mine, series

LEMMA GroupedRead ==
  ASSUME NEW points \in Seq(BatchPoint)
  PROVE  /\ RemoteWriteBody(points) \in Seq(Byte)
         /\ WriteRequestOf(RemoteWriteBody(points)) =
              [i \in 1 .. Len(Metrics(points)) |-> ReadSeries(TimeSeries(points, Metrics(points)[i]))]
<1> DEFINE ms == Metrics(points)
           n == Len(ms)
           g == Grouped(points)
<1>1. ms \in Seq({p.metric : p \in Range(points)})
  BY MetricsIs
<1>2. g = [i \in 1 .. n |-> TimeSeries(points, ms[i])]
  BY DEF Grouped
<1>3. n \in Nat /\ \A i \in 1 .. n : ms[i] \in {p.metric : p \in Range(points)}
  <2> DEFINE names == {p.metric : p \in Range(points)}
  <2>1. ms \in Seq(names)
    BY <1>1
  <2> HIDE DEF names, ms
  <2> QED BY <2>1 DEF names
<1> HIDE DEF ms
<1>4. \A i \in 1 .. n : TimeSeries(points, ms[i]) \in AllSeries
  BY <1>3, SeriesIs
<1>5. g \in Seq(AllSeries) /\ Len(g) = n /\ \A i \in 1 .. n : g[i] = TimeSeries(points, ms[i])
  <2> HIDE DEF n, g
  <2> QED BY <1>2, <1>3, <1>4
<1>6. RemoteWriteBody(points) = snappyEncode(EncodeRequest(g))
  BY DEF RemoteWriteBody
<1> HIDE DEF g, n
<1>7. /\ snappyEncode(EncodeRequest(g)) \in Seq(Byte)
      /\ WriteRequestOf(snappyEncode(EncodeRequest(g))) = [i \in 1 .. Len(g) |-> ReadSeries(g[i])]
  BY <1>5, WriteRequestRead
<1>8. WriteRequestOf(RemoteWriteBody(points)) = [i \in 1 .. Len(g) |-> ReadSeries(g[i])]
  BY <1>6, <1>7, Zenon
<1>9. WriteRequestOf(RemoteWriteBody(points)) = [i \in 1 .. n |-> ReadSeries(TimeSeries(points, ms[i]))]
  BY <1>5, <1>8
<1> QED BY <1>6, <1>7, <1>9, Zenon DEF n, ms

\* Points(of m) as the receiver should have them.
SentOf(points, m) ==
  LET mine == Chosen(points, {i \in DOMAIN points : points[i].metric = m})
  IN  [j \in DOMAIN mine |-> [value |-> Code[mine[j].value], ts |-> mine[j].ts]]

\* A series as the receiver should have it.
SeriesOfMetric(series, points, m) ==
  LET ss == series.samples
      sent == SentOf(points, m)
  IN  /\ series.labels = << [name |-> Bytes(<<"__name__">>), value |-> Bytes(prometheusMetricName(m))],
                            [name |-> Bytes(<<"host">>), value |-> Bytes(Host)] >>
      /\ Len(ss) = Len(sent) /\ \A s \in Range(sent) : Times(ss, s) = Times(sent, s)
      /\ \A j \in 1 .. Len(ss) - 1 : ss[j].ts <= ss[j + 1].ts

\* A write request as the receiver should have it.
PromDelivered(r, points, ms) ==
  /\ Len(r) = Len(ms) /\ DOMAIN r = 1 .. Len(ms) /\ DOMAIN ms = 1 .. Len(ms)
  /\ \A i \in 1 .. Len(ms) : SeriesOfMetric(r[i], points, ms[i])
  /\ \A i, j \in 1 .. Len(ms) :
       i < j /\ r[i].labels = r[j].labels =>
         \E k \in DOMAIN ms[i] : {ms[i][k], ms[j][k]} = {".", "_"}

\* What remote write delivers of a batch.
LEMMA PromRead ==
  ASSUME NEW points \in Seq(BatchPoint)
  PROVE  PromDelivered(WriteRequestOf(RemoteWriteBody(points)), points, Metrics(points))
<1> DEFINE r == WriteRequestOf(RemoteWriteBody(points))
           ms == Metrics(points)
           n == Len(ms)
           names == {p.metric : p \in Range(points)}
<1>1. /\ ms \in Seq(names) /\ names \in SUBSET Seq(Character)
      /\ \A k, l \in 1 .. n : k # l => ms[k] # ms[l]
  BY MetricsIs
<1> HIDE DEF r, ms
<1>2. \A m \in names : SeriesOfMetric(ReadSeries(TimeSeries(points, m)), points, m)
  <2> SUFFICES ASSUME NEW m \in names
               PROVE  SeriesOfMetric(ReadSeries(TimeSeries(points, m)), points, m)
    OBVIOUS
  <2> QED BY SeriesIs, Zenon DEF SeriesOfMetric, SentOf
<1> HIDE DEF names
<1>3. /\ n \in Nat /\ DOMAIN ms = 1 .. n
      /\ \A i \in 1 .. n : ms[i] \in names
  BY <1>1
<1>10. \A i \in 1 .. n : ms[i] \in Seq(Character)
  BY <1>1, <1>3, Zenon
<1>4. r = [i \in 1 .. n |-> ReadSeries(TimeSeries(points, ms[i]))]
  BY GroupedRead DEF r, ms
<1> HIDE DEF n
<1>5. Len(r) = n /\ DOMAIN r = 1 .. n /\ \A i \in 1 .. n : r[i] = ReadSeries(TimeSeries(points, ms[i]))
  BY <1>3, <1>4
<1>6. \A i \in 1 .. n : SeriesOfMetric(r[i], points, ms[i])
  BY <1>2, <1>3, <1>5, Zenon
<1>7. ASSUME NEW i \in 1 .. n, NEW j \in 1 .. n, i < j, r[i].labels = r[j].labels
      PROVE  \E k \in DOMAIN ms[i] : {ms[i][k], ms[j][k]} = {".", "_"}
  <2> DEFINE a == ms[i]
             b == ms[j]
             p == Bytes(prometheusMetricName(a))
             q == Bytes(prometheusMetricName(b))
             l == [name |-> Bytes(<<"host">>), value |-> Bytes(Host)]
             w == Bytes(<<"__name__">>)
  <2>1. r[i].labels = <<[name |-> w, value |-> p], l>> /\ r[j].labels = <<[name |-> w, value |-> q], l>>
    BY <1>6 DEF SeriesOfMetric
  <2> HIDE DEF p, q, l, w
  <2>2. p = q
    <3>1. <<[name |-> w, value |-> p], l>> = <<[name |-> w, value |-> q], l>>
      BY <1>7, <2>1, Zenon
    <3>2. [name |-> w, value |-> p] = [name |-> w, value |-> q]
      BY <3>1
    <3>3. [name |-> w, value |-> p].value = [name |-> w, value |-> q].value
      BY <3>2, Zenon
    <3> QED BY <3>3
  <2>3. i # j
    BY <1>3, <1>7
  <2>4. a # b
    BY <1>1, <2>3 DEF n
  <2>5. a \in Seq(Character) /\ b \in Seq(Character)
    BY <1>10
  <2> HIDE DEF a, b
  <2>6. \E k \in DOMAIN a : {a[k], b[k]} = {".", "_"}
    BY <2>2, <2>4, <2>5, PromNamesDiffer DEF p, q
  <2> QED BY <2>6 DEF a, b
<1>8. \A i, j \in 1 .. n : i < j /\ r[i].labels = r[j].labels =>
        \E k \in DOMAIN ms[i] : {ms[i][k], ms[j][k]} = {".", "_"}
  BY <1>7
<1>9. Len(r) = n /\ DOMAIN r = 1 .. n /\ DOMAIN ms = 1 .. n
  BY <1>3, <1>5
<1> QED BY <1>6, <1>8, <1>9, Zenon DEF PromDelivered, r, ms, n

-----------------------------------------------------------------------------
(* The names of the series.                                                 *)

Word == Alnum \cup {"_"}

LEMMA PluginNameIs ==
  ASSUME NEW file, file \in Seq(Range(file))
  PROVE  pluginName(file) \in Seq(Word)
<1> DEFINE S == Seq(Range(file))
           N == Len(Extensions)
           g == [k \in Nat |-> [s \in S |-> IF k \in 1 .. N THEN TrimSuffix(s, Extensions[k]) ELSE s]]
           j == [k \in Nat |-> IF k = 0 THEN 0 ELSE k - 1]
           D == 0 .. N
           Q(f) == f = [k \in D |-> IF k = 0 THEN file ELSE TrimSuffix(f[k - 1], Extensions[k])]
           trimmed == CHOOSE f : Q(f)
           name == trimmed[N]
<1>1. N = 8 /\ \A k \in 1 .. N : Len(Extensions[k]) \in Nat
  BY DEF Extensions
<1>2. \A s \in S : \A n \in Nat : SubSeq(s, 1, Len(s) - n) \in S
  OBVIOUS
<1>3. \A s \in S : \A k \in 1 .. N : TrimSuffix(s, Extensions[k]) \in S
  BY <1>1, <1>2 DEF TrimSuffix
<1>4. \E f : Solves(f, S, file, j, g)
  <2>1. g \in [Nat -> [S -> S]]
    <3> HIDE DEF S, N
    <3> QED BY <1>3
  <2>2. j \in [Nat -> Nat] /\ \A i \in Nat \ {0} : j[i] < i
    OBVIOUS
  <2>3. file \in S
    OBVIOUS
  <2> HIDE DEF g, j, S
  <2>4. Grounded(S, file, j, g)
    BY <2>1, <2>2, <2>3 DEF Grounded
  <2> QED BY <2>4, Recursion
<1>5. PICK h : Solves(h, S, file, j, g)
  BY <1>4, Zenon
<1>6. /\ h \in [Nat -> S] /\ h[0] = file
      /\ \A k \in 1 .. N : h[k] = TrimSuffix(h[k - 1], Extensions[k])
  <2>1. h \in [Nat -> S] /\ \A i \in Nat : h[i] = IF i = 0 THEN file ELSE g[i][h[j[i]]]
    <3> HIDE DEF g, j, S
    <3> QED BY <1>5 DEF Solves
  <2>2. ASSUME NEW k \in 1 .. N PROVE h[k] = TrimSuffix(h[k - 1], Extensions[k])
    <3>1. k \in Nat /\ k # 0 /\ k - 1 \in Nat /\ j[k] = k - 1
      BY <1>1
    <3>2. h[k] = g[k][h[k - 1]]
      <4> HIDE DEF g, S
      <4> QED BY <2>1, <3>1
    <3>3. h[k - 1] \in S
      <4> HIDE DEF S
      <4> QED BY <2>1, <3>1
    <3>4. g[k] = [s \in S |-> IF k \in 1 .. N THEN TrimSuffix(s, Extensions[k]) ELSE s]
      BY <3>1
    <3> HIDE DEF g, S
    <3>5. g[k][h[k - 1]] = IF k \in 1 .. N THEN TrimSuffix(h[k - 1], Extensions[k]) ELSE h[k - 1]
      BY <3>3, <3>4
    <3> QED BY <3>2, <3>5
  <2> HIDE DEF g, j, S
  <2> QED BY <2>1, <2>2
<1>7. Q([k \in D |-> h[k]])
  <2> DEFINE f == [k \in D |-> h[k]]
  <2>1. \A k \in D : h[k] = IF k = 0 THEN file ELSE TrimSuffix(f[k - 1], Extensions[k])
    <3> SUFFICES ASSUME NEW k \in D PROVE h[k] = IF k = 0 THEN file ELSE TrimSuffix(f[k - 1], Extensions[k])
      OBVIOUS
    <3>1. CASE k = 0
      BY <1>6, <3>1
    <3>2. CASE k # 0
      <4>1. k \in 1 .. N /\ k - 1 \in D
        BY <1>1, <3>2
      <4>2. f[k - 1] = h[k - 1]
        BY <4>1
      <4> QED BY <1>6, <3>2, <4>1, <4>2
    <3> QED BY <3>1, <3>2
  <2> QED BY <2>1
<1>8. pluginName(file) = [i \in DOMAIN name |-> IF name[i] \in Word THEN name[i] ELSE "_"]
  BY Zenon DEF pluginName, Word
<1>9. Q(trimmed)
  <2> HIDE DEF Q
  <2> QED BY <1>7
<1>10. ASSUME NEW k \in D PROVE trimmed[k] = h[k]
  <2> HIDE DEF trimmed
  <2> DEFINE T == {k1 \in Nat : k1 \in D => trimmed[k1] = h[k1]}
  <2>1. 0 \in T
    BY <1>1, <1>6, <1>9
  <2>2. ASSUME NEW n \in T PROVE n + 1 \in T
    <3> SUFFICES ASSUME n + 1 \in D PROVE trimmed[n + 1] = h[n + 1]
      OBVIOUS
    <3> DEFINE q == n + 1
    <3>1. q \in D /\ q # 0 /\ q - 1 = n /\ n \in D /\ q \in 1 .. N
      BY <1>1
    <3> HIDE DEF q
    <3>2. trimmed[n] = h[n]
      BY <3>1
    <3>3. trimmed[q] = TrimSuffix(trimmed[q - 1], Extensions[q])
      BY <1>9, <3>1
    <3>4. h[q] = TrimSuffix(h[q - 1], Extensions[q])
      BY <1>6, <3>1
    <3>5. trimmed[q] = h[q]
      BY <3>1, <3>2, <3>3, <3>4, Zenon
    <3> QED BY <3>5 DEF q
  <2>3. T = Nat
    <3>1. T \in SUBSET Nat
      OBVIOUS
    <3> HIDE DEF T
    <3> QED BY <2>1, <2>2, <3>1, Induction
  <2>4. k \in T
    <3>1. k \in Nat
      BY <1>1
    <3> HIDE DEF T
    <3> QED BY <2>3, <3>1
  <2> QED BY <2>4
<1>11. name \in S
  <2>1. N \in D /\ N \in Nat
    BY <1>1
  <2>2. name = h[N]
    BY <1>10, <2>1
  <2> HIDE DEF S, N, name
  <2> QED BY <1>6, <2>1, <2>2
<1> HIDE DEF name
<1>12. Len(name) \in Nat /\ DOMAIN name = 1 .. Len(name)
  BY <1>11
<1>13. [i \in 1 .. Len(name) |-> IF name[i] \in Word THEN name[i] ELSE "_"] \in Seq(Word)
  <2>1. "_" \in Word
    BY DEF Word
  <2>2. [i \in 1 .. Len(name) |-> IF name[i] \in Word THEN name[i] ELSE "_"] \in [1 .. Len(name) -> Word]
    BY <2>1
  <2> DEFINE f == [i \in 1 .. Len(name) |-> IF name[i] \in Word THEN name[i] ELSE "_"]
             m == Len(name)
  <2> HIDE DEF f, m
  <2>3. f \in [1 .. m -> Word] /\ m \in Nat
    BY <1>12, <2>2 DEF f, m
  <2>4. f \in Seq(Word)
    BY <2>3
  <2> QED BY <2>4 DEF f
<1> QED BY <1>8, <1>12, <1>13

LEMMA FunctionIsSeq ==
  ASSUME NEW S, NEW n \in Nat, NEW f \in [1 .. n -> S]
  PROVE  f \in Seq(S) /\ Len(f) = n
  OBVIOUS

LEMMA SeqWithin ==
  ASSUME NEW S, NEW T, S \subseteq T, NEW s \in Seq(S)
  PROVE  s \in Seq(T)
  OBVIOUS

LEMMA MetricKeyIs ==
  ASSUME NEW file, file \in Seq(Range(file)), NEW line, line[1] \in Seq(Range(line[1])), Accepted(line)
  PROVE  MetricKey(file, line) \in Name
<1> DEFINE a == <<"plugin", ".">>
           p == pluginName(file)
           d == <<".">>
           k == line[1]
<1>1. p \in Seq(Word)
  BY PluginNameIs
<1>2. Word \subseteq Character /\ Alnum \cup {"_", ".", "-"} \subseteq Character
      /\ "plugin" \in Character /\ "." \in Character /\ "\\" \notin Alnum \cup {"_", ".", "-"}
  BY CharacterAssumption DEF Word
<1>3. k \in Seq(Alnum \cup {"_", ".", "-"}) /\ k # <<>>
  <2>1. k \in Seq(Range(k)) /\ k # <<>> /\ Range(k) \subseteq Alnum \cup {"_", ".", "-"}
    BY DEF Accepted, isValidKey
  <2> DEFINE R == Range(k)
             K == Alnum \cup {"_", ".", "-"}
  <2> HIDE DEF R, K, k
  <2>2. k \in Seq(K)
    BY <2>1, SeqWithin DEF R, K
  <2> QED BY <2>1, <2>2 DEF K
<1>12. Len(k) \in 1 .. Len(k) /\ k[Len(k)] # "\\"
  <2> DEFINE K == Alnum \cup {"_", ".", "-"}
  <2>1. k \in Seq(K) /\ k # <<>> /\ "\\" \notin K
    BY <1>2, <1>3
  <2> HIDE DEF K, k
  <2> QED BY <2>1
<1> HIDE DEF Character, p, k
<1>4. p \in Seq(Character) /\ k \in Seq(Character)
  <2>1. p \in Seq(Character)
    BY <1>1, <1>2, SeqWithin
  <2> DEFINE K == Alnum \cup {"_", ".", "-"}
  <2>2. k \in Seq(K) /\ K \subseteq Character
    BY <1>2, <1>3
  <2> HIDE DEF K
  <2>3. k \in Seq(Character)
    BY <2>2, SeqWithin
  <2> QED BY <2>1, <2>3
<1>5. a \in Seq(Character) /\ Len(a) = 2 /\ d \in Seq(Character)
  <2>1. \A x, y \in Character : <<x, y>> \in Seq(Character) /\ Len(<<x, y>>) = 2 /\ <<y>> \in Seq(Character)
    OBVIOUS
  <2> QED BY <1>2, <2>1, Zenon
<1> HIDE DEF a, d
<1>6. \A x, y \in Seq(Character) : x \o y \in Seq(Character) /\ Len(x \o y) = Len(x) + Len(y)
  OBVIOUS
<1> DEFINE w == a \o p
           v == w \o d
           u == v \o k
<1>7. w \in Seq(Character) /\ Len(w) = Len(a) + Len(p)
  BY <1>4, <1>5, <1>6, Zenon
<1> HIDE DEF w
<1>8. v \in Seq(Character) /\ Len(v) = Len(w) + Len(d)
  BY <1>5, <1>6, <1>7, Zenon
<1> HIDE DEF v
<1>9. u \in Seq(Character) /\ Len(u) = Len(v) + Len(k)
  BY <1>4, <1>6, <1>8, Zenon
<1>13. u[Len(u)] # "\\"
  <2>1. \A x, y \in Seq(Character) : \A i \in 1 .. Len(y) : (x \o y)[Len(x) + i] = y[i]
    BY ConcatIs
  <2>2. u[Len(v) + Len(k)] = k[Len(k)]
    BY <1>4, <1>8, <1>12, <2>1, Zenon
  <2> QED BY <1>9, <1>12, <2>2, Zenon
<1> HIDE DEF u
<1>10. u # <<>>
  <2>1. Len(p) \in Nat /\ Len(d) \in Nat /\ Len(k) \in Nat
    BY <1>4, <1>5
  <2>2. Len(u) # 0
    BY <1>5, <1>7, <1>8, <1>9, <2>1
  <2> QED BY <2>2
<1>11. MetricKey(file, line) = u
  BY Zenon DEF MetricKey, a, p, d, k, w, v, u
<1> QED BY <1>9, <1>10, <1>11, <1>13 DEF Name

-----------------------------------------------------------------------------
(* The invariant.                                                           *)

Files == {<<>>} \cup {o.file : o \in Outputs}
AllLines == UNION {Range(o.lines) : o \in Outputs}

\* Every series has a name and a sample, and the buffers hold samples.
StoreTyped ==
  /\ IsFiniteSet(Metric)
  /\ \A m \in Metric : m \in Name /\ store[m] \in Seq(Sample) \ {<<>>}

\* What is left of a run's output.
OutputTyped ==
  /\ output.file \in Files /\ output.lines \in Seq(AllLines)
  /\ output = [file |-> output.file, lines |-> output.lines]
  /\ runs \in 0 .. MaxRuns

StageTyped ==
  /\ outlet \in {"prometheus", "influxdb", "metrics", "plugins"}
  /\ stage \in {"idle", "begun", "reading", "sent", "done"}
  /\ outlet \in {"prometheus", "influxdb"} => stage \in {"idle", "sent", "done"}

\* What a request knows of the store holds of the store as it grows.
RequestTyped ==
  /\ todo \in Seq(Metric)
  /\ DOMAIN before \subseteq Metric
  /\ \A m \in DOMAIN before : before[m] \in 1 .. Len(store[m])

\* A flush has sent its batch, encoded, and the service has decoded it.
FlushSent ==
  outlet \in {"prometheus", "influxdb"} =>
    /\ stage = "idle" => wire = <<>>
    /\ stage # "idle" =>
         /\ batch \in Seq(BatchPoint)
         /\ wire = IF outlet = "prometheus" THEN RemoteWriteBody(batch) ELSE InfluxRequest(batch)
    /\ stage = "done" =>
         received = IF outlet = "prometheus" THEN WriteRequestOf(wire) ELSE DatabaseOf(wire.body)

ExportTyped == StoreTyped /\ OutputTyped /\ StageTyped /\ RequestTyped /\ FlushSent

\* The series that a request tells of, and the line it should write.
ToBeTold(m) == outlet = "plugins" => Head(m) = "plugin"
Told(m, line) ==
  ToldOf(m, line, IF outlet = "metrics" THEN prometheusMetricName(m) ELSE m,
         IF outlet = "metrics" THEN 1000 ELSE 1)

SelfNames ==
  {<<"rhelmon_", w>> : w \in {"up", "alerts_fired_total", "metric_series", "ringbuf_samples_total"}}

\* Nothing but the agent's own metrics and the samples of the store is written.
LinesFromStore ==
  /\ lines \in Seq(Range(lines))
  /\ \A i \in DOMAIN lines :
       /\ outlet = "metrics" =>
            lines[i].name \in SelfNames \/ \E m \in Metric : lines[i].name = prometheusMetricName(m)
       /\ outlet = "plugins" =>
            \E m \in Metric : \E k \in DOMAIN store[m] : lines[i].value = store[m][k].value

\* The series there were when the request began are still to be read, or told.
BeforeToldOrLeft ==
  outlet \in {"metrics", "plugins"} =>
    /\ stage = "reading" =>
         \A m \in DOMAIN before : ToBeTold(m) =>
           m \in Range(todo) \/ \E line \in Range(lines) : Told(m, line)
    /\ stage \in {"sent", "done"} =>
         /\ wire = lines
         /\ \A m \in DOMAIN before : ToBeTold(m) => \E line \in Range(lines) : Told(m, line)
    /\ stage = "done" =>
         received = IF outlet = "metrics" THEN Scraped(wire, Alnum) ELSE Decoded(wire, NonFinite)

PagesTold == LinesFromStore /\ BeforeToldOrLeft

\* t is s, perhaps with more series and more samples.
Grows(s, t) ==
  /\ DOMAIN s \subseteq DOMAIN t
  /\ \A n \in DOMAIN s : /\ Len(s[n]) \in Nat /\ Len(t[n]) \in Nat /\ Len(s[n]) <= Len(t[n])
                         /\ DOMAIN s[n] = 1 .. Len(s[n]) /\ DOMAIN t[n] = 1 .. Len(t[n])
                         /\ \A k \in 1 .. Len(s[n]) : t[n][k] = s[n][k]

Stored(s) ==
  /\ IsFiniteSet(DOMAIN s)
  /\ \A m \in DOMAIN s : m \in Name /\ s[m] \in Seq(Sample) \ {<<>>}

LEMMA PushedIs ==
  ASSUME NEW m \in Name, NEW x \in Sample, Stored(store)
  PROVE  Stored(Pushed(m, x)) /\ Grows(store, Pushed(m, x))
<1> DEFINE t == Pushed(m, x)
           A == Seq(Sample) \ {<<>>}
<1>1. /\ DOMAIN t = Metric \cup {m}
      /\ \A n \in Metric \cup {m} :
           t[n] = IF n # m THEN store[n] ELSE IF m \in Metric THEN Append(store[m], x) ELSE <<x>>
  BY DEF Pushed
<1>2. IsFiniteSet(Metric \cup {m})
  BY FS_AddElement DEF Stored, Metric
<1>3. \A s \in A : /\ Append(s, x) \in A /\ Len(Append(s, x)) = Len(s) + 1 /\ Len(s) \in Nat
                   /\ DOMAIN s = 1 .. Len(s) /\ \A k \in 1 .. Len(s) : Append(s, x)[k] = s[k]
  OBVIOUS
<1>4. <<x>> \in A
  OBVIOUS
<1>5. \A n \in Metric : n \in Name /\ store[n] \in A
  BY DEF Stored, Metric
<1> HIDE DEF t, A, Name, Sample
<1>6. \A n \in Metric \cup {m} : n \in Name /\ t[n] \in A
  BY <1>1, <1>3, <1>4, <1>5
<1>7. ASSUME NEW n \in Metric
      PROVE  /\ Len(store[n]) \in Nat /\ Len(t[n]) \in Nat /\ Len(store[n]) <= Len(t[n])
             /\ DOMAIN store[n] = 1 .. Len(store[n]) /\ DOMAIN t[n] = 1 .. Len(t[n])
             /\ \A k \in 1 .. Len(store[n]) : t[n][k] = store[n][k]
  <2> DEFINE s == store[n]
             r == t[n]
  <2>1. s \in A /\ r \in A
    BY <1>5, <1>6
  <2>2. r = s \/ r = Append(s, x)
    BY <1>1
  <2> HIDE DEF s, r
  <2>3. Len(s) \in Nat /\ Len(r) \in Nat /\ DOMAIN s = 1 .. Len(s) /\ DOMAIN r = 1 .. Len(r)
    BY <1>3, <2>1
  <2>4. Len(s) <= Len(r) /\ \A k \in 1 .. Len(s) : r[k] = s[k]
    <3>1. CASE r = s
      BY <2>3, <3>1
    <3>2. CASE r = Append(s, x)
      BY <1>3, <2>1, <2>3, <3>2
    <3> QED BY <2>2, <3>1, <3>2
  <2> QED BY <2>3, <2>4 DEF s, r
<1>8. Stored(t)
  <2>1. IsFiniteSet(DOMAIN t)
    BY <1>1, <1>2
  <2>2. \A n \in DOMAIN t : n \in Name /\ t[n] \in Seq(Sample) \ {<<>>}
    BY <1>1, <1>6, Zenon DEF A
  <2> QED BY <2>1, <2>2 DEF Stored
<1>9. Grows(store, t)
  BY <1>1, <1>7 DEF Grows, Metric
<1> QED BY <1>8, <1>9 DEF t

LEMMA OutputIs ==
  /\ \A o \in Outputs : /\ o.file \in Files /\ o.lines \in Seq(AllLines)
                        /\ o = [file |-> o.file, lines |-> o.lines]
  /\ \A f \in Files : f \in Seq(Range(f))
  /\ \A l \in AllLines : Len(l) >= 2 => l[1] \in Seq(Range(l[1]))
<1>1. ASSUME NEW o \in Outputs
      PROVE  /\ o.file \in Files /\ o.lines \in Seq(AllLines)
             /\ o = [file |-> o.file, lines |-> o.lines] /\ o.file \in Seq(Range(o.file))
  <2> DEFINE F == Seq(Range(o.file))
             R == Range(o.lines)
  <2>1. o \in [file : F, lines : Seq(R)]
    BY OutputAssumption
  <2>2. o.file \in Files
    BY DEF Files
  <2>3. R \subseteq AllLines
    BY DEF AllLines
  <2> HIDE DEF F, R
  <2>4. o.file \in F /\ o.lines \in Seq(R) /\ o = [file |-> o.file, lines |-> o.lines]
    BY <2>1
  <2>5. o.lines \in Seq(AllLines)
    BY <2>3, <2>4, SeqWithin
  <2> QED BY <2>2, <2>4, <2>5 DEF F
<1>2. \A f \in Files : f \in Seq(Range(f))
  <2>1. <<>> \in Seq(Range(<<>>))
    OBVIOUS
  <2> QED BY <1>1, <2>1 DEF Files
<1>3. ASSUME NEW l \in AllLines, Len(l) >= 2 PROVE l[1] \in Seq(Range(l[1]))
  <2>1. PICK o \in Outputs : l \in Range(o.lines)
    BY DEF AllLines
  <2>2. PICK i \in DOMAIN o.lines : o.lines[i] = l
    BY <2>1 DEF Range
  <2>3. Len(o.lines[i]) >= 2 => o.lines[i][1] \in Seq(Range(o.lines[i][1]))
    BY OutputAssumption
  <2> QED BY <1>3, <2>2, <2>3
<1> QED BY <1>1, <1>2, <1>3

\* The batch of a flush.
LEMMA BatchIs ==
  ASSUME Stored(store)
  PROVE  FlattenSeq([i \in DOMAIN Names |-> PointsOf(Names[i])]) \in Seq(BatchPoint)
<1> DEFINE n == Len(Names)
           parts == [i \in DOMAIN Names |-> PointsOf(Names[i])]
<1>1. Names \in Seq(Metric)
  <2>1. Metric \in SUBSET Seq(Character) /\ IsFiniteSet(Metric)
    BY DEF Stored, Metric, Name
  <2> QED BY <2>1, SortStringsIs DEF Names
<1>2. n \in Nat /\ DOMAIN Names = 1 .. n /\ \A i \in 1 .. n : Names[i] \in Metric
  <2> DEFINE s == Names
  <2>1. s \in Seq(Metric)
    BY <1>1
  <2> HIDE DEF s
  <2>2. Len(s) \in Nat /\ DOMAIN s = 1 .. Len(s) /\ \A i \in 1 .. Len(s) : s[i] \in Metric
    BY <2>1
  <2> QED BY <2>2 DEF s
<1>3. ASSUME NEW m \in Metric PROVE PointsOf(m) \in Seq(BatchPoint)
  <2> DEFINE s == store[m]
             k == Len(s)
  <2>1. m \in Name /\ s \in Seq(Sample)
    BY DEF Stored, Metric
  <2>2. k \in Nat /\ DOMAIN s = 1 .. k /\ \A i \in 1 .. k : s[i] \in Sample
    BY <2>1
  <2>3. PointsOf(m) = [i \in DOMAIN s |-> [metric |-> m, host |-> Host, value |-> s[i].value,
                                            ts |-> s[i].ts * 1000]]
    BY DEF PointsOf
  <2> HIDE DEF s, k
  <2>4. \A i \in 1 .. k : s[i].value \in Numbers /\ s[i].ts * 1000 \in Nat
    <3>1. \A x \in Sample : x.value \in Numbers /\ x.ts \in Nat
      BY DEF Sample
    <3>2. \A t \in Nat : t * 1000 \in Nat
      OBVIOUS
    <3> QED BY <2>2, <3>1, <3>2
  <2>5. \A i \in 1 .. k : [metric |-> m, host |-> Host, value |-> s[i].value, ts |-> s[i].ts * 1000]
                            \in BatchPoint
    BY <2>1, <2>4 DEF BatchPoint
  <2> HIDE DEF BatchPoint
  <2> QED BY <2>2, <2>3, <2>5
<1> HIDE DEF n, BatchPoint
<1>4. parts = [i \in 1 .. n |-> PointsOf(Names[i])]
  BY <1>2
<1> DEFINE A == Seq(BatchPoint)
<1>5. \A i \in 1 .. n : PointsOf(Names[i]) \in A
  BY <1>2, <1>3
<1> HIDE DEF A, parts
<1>6. parts \in Seq(A)
  BY <1>2, <1>4, <1>5
<1>7. FlattenSeq(parts) \in Seq(BatchPoint)
  BY <1>6, PartsIn DEF A
<1> QED BY <1>7 DEF parts

-----------------------------------------------------------------------------
(* The invariant holds.                                                     *)

LEMMA StoredIs == StoreTyped <=> Stored(store)
  BY DEF StoreTyped, Stored, Metric

\* The store grows, and only as long as nothing has been sent.
LEMMA StoreStep ==
  ASSUME StoreTyped, OutputTyped, [Next]_vars
  PROVE  /\ StoreTyped' /\ OutputTyped' /\ Grows(store, store')
         /\ stage \in {"sent", "done"} => store' = store
<1>1. Grows(store, store)
  <2>1. \A s \in Seq(Sample) : Len(s) \in Nat /\ DOMAIN s = 1 .. Len(s) /\ Len(s) <= Len(s)
    OBVIOUS
  <2>2. \A m \in DOMAIN store : store[m] \in Seq(Sample)
    BY DEF StoreTyped, Metric
  <2> QED BY <2>1, <2>2 DEF Grows
<1>2. ASSUME store' = store PROVE StoreTyped' /\ Grows(store, store')
  <2>1. Stored(store')
    BY <1>2, StoredIs
  <2>2. StoreTyped'
    BY <2>1 DEF StoreTyped, Stored, Metric
  <2>3. Grows(store, store')
    BY <1>1, <1>2
  <2> QED BY <2>2, <2>3
<1>3. ASSUME output' = output, runs' = runs PROVE OutputTyped'
  BY <1>3 DEF OutputTyped
<1>4. CASE RunEnds
  <2>1. store' = store /\ output' \in Outputs /\ runs' = runs + 1 /\ runs < MaxRuns
    BY <1>4 DEF RunEnds
  <2>2. runs' \in 0 .. MaxRuns
    BY <2>1, BoundAssumption DEF OutputTyped
  <2>3. /\ output'.file \in Files /\ output'.lines \in Seq(AllLines)
        /\ output' = [file |-> output'.file, lines |-> output'.lines]
    BY <2>1, OutputIs
  <2> QED BY <1>2, <2>1, <2>2, <2>3 DEF OutputTyped
<1>5. CASE ParseLine
  <2> DEFINE line == Head(output.lines)
             x == [ts |-> Now + runs, value |-> line[2]]
             m == MetricKey(output.file, line)
  <2>1. /\ output.lines \in Seq(AllLines) /\ output.lines # <<>>
        /\ output' = [output EXCEPT !.lines = Tail(output.lines)] /\ runs' = runs
        /\ store' = IF Accepted(line) THEN Pushed(m, x) ELSE store
        /\ stage \notin {"sent", "done"}
    BY <1>5 DEF ParseLine, OutputTyped
  <2>2. line \in AllLines /\ Tail(output.lines) \in Seq(AllLines)
    BY <2>1
  <2>3. OutputTyped'
    <3>1. output = [file |-> output.file, lines |-> output.lines] /\ output.file \in Files
          /\ runs \in 0 .. MaxRuns
      BY DEF OutputTyped
    <3>2. output' = [file |-> output.file, lines |-> Tail(output.lines)]
      BY <2>1, <3>1
    <3> QED BY <2>1, <2>2, <3>1, <3>2 DEF OutputTyped
  <2>4. ASSUME Accepted(line) PROVE StoreTyped' /\ Grows(store, store')
    <3>1. Len(line) >= 2 /\ line[2] \in Numbers
      BY <2>4 DEF Accepted
    <3>2. x \in Sample
      <4>1. Now + runs \in Nat
        BY BoundAssumption DEF OutputTyped
      <4> QED BY <3>1, <4>1 DEF Sample
    <3>3. output.file \in Seq(Range(output.file)) /\ line[1] \in Seq(Range(line[1]))
      BY <2>2, <3>1, OutputIs DEF OutputTyped
    <3> HIDE DEF x, line, m
    <3>4. m \in Name
      BY <2>4, <3>3, MetricKeyIs DEF m
    <3>5. Stored(Pushed(m, x)) /\ Grows(store, Pushed(m, x))
      BY <3>2, <3>4, PushedIs, StoredIs
    <3>6. store' = Pushed(m, x)
      BY <2>1, <2>4
    <3>7. Stored(store') /\ Grows(store, store')
      BY <3>5, <3>6, Zenon
    <3>8. StoreTyped'
      BY <3>7 DEF StoreTyped, Stored, Metric
    <3> QED BY <3>7, <3>8
  <2>5. ASSUME ~ Accepted(line) PROVE store' = store
    BY <2>1, <2>5
  <2> QED BY <1>2, <2>1, <2>3, <2>4, <2>5
<1>6. CASE UNCHANGED source
  BY <1>2, <1>3, <1>6 DEF source
<1>7. RunEnds => stage \notin {"sent", "done"}
  BY DEF RunEnds
<1>8. ParseLine => stage \notin {"sent", "done"}
  BY DEF ParseLine
<1>9. UNCHANGED source \/ RunEnds \/ ParseLine
  BY DEF Next, vars, Flush, BeginRequest, ListNames, ReadLatest, EndRequest, Deliver
<1>10. UNCHANGED source => store' = store
  BY DEF source
<1> QED BY <1>4, <1>5, <1>6, <1>7, <1>8, <1>9, <1>10

LEMMA StageStep ==
  ASSUME StageTyped, [Next]_vars
  PROVE  StageTyped'
<1> USE DEF StageTyped
<1>1. CASE RunEnds
  BY <1>1 DEF RunEnds, reply
<1>2. CASE ParseLine
  BY <1>2 DEF ParseLine, reply
<1>3. CASE Flush
  BY <1>3 DEF Flush
<1>4. CASE BeginRequest
  BY <1>4 DEF BeginRequest
<1>5. CASE ListNames
  BY <1>5 DEF ListNames
<1>6. CASE ReadLatest
  BY <1>6 DEF ReadLatest
<1>7. CASE EndRequest
  BY <1>7 DEF EndRequest
<1>8. CASE Deliver
  BY <1>8 DEF Deliver
<1>9. CASE UNCHANGED vars
  BY <1>9 DEF vars, reply
<1> QED BY <1>1, <1>2, <1>3, <1>4, <1>5, <1>6, <1>7, <1>8, <1>9 DEF Next

\* The names of the store in their order.
LEMMA NamesIs ==
  ASSUME StoreTyped, NEW S \in SUBSET Metric
  PROVE  /\ SortStrings(S) \in Seq(S)
         /\ \A m \in S : \E k \in DOMAIN SortStrings(S) : SortStrings(S)[k] = m
<1>1. S \in SUBSET Seq(Character) /\ IsFiniteSet(S)
  BY FS_Subset DEF StoreTyped, Name
<1>2. /\ SortStrings(S) \in Seq(S)
      /\ \A m \in S : \E k \in 1 .. Len(SortStrings(S)) : SortStrings(S)[k] = m
  BY <1>1, SortStringsIs
<1> DEFINE s == SortStrings(S)
<1> HIDE DEF s
<1>3. DOMAIN s = 1 .. Len(s)
  <2>1. s \in Seq(S)
    BY <1>2 DEF s
  <2> QED BY <2>1
<1> QED BY <1>2, <1>3, Zenon DEF s

LEMMA RequestStep ==
  ASSUME StoreTyped, OutputTyped, StageTyped, RequestTyped, [Next]_vars
  PROVE  RequestTyped'
<1>1. Grows(store, store')
  BY StoreStep
<1>2. ASSUME todo' \in Seq(Metric) PROVE todo' \in Seq(Metric')
  <2>1. Metric \subseteq Metric'
    BY <1>1 DEF Grows, Metric
  <2> QED BY <1>2, <2>1, SeqWithin
<1>3. ASSUME before' = before
      PROVE  DOMAIN before' \subseteq Metric' /\ \A m \in DOMAIN before' : before'[m] \in 1 .. Len(store'[m])
  <2>1. \A m \in Metric : Len(store[m]) \in Nat /\ Len(store'[m]) \in Nat /\ Len(store[m]) <= Len(store'[m])
    BY <1>1 DEF Grows, Metric
  <2>2. \A m \in DOMAIN before : m \in Metric /\ before[m] \in 1 .. Len(store[m])
    BY DEF RequestTyped
  <2>3. Metric \subseteq Metric'
    BY <1>1 DEF Grows, Metric
  <2>4. ASSUME NEW m \in DOMAIN before PROVE before[m] \in 1 .. Len(store'[m])
    <3> DEFINE a == Len(store[m])
               b == Len(store'[m])
    <3>1. a \in Nat /\ b \in Nat /\ a <= b /\ before[m] \in 1 .. a
      BY <2>1, <2>2
    <3> HIDE DEF a, b
    <3>2. before[m] \in 1 .. b
      BY <3>1
    <3> QED BY <3>2 DEF b
  <2> QED BY <1>3, <2>2, <2>3, <2>4
<1>4. todo \in Seq(Metric)
  BY DEF RequestTyped
<1>5. CASE BeginRequest
  <2>1. store' = store /\ todo' = todo /\ before' = [m \in Metric |-> Len(store[m])]
    BY <1>5 DEF BeginRequest, source
  <2>2. \A m \in Metric : Len(store[m]) \in 1 .. Len(store[m])
    <3>1. \A s \in Seq(Sample) \ {<<>>} : Len(s) \in 1 .. Len(s)
      OBVIOUS
    <3> QED BY <3>1 DEF StoreTyped
  <2>3. DOMAIN before' \subseteq Metric' /\ \A m \in DOMAIN before' : before'[m] \in 1 .. Len(store'[m])
    BY <2>1, <2>2 DEF Metric
  <2> QED BY <1>2, <1>4, <2>1, <2>3 DEF RequestTyped
<1>6. CASE ListNames
  <2>1. before' = before /\ todo' = SortStrings({m \in Metric : outlet = "plugins" => Head(m) = "plugin"})
    BY <1>6 DEF ListNames
  <2> DEFINE S == {m \in Metric : outlet = "plugins" => Head(m) = "plugin"}
  <2>2. S \in SUBSET Metric
    OBVIOUS
  <2> HIDE DEF S
  <2>3. SortStrings(S) \in Seq(S)
    BY <2>2, NamesIs
  <2>4. todo' \in Seq(Metric)
    BY <2>1, <2>2, <2>3, SeqWithin DEF S
  <2> QED BY <1>2, <1>3, <2>1, <2>4 DEF RequestTyped
<1>7. CASE ReadLatest
  <2>1. before' = before /\ todo # <<>> /\ todo' = Tail(todo)
    BY <1>7 DEF ReadLatest
  <2>2. todo' \in Seq(Metric)
    BY <1>4, <2>1
  <2> QED BY <1>2, <1>3, <2>1, <2>2 DEF RequestTyped
<1>8. CASE before' = before /\ todo' = todo
  BY <1>2, <1>3, <1>4, <1>8 DEF RequestTyped
<1>9. (before' = before /\ todo' = todo) \/ BeginRequest \/ ListNames \/ ReadLatest
  BY DEF Next, vars, reply, RunEnds, ParseLine, Flush, EndRequest, Deliver
<1> QED BY <1>5, <1>6, <1>7, <1>8, <1>9

LEMMA FlushStep ==
  ASSUME StoreTyped, StageTyped, FlushSent, [Next]_vars
  PROVE  FlushSent'
<1>1. CASE Flush
  <2> DEFINE b == FlattenSeq([i \in DOMAIN Names |-> PointsOf(Names[i])])
  <2>1. /\ outlet' = outlet /\ stage' = "sent" /\ batch' = b
        /\ wire' = IF outlet = "prometheus" THEN RemoteWriteBody(batch') ELSE InfluxRequest(batch')
    BY <1>1 DEF Flush
  <2>2. b \in Seq(BatchPoint)
    BY BatchIs, StoredIs
  <2> HIDE DEF b
  <2> QED BY <2>1, <2>2 DEF FlushSent
<1>2. CASE Deliver
  <2>1. /\ stage = "sent" /\ outlet' = outlet /\ stage' = "done" /\ batch' = batch /\ wire' = wire
        /\ outlet = "prometheus" => received' = WriteRequestOf(wire)
        /\ outlet = "influxdb" => received' = DatabaseOf(wire.body)
    BY <1>2 DEF Deliver
  <2> QED BY <2>1, Zenon DEF FlushSent
<1>3. CASE outlet' = outlet /\ stage' = stage /\ batch' = batch /\ wire' = wire /\ received' = received
  BY <1>3 DEF FlushSent
<1>4. CASE outlet \notin {"prometheus", "influxdb"} /\ outlet' = outlet
  BY <1>4 DEF FlushSent
<1>5. BeginRequest \/ ListNames \/ ReadLatest \/ EndRequest =>
        outlet \notin {"prometheus", "influxdb"} /\ outlet' = outlet
  BY DEF BeginRequest, ListNames, ReadLatest, EndRequest, StageTyped
<1>6. RunEnds \/ ParseLine \/ UNCHANGED vars =>
        outlet' = outlet /\ stage' = stage /\ batch' = batch /\ wire' = wire /\ received' = received
  BY DEF RunEnds, ParseLine, vars, reply
<1> QED BY <1>1, <1>2, <1>3, <1>4, <1>5, <1>6 DEF Next

LEMMA ExportInit ==
  ASSUME Init
  PROVE  ExportTyped
<1>1. /\ store \in Pasts /\ output = [file |-> <<>>, lines |-> <<>>] /\ runs = 0
      /\ outlet \in {"prometheus", "influxdb", "metrics", "plugins"}
      /\ stage = "idle" /\ todo = <<>> /\ wire = <<>> /\ before = <<>>
  BY DEF Init
<1>2. StoreTyped
  BY <1>1, PastAssumption DEF StoreTyped, Metric
<1>3. OutputTyped
  <2>1. <<>> \in Files /\ <<>> \in Seq(AllLines) /\ runs \in 0 .. MaxRuns
    BY <1>1, BoundAssumption DEF Files
  <2> QED BY <1>1, <2>1 DEF OutputTyped
<1>4. StageTyped /\ FlushSent
  BY <1>1 DEF StageTyped, FlushSent
<1>5. RequestTyped
  BY <1>1 DEF RequestTyped
<1> QED BY <1>2, <1>3, <1>4, <1>5 DEF ExportTyped

LEMMA ExportInvariant == Spec => []ExportTyped
<1>1. Init => ExportTyped
  BY ExportInit
<1>2. ExportTyped /\ [Next]_vars => ExportTyped'
  BY StoreStep, StageStep, RequestStep, FlushStep DEF ExportTyped
<1> QED BY <1>1, <1>2, PTL DEF Spec

\* The store holds series that have samples and values that are numbers, and the
\* bytes of a remote write are bytes, however long the message is.
THEOREM ExportTypeCorrect == Spec => []TypeOK
<1>1. ExportTyped => TypeOK
  <2> SUFFICES ASSUME ExportTyped PROVE TypeOK
    OBVIOUS
  <2> USE DEF ExportTyped
  <2>1. \A m \in Metric : store[m] # <<>> /\ \A i \in DOMAIN store[m] : store[m][i].value \in Numbers
    <3>1. \A s \in Seq(Sample) : \A i \in DOMAIN s : s[i] \in Sample
      OBVIOUS
    <3>2. \A x \in Sample : x.value \in Numbers
      BY DEF Sample
    <3> QED BY <3>1, <3>2 DEF StoreTyped
  <2>2. runs \in 0 .. MaxRuns
    BY DEF OutputTyped
  <2>3. /\ outlet \in {"prometheus", "influxdb", "metrics", "plugins"}
        /\ stage \in {"idle", "begun", "reading", "sent", "done"}
    BY DEF StageTyped
  <2>4. Range(todo) \subseteq Metric /\ DOMAIN before \subseteq Metric
    BY DEF RequestTyped, Range
  <2>5. outlet = "prometheus" => Range(wire) \subseteq 0 .. 255
    <3> SUFFICES ASSUME outlet = "prometheus" PROVE Range(wire) \subseteq 0 .. 255
      OBVIOUS
    <3>1. wire \in Seq(Byte)
      <4>1. CASE stage = "idle"
        BY <4>1 DEF FlushSent
      <4>2. CASE stage # "idle"
        BY <4>2, GroupedRead DEF FlushSent
      <4> QED BY <4>1, <4>2
    <3>2. \A w \in Seq(Byte) : \A i \in DOMAIN w : w[i] \in Byte
      OBVIOUS
    <3> QED BY <3>1, <3>2 DEF Range, Byte
  <2> QED BY <2>1, <2>2, <2>3, <2>4, <2>5 DEF TypeOK
<1> QED BY <1>1, ExportInvariant, PTL

\* Whatever the batch of a flush is and however long the message: Prometheus
\* receives each of its points once, in the series of its metric and host, by
\* time stamp (backends.go:69-98, 170-236).
THEOREM ExportPromReceivesBatch == Spec => []PromReceivesBatch
<1>1. ExportTyped => PromReceivesBatch
  <2> SUFFICES ASSUME ExportTyped, Done("prometheus") PROVE PromReceivesBatch
    BY DEF PromReceivesBatch
  <2> DEFINE ms == Metrics(batch)
             r == received
  <2>1. batch \in Seq(BatchPoint) /\ r = WriteRequestOf(RemoteWriteBody(batch))
    BY DEF ExportTyped, FlushSent, Done
  <2> HIDE DEF ms, r
  <2>2. PromDelivered(r, batch, ms)
    <3>1. PromDelivered(WriteRequestOf(RemoteWriteBody(batch)), batch, Metrics(batch))
      BY <2>1, PromRead
    <3> QED BY <2>1, <3>1, Zenon DEF ms
  <2>3. Len(r) = Len(ms) /\ DOMAIN r = 1 .. Len(ms) /\ DOMAIN ms = 1 .. Len(ms)
    BY <2>2 DEF PromDelivered
  <2>4. \A i \in DOMAIN ms : SeriesOfMetric(r[i], batch, ms[i])
    BY <2>2, <2>3, Zenon DEF PromDelivered
  <2>5. \A i, j \in DOMAIN r :
          i < j /\ r[i].labels = r[j].labels =>
            \E k \in DOMAIN ms[i] : {ms[i][k], ms[j][k]} = {".", "_"}
    <3>1. \A i, j \in 1 .. Len(ms) :
            i < j /\ r[i].labels = r[j].labels =>
              \E k \in DOMAIN ms[i] : {ms[i][k], ms[j][k]} = {".", "_"}
      BY <2>2 DEF PromDelivered
    <3> SUFFICES ASSUME NEW i \in DOMAIN r, NEW j \in DOMAIN r, i < j, r[i].labels = r[j].labels
                 PROVE  \E k \in DOMAIN ms[i] : {ms[i][k], ms[j][k]} = {".", "_"}
      OBVIOUS
    <3>2. i \in 1 .. Len(ms) /\ j \in 1 .. Len(ms)
      BY <2>3
    <3> QED BY <3>1, <3>2, Zenon
  <2> QED BY <2>3, <2>4, <2>5, Zenon DEF PromReceivesBatch, SeriesOfMetric, SentOf, BatchOf, ms, r
<1> QED BY <1>1, ExportInvariant, PTL

-----------------------------------------------------------------------------
(* The pages.                                                               *)

LEMMA SameName ==
  ASSUME NEW m \in Seq(Character)
  PROVE  expositionName(m) = prometheusMetricName(m)
<1>1. DOMAIN m = 1 .. Len(m)
  OBVIOUS
<1> QED BY <1>1, Zenon DEF expositionName, prometheusMetricName

\* What a scraper takes for a name.
Scrapable == Alnum \cup {"_", "rhelmon_", ":"}

LEMMA ScrapableName ==
  ASSUME NEW m \in Seq(Character), WellNamed(m)
  PROVE  Range(prometheusMetricName(m)) \subseteq Scrapable
<1> DEFINE r == [i \in 1 .. Len(m) |-> IF m[i] = "." THEN "_" ELSE m[i]]
           h == <<"rhelmon_">>
<1>1. Len(m) \in Nat /\ \A i \in 1 .. Len(m) : m[i] \in Alnum \cup {"_", "."}
  <2>1. DOMAIN m = 1 .. Len(m) /\ Len(m) \in Nat
    OBVIOUS
  <2> QED BY <2>1 DEF WellNamed, Range
<1>2. "rhelmon_" \in Scrapable /\ "_" \in Scrapable /\ Alnum \subseteq Scrapable
  BY DEF Scrapable
<1> HIDE DEF Scrapable
<1>3. r \in [1 .. Len(m) -> Scrapable]
  BY <1>1, <1>2
<1>4. h \in Seq(Scrapable)
  <2>1. \A c \in Scrapable : <<c>> \in Seq(Scrapable)
    OBVIOUS
  <2> QED BY <1>2, <2>1, Zenon
<1>5. prometheusMetricName(m) = h \o r
  BY DEF prometheusMetricName
<1> HIDE DEF r, h
<1>6. r \in Seq(Scrapable)
  BY <1>1, <1>3, FunctionIsSeq
<1>7. \A x, y \in Seq(Scrapable) : x \o y \in Seq(Scrapable)
  OBVIOUS
<1>8. prometheusMetricName(m) \in Seq(Scrapable)
  BY <1>4, <1>5, <1>6, <1>7, Zenon
<1>9. \A s \in Seq(Scrapable) : Range(s) \subseteq Scrapable
  BY DEF Range
<1> QED BY <1>8, <1>9

LEMMA SelfNamesScrapable == \A n \in SelfNames : Range(n) \subseteq Scrapable
<1>1. {"up", "alerts_fired_total", "metric_series", "ringbuf_samples_total"} \subseteq Scrapable
      /\ "rhelmon_" \in Scrapable
  BY CharacterAssumption DEF Scrapable
<1> HIDE DEF Scrapable
<1>2. \A a, b \in Scrapable : Range(<<a, b>>) \subseteq Scrapable
  BY DEF Range
<1> QED BY <1>1, <1>2 DEF SelfNames

\* A line that tells of a series goes on telling of it as the store grows.
LEMMA ToldGrows ==
  ASSUME RequestTyped, Grows(store, store'), before' = before, outlet' = outlet,
         NEW m \in DOMAIN before, NEW line, Told(m, line)
  PROVE  Told(m, line)'
<1> DEFINE name == IF outlet = "metrics" THEN prometheusMetricName(m) ELSE m
           unit == IF outlet = "metrics" THEN 1000 ELSE 1
<1>1. m \in DOMAIN store
  BY DEF RequestTyped, Metric
<1>2. /\ Len(store[m]) \in Nat /\ Len(store'[m]) \in Nat /\ Len(store[m]) <= Len(store'[m])
      /\ DOMAIN store[m] = 1 .. Len(store[m]) /\ DOMAIN store'[m] = 1 .. Len(store'[m])
      /\ \A k \in 1 .. Len(store[m]) : store'[m][k] = store[m][k]
  BY <1>1 DEF Grows
<1>3. ToldOf(m, line, name, unit)
  BY Zenon DEF Told
<1> HIDE DEF name, unit
<1>4. PICK i \in DOMAIN store[m] :
        /\ m \in DOMAIN before => i >= before[m]
        /\ line.ts = store[m][i].ts * unit
        /\ line.value = IF outlet = "metrics" /\ store[m][i].value \in NonFinite
                          THEN "0" ELSE store[m][i].value
  BY <1>3 DEF ToldOf
<1>5. line.name = name
  BY <1>3 DEF ToldOf
<1>6. i \in DOMAIN store'[m] /\ store'[m][i] = store[m][i]
  BY <1>2
<1>7. /\ m \in DOMAIN before' => i >= before'[m]
      /\ line.ts = store'[m][i].ts * unit
      /\ line.value = IF outlet' = "metrics" /\ store'[m][i].value \in NonFinite
                        THEN "0" ELSE store'[m][i].value
  BY <1>4, <1>6
<1>8. ToldOf(m, line, name, unit)'
  <2>1. name' = name /\ unit' = unit
    BY DEF name, unit
  <2> QED BY <1>5, <1>6, <1>7, <2>1 DEF ToldOf
<1> QED BY <1>8 DEF Told, name, unit

\* The line that ReadLatest writes.
LineAbout(m) ==
  IF outlet = "metrics" THEN MetricLine(m, Latest(m))
  ELSE [name |-> m, value |-> Latest(m).value, ts |-> Latest(m).ts]

LEMMA LatestTold ==
  ASSUME StoreTyped, RequestTyped, NEW m \in Metric
  PROVE  /\ Told(m, LineAbout(m))
         /\ outlet = "metrics" => LineAbout(m).name = prometheusMetricName(m)
         /\ outlet # "metrics" => \E k \in DOMAIN store[m] : LineAbout(m).value = store[m][k].value
<1> DEFINE l == LineAbout(m)
           k == Len(store[m])
           x == store[m][k]
<1>1. m \in Seq(Character) /\ k \in DOMAIN store[m] /\ x \in Sample
  <2>1. \A s \in Seq(Sample) \ {<<>>} : Len(s) \in DOMAIN s /\ s[Len(s)] \in Sample
    OBVIOUS
  <2> QED BY <2>1 DEF StoreTyped, Name
<1>2. m \in DOMAIN before => k >= before[m]
  <2> SUFFICES ASSUME m \in DOMAIN before PROVE k >= before[m]
    OBVIOUS
  <2>1. k \in Nat /\ before[m] \in 1 .. k
    <3>1. \A s \in Seq(Sample) \ {<<>>} : Len(s) \in Nat
      OBVIOUS
    <3> QED BY <3>1 DEF StoreTyped, RequestTyped
  <2> HIDE DEF k
  <2> QED BY <2>1
<1>3. Latest(m) = x
  BY DEF Latest
<1>4. CASE outlet = "metrics"
  <2>1. l = [name |-> expositionName(m), value |-> formatFloat(x.value), ts |-> x.ts * 1000]
    BY <1>3, <1>4 DEF LineAbout, MetricLine
  <2>2. expositionName(m) = prometheusMetricName(m)
    BY <1>1, SameName
  <2>3. formatFloat(x.value) = IF x.value \in NonFinite THEN "0" ELSE x.value
    BY DEF formatFloat
  <2> HIDE DEF l, k
  <2>4. ToldOf(m, l, prometheusMetricName(m), 1000)
    BY <1>1, <1>2, <1>4, <2>1, <2>2, <2>3 DEF ToldOf
  <2>5. Told(m, l)
    BY <1>4, <2>4 DEF Told
  <2>6. l.name = prometheusMetricName(m)
    BY <2>1, <2>2
  <2> QED BY <1>4, <2>5, <2>6 DEF l
<1>5. CASE outlet # "metrics"
  <2>1. l = [name |-> m, value |-> x.value, ts |-> x.ts]
    BY <1>3, <1>5 DEF LineAbout
  <2> HIDE DEF l, k
  <2>2. x.ts = x.ts * 1
    <3>1. x.ts \in Nat
      BY <1>1 DEF Sample
    <3> QED BY <3>1
  <2>3. l.name = m /\ l.value = x.value /\ l.ts = x.ts * 1
    BY <2>1, <2>2
  <2>4. ToldOf(m, l, m, 1)
    BY <1>1, <1>2, <1>5, <2>3 DEF ToldOf
  <2>5. Told(m, l)
    BY <1>5, <2>4 DEF Told
  <2>6. \E i \in DOMAIN store[m] : l.value = store[m][i].value
    BY <1>1, <2>3
  <2> QED BY <1>5, <2>5, <2>6 DEF l
<1> QED BY <1>4, <1>5

LEMMA LinesStep ==
  ASSUME ExportTyped, LinesFromStore, [Next]_vars
  PROVE  LinesFromStore'
<1>1. Grows(store, store')
  BY StoreStep DEF ExportTyped
<1>2. ASSUME NEW l,
             /\ outlet = "metrics" =>
                  l.name \in SelfNames \/ \E m \in Metric : l.name = prometheusMetricName(m)
             /\ outlet = "plugins" => \E m \in Metric : \E k \in DOMAIN store[m] : l.value = store[m][k].value,
             outlet' = outlet
      PROVE  /\ outlet' = "metrics" =>
                  l.name \in SelfNames \/ \E m \in Metric' : l.name = prometheusMetricName(m)
             /\ outlet' = "plugins" =>
                  \E m \in Metric' : \E k \in DOMAIN store'[m] : l.value = store'[m][k].value
  <2>1. Metric \subseteq Metric'
    BY <1>1 DEF Grows, Metric
  <2>2. \A m \in Metric : \A k \in DOMAIN store[m] : k \in DOMAIN store'[m] /\ store'[m][k] = store[m][k]
    <3> SUFFICES ASSUME NEW m \in Metric, NEW k \in DOMAIN store[m]
                 PROVE  k \in DOMAIN store'[m] /\ store'[m][k] = store[m][k]
      OBVIOUS
    <3>1. /\ Len(store[m]) \in Nat /\ Len(store'[m]) \in Nat /\ Len(store[m]) <= Len(store'[m])
          /\ DOMAIN store[m] = 1 .. Len(store[m]) /\ DOMAIN store'[m] = 1 .. Len(store'[m])
          /\ \A j \in 1 .. Len(store[m]) : store'[m][j] = store[m][j]
      BY <1>1 DEF Grows, Metric
    <3> QED BY <3>1
  <2>3. outlet = "metrics" =>
          l.name \in SelfNames \/ \E m \in Metric' : l.name = prometheusMetricName(m)
    BY <1>2, <2>1
  <2>4. ASSUME outlet = "plugins"
        PROVE  \E m \in Metric' : \E k \in DOMAIN store'[m] : l.value = store'[m][k].value
    <3>1. PICK m \in Metric : \E k \in DOMAIN store[m] : l.value = store[m][k].value
      BY <1>2, <2>4
    <3>2. PICK k \in DOMAIN store[m] : l.value = store[m][k].value
      BY <3>1
    <3>3. m \in Metric' /\ k \in DOMAIN store'[m] /\ l.value = store'[m][k].value
      BY <2>1, <2>2, <3>2
    <3> QED BY <3>3
  <2> QED BY <1>2, <2>3, <2>4
<1>3. CASE lines' = lines /\ outlet' = outlet
  <2>1. ASSUME NEW i \in DOMAIN lines
        PROVE  /\ outlet' = "metrics" =>
                    lines[i].name \in SelfNames \/ \E m \in Metric' : lines[i].name = prometheusMetricName(m)
               /\ outlet' = "plugins" =>
                    \E m \in Metric' : \E k \in DOMAIN store'[m] : lines[i].value = store'[m][k].value
    <3> DEFINE l == lines[i]
    <3>1. /\ outlet = "metrics" =>
               l.name \in SelfNames \/ \E m \in Metric : l.name = prometheusMetricName(m)
          /\ outlet = "plugins" => \E m \in Metric : \E k \in DOMAIN store[m] : l.value = store[m][k].value
      BY Zenon DEF LinesFromStore
    <3> HIDE DEF l
    <3>2. /\ outlet' = "metrics" =>
               l.name \in SelfNames \/ \E m \in Metric' : l.name = prometheusMetricName(m)
          /\ outlet' = "plugins" =>
               \E m \in Metric' : \E k \in DOMAIN store'[m] : l.value = store'[m][k].value
      BY <1>2, <1>3, <3>1, Zenon
    <3> QED BY <3>2 DEF l
  <2>2. lines' \in Seq(Range(lines'))
    BY <1>3 DEF LinesFromStore
  <2> QED BY <1>3, <2>1, <2>2, Zenon DEF LinesFromStore
<1>4. CASE BeginRequest
  <2>1. outlet' = outlet /\ outlet \in {"metrics", "plugins"}
        /\ lines' = IF outlet = "metrics"
                      THEN SelfLines(Cardinality(Metric), SampleCount, (Now + runs) * 1000) ELSE <<>>
    BY <1>4 DEF BeginRequest
  <2>2. CASE outlet = "metrics"
    <3> DEFINE s == SelfLines(Cardinality(Metric), SampleCount, (Now + runs) * 1000)
    <3>1. s \in Seq(Range(s)) /\ \A i \in DOMAIN s : s[i].name \in SelfNames
      <4> DEFINE a == ToString(Cardinality(Metric))
                 b == ToString(SampleCount)
                 t == (Now + runs) * 1000
      <4> HIDE DEF a, b, t
      <4>1. s = << [name |-> <<"rhelmon_", "up">>, value |-> "1", ts |-> t],
                   [name |-> <<"rhelmon_", "alerts_fired_total">>, value |-> "0", ts |-> t],
                   [name |-> <<"rhelmon_", "metric_series">>, value |-> a, ts |-> t],
                   [name |-> <<"rhelmon_", "ringbuf_samples_total">>, value |-> b, ts |-> t] >>
        BY Zenon DEF SelfLines, a, b, t
      <4> DEFINE l1 == [name |-> <<"rhelmon_", "up">>, value |-> "1", ts |-> t]
                 l2 == [name |-> <<"rhelmon_", "alerts_fired_total">>, value |-> "0", ts |-> t]
                 l3 == [name |-> <<"rhelmon_", "metric_series">>, value |-> a, ts |-> t]
                 l4 == [name |-> <<"rhelmon_", "ringbuf_samples_total">>, value |-> b, ts |-> t]
      <4>2. l1.name \in SelfNames /\ l2.name \in SelfNames /\ l3.name \in SelfNames /\ l4.name \in SelfNames
        BY DEF SelfNames
      <4> HIDE DEF l1, l2, l3, l4, s
      <4>3. s = <<l1, l2, l3, l4>>
        BY <4>1, Zenon DEF l1, l2, l3, l4
      <4>4. \A i \in DOMAIN s : s[i].name \in SelfNames
        BY <4>2, <4>3
      <4>5. \A w, x, y, z : <<w, x, y, z>> \in Seq(Range(<<w, x, y, z>>))
        BY DEF Range
      <4>6. s \in Seq(Range(s))
        BY <4>3, <4>5, Zenon
      <4> QED BY <4>4, <4>6
    <3> HIDE DEF s
    <3>2. lines' = s /\ outlet' = "metrics"
      BY <2>1, <2>2 DEF s
    <3> QED BY <3>1, <3>2 DEF LinesFromStore
  <2>3. CASE outlet # "metrics"
    <3>1. lines' = <<>>
      BY <2>1, <2>3
    <3>2. <<>> \in Seq(Range(<<>>)) /\ DOMAIN <<>> = {}
      OBVIOUS
    <3> QED BY <3>1, <3>2 DEF LinesFromStore
  <2> QED BY <2>2, <2>3
<1>5. CASE ReadLatest
  <2> DEFINE m == Head(todo)
             l == LineAbout(m)
  <2>1. outlet' = outlet /\ store' = store /\ todo # <<>> /\ lines' = Append(lines, l)
    BY <1>5 DEF ReadLatest, source, LineAbout
  <2>2. m \in Metric
    <3>1. todo \in Seq(Metric) /\ todo # <<>>
      BY <2>1 DEF ExportTyped, RequestTyped
    <3> QED BY <3>1
  <2> HIDE DEF m
  <2>3. /\ outlet = "metrics" => l.name = prometheusMetricName(m)
        /\ outlet # "metrics" => \E k \in DOMAIN store[m] : l.value = store[m][k].value
    BY <2>2, LatestTold DEF ExportTyped
  <2> HIDE DEF l
  <2> DEFINE s == lines
             t == Append(s, l)
  <2>4. s \in Seq(Range(s))
    BY DEF LinesFromStore
  <2>5. t \in Seq(Range(t)) /\ \A i \in DOMAIN t : t[i] = l \/ (i \in DOMAIN s /\ t[i] = s[i])
    <3> HIDE DEF s
    <3> DEFINE R == Range(s) \cup {l}
    <3>1. s \in Seq(R)
      <4>1. Range(s) \subseteq R
        OBVIOUS
      <4> QED BY <2>4, <4>1, SeqWithin
    <3>6. l \in R
      OBVIOUS
    <3> HIDE DEF R
    <3>2. /\ Len(s) \in Nat /\ DOMAIN s = 1 .. Len(s) /\ t \in Seq(R) /\ DOMAIN t = 1 .. Len(s) + 1
          /\ \A i \in 1 .. Len(s) : t[i] = s[i]
      BY <3>1, <3>6
    <3>3. t[Len(s) + 1] = l
      BY <3>1, <3>6
    <3>4. t \in Seq(Range(t))
      <4>1. \A w \in Seq(R) : w \in Seq(Range(w))
        BY DEF Range
      <4> HIDE DEF t
      <4> QED BY <3>2, <4>1
    <3>5. \A i \in DOMAIN t : i \in 1 .. Len(s) \/ i = Len(s) + 1
      BY <3>2
    <3> HIDE DEF t
    <3> QED BY <3>2, <3>3, <3>4, <3>5
  <2>6. ASSUME NEW i \in DOMAIN t
        PROVE  /\ outlet' = "metrics" =>
                    t[i].name \in SelfNames \/ \E n \in Metric : t[i].name = prometheusMetricName(n)
               /\ outlet' = "plugins" =>
                    \E n \in Metric : \E k \in DOMAIN store[n] : t[i].value = store[n][k].value
    <3> HIDE DEF t
    <3>1. CASE t[i] = l
      BY <2>1, <2>2, <2>3, <3>1
    <3>2. CASE i \in DOMAIN s /\ t[i] = s[i]
      <4>1. /\ outlet = "metrics" =>
                 s[i].name \in SelfNames \/ \E n \in Metric : s[i].name = prometheusMetricName(n)
            /\ outlet = "plugins" =>
                 \E n \in Metric : \E k \in DOMAIN store[n] : s[i].value = store[n][k].value
        BY <3>2, Zenon DEF LinesFromStore
      <4> HIDE DEF s
      <4> QED BY <2>1, <3>2, <4>1, Zenon
    <3> QED BY <2>5, <3>1, <3>2
  <2>7. lines' = t /\ Metric' = Metric
    BY <2>1 DEF Metric
  <2> HIDE DEF t, s
  <2>8. lines' \in Seq(Range(lines'))
    BY <2>5, <2>7
  <2>9. ASSUME NEW i \in DOMAIN lines'
        PROVE  /\ outlet' = "metrics" =>
                    lines'[i].name \in SelfNames \/ \E n \in Metric' : lines'[i].name = prometheusMetricName(n)
               /\ outlet' = "plugins" =>
                    \E n \in Metric' : \E k \in DOMAIN store'[n] : lines'[i].value = store'[n][k].value
    <3>1. i \in DOMAIN t /\ lines'[i] = t[i]
      BY <2>7
    <3> QED BY <2>1, <2>6, <2>7, <3>1, Zenon
  <2> QED BY <2>8, <2>9, Zenon DEF LinesFromStore
<1>6. (lines' = lines /\ outlet' = outlet) \/ BeginRequest \/ ReadLatest
  BY DEF Next, vars, reply, RunEnds, ParseLine, Flush, ListNames, EndRequest, Deliver
<1> QED BY <1>3, <1>4, <1>5, <1>6

LEMMA ToldStep ==
  ASSUME ExportTyped, LinesFromStore, BeforeToldOrLeft, [Next]_vars
  PROVE  BeforeToldOrLeft'
<1>1. Grows(store, store') /\ RequestTyped
  BY StoreStep DEF ExportTyped
<1>2. ASSUME before' = before, outlet' = outlet, Range(lines) \subseteq Range(lines'),
             NEW m \in DOMAIN before, \E line \in Range(lines) : Told(m, line)
      PROVE  \E line \in Range(lines') : Told(m, line)'
  <2>1. PICK line \in Range(lines) : Told(m, line)
    BY <1>2
  <2>2. Told(m, line)'
    BY <1>1, <1>2, <2>1, ToldGrows
  <2> QED BY <1>2, <2>1, <2>2
<1>3. ASSUME outlet' = outlet, NEW m PROVE ToBeTold(m)' <=> ToBeTold(m)
  BY <1>3 DEF ToBeTold
<1>4. CASE outlet \in {"prometheus", "influxdb"}
  <2>1. outlet' = outlet
    BY DEF Next, vars, RunEnds, ParseLine, Flush, BeginRequest, ListNames, ReadLatest, EndRequest, Deliver
  <2> QED BY <1>4, <2>1 DEF BeforeToldOrLeft
<1>5. CASE outlet \in {"metrics", "plugins"}
  <2>1. CASE /\ outlet' = outlet /\ stage' = stage /\ todo' = todo /\ lines' = lines /\ wire' = wire
             /\ received' = received /\ before' = before
    <3>1. stage' = "reading" =>
            \A m \in DOMAIN before' : ToBeTold(m)' =>
              m \in Range(todo') \/ \E line \in Range(lines') : Told(m, line)'
      BY <1>2, <1>3, <1>5, <2>1 DEF BeforeToldOrLeft
    <3>2. stage' \in {"sent", "done"} =>
            /\ wire' = lines'
            /\ \A m \in DOMAIN before' : ToBeTold(m)' => \E line \in Range(lines') : Told(m, line)'
      BY <1>2, <1>3, <1>5, <2>1 DEF BeforeToldOrLeft
    <3>3. stage' = "done" =>
            received' = IF outlet' = "metrics" THEN Scraped(wire', Alnum) ELSE Decoded(wire', NonFinite)
      BY <1>5, <2>1 DEF BeforeToldOrLeft
    <3> QED BY <3>1, <3>2, <3>3, Zenon DEF BeforeToldOrLeft
  <2>2. CASE BeginRequest
    BY <2>2 DEF BeginRequest, BeforeToldOrLeft
  <2>3. CASE ListNames
    <3> DEFINE S == {m \in Metric : ToBeTold(m)}
    <3>1. outlet' = outlet /\ stage' = "reading" /\ before' = before /\ todo' = SortStrings(S)
      BY <2>3, Zenon DEF ListNames, ToBeTold
    <3>2. S \in SUBSET Metric /\ \A m \in Metric : ToBeTold(m) => m \in S
      OBVIOUS
    <3> HIDE DEF S
    <3>3. \A m \in S : m \in Range(SortStrings(S))
      BY <3>2, NamesIs DEF ExportTyped, Range
    <3>4. \A m \in DOMAIN before : ToBeTold(m) => m \in Range(todo')
      BY <3>1, <3>2, <3>3 DEF ExportTyped, RequestTyped
    <3>5. \A m \in DOMAIN before' : ToBeTold(m)' => m \in Range(todo')
      BY <1>3, <3>1, <3>4
    <3> QED BY <3>1, <3>5 DEF BeforeToldOrLeft
  <2>4. CASE ReadLatest
    <3> DEFINE n == Head(todo)
               l == LineAbout(n)
    <3>1. /\ outlet' = outlet /\ stage = "reading" /\ stage' = "reading" /\ before' = before
          /\ todo # <<>> /\ todo' = Tail(todo) /\ lines' = Append(lines, l)
      BY <2>4 DEF ReadLatest, LineAbout
    <3>2. todo \in Seq(Metric) /\ n \in Metric
      BY <3>1 DEF ExportTyped, RequestTyped
    <3>3. \A m \in Range(todo) : m = n \/ m \in Range(todo')
      <4>1. \A s \in Seq(Metric) \ {<<>>} : \A i \in DOMAIN s :
              i = 1 \/ (i - 1 \in DOMAIN Tail(s) /\ Tail(s)[i - 1] = s[i])
        OBVIOUS
      <4>2. \A i \in DOMAIN todo : i = 1 \/ (i - 1 \in DOMAIN todo' /\ todo'[i - 1] = todo[i])
        BY <3>1, <3>2, <4>1
      <4>3. n = todo[1]
        OBVIOUS
      <4> HIDE DEF n
      <4> QED BY <4>2, <4>3 DEF Range
    <3>4. Told(n, l)
      BY <3>2, LatestTold DEF ExportTyped
    <3>5. l \in Range(lines') /\ Range(lines) \subseteq Range(lines')
      <4> HIDE DEF l
      <4> DEFINE s == lines
      <4>1. s \in Seq(Range(s))
        BY DEF LinesFromStore
      <4> HIDE DEF s
      <4>2. DOMAIN Append(s, l) = 1 .. Len(s) + 1 /\ Append(s, l)[Len(s) + 1] = l
            /\ DOMAIN s = 1 .. Len(s) /\ Len(s) \in Nat
        BY <4>1
      <4>3. \A i \in 1 .. Len(s) : Append(s, l)[i] = s[i]
        BY <4>1
      <4>4. l \in Range(Append(s, l)) /\ Range(s) \subseteq Range(Append(s, l))
        BY <4>2, <4>3 DEF Range
      <4> QED BY <3>1, <4>4 DEF s
    <3> HIDE DEF l, n
    <3>6. ASSUME NEW m \in DOMAIN before, ToBeTold(m)
          PROVE  m \in Range(todo') \/ \E line \in Range(lines') : Told(m, line)'
      <4>1. m \in Range(todo) \/ \E line \in Range(lines) : Told(m, line)
        BY <1>5, <3>1, <3>6 DEF BeforeToldOrLeft
      <4>2. CASE m = n
        <5>1. PICK line \in Range(lines') : line = l
          BY <3>5
        <5>2. Told(m, line)
          BY <3>4, <4>2, <5>1
        <5>3. Told(m, line)'
          BY <1>1, <3>1, <5>2, ToldGrows
        <5> QED BY <5>1, <5>3
      <4>3. CASE \E line \in Range(lines) : Told(m, line)
        BY <1>2, <3>1, <3>5, <4>3
      <4> QED BY <3>3, <4>1, <4>2, <4>3
    <3> QED BY <1>3, <3>1, <3>6 DEF BeforeToldOrLeft
  <2>5. CASE EndRequest
    <3>1. /\ outlet' = outlet /\ stage = "reading" /\ stage' = "sent" /\ before' = before
          /\ todo = <<>> /\ wire' = lines /\ lines' = lines
      BY <2>5 DEF EndRequest
    <3>2. Range(todo) = {}
      BY <3>1 DEF Range
    <3>3. \A m \in DOMAIN before' : ToBeTold(m)' => \E line \in Range(lines') : Told(m, line)'
      BY <1>2, <1>3, <1>5, <3>1, <3>2 DEF BeforeToldOrLeft
    <3> QED BY <3>1, <3>3 DEF BeforeToldOrLeft
  <2>6. CASE Deliver
    <3>1. /\ outlet' = outlet /\ stage = "sent" /\ stage' = "done" /\ before' = before
          /\ lines' = lines /\ wire' = wire
          /\ outlet = "metrics" => received' = Scraped(wire, Alnum)
          /\ outlet = "plugins" => received' = Decoded(wire, NonFinite)
      BY <2>6 DEF Deliver
    <3>2. wire' = lines'
      BY <1>5, <3>1 DEF BeforeToldOrLeft
    <3>3. \A m \in DOMAIN before' : ToBeTold(m)' => \E line \in Range(lines') : Told(m, line)'
      BY <1>2, <1>3, <1>5, <3>1 DEF BeforeToldOrLeft
    <3>4. received' = IF outlet' = "metrics" THEN Scraped(wire', Alnum) ELSE Decoded(wire', NonFinite)
      BY <1>5, <3>1, Zenon
    <3> QED BY <3>1, <3>2, <3>3, <3>4, Zenon DEF BeforeToldOrLeft
  <2>7. CASE Flush
    BY <1>5, <2>7 DEF Flush
  <2>8. RunEnds \/ ParseLine \/ UNCHANGED vars =>
          /\ outlet' = outlet /\ stage' = stage /\ todo' = todo /\ lines' = lines /\ wire' = wire
          /\ received' = received /\ before' = before
    BY DEF RunEnds, ParseLine, vars, reply
  <2> QED BY <2>1, <2>2, <2>3, <2>4, <2>5, <2>6, <2>7, <2>8 DEF Next
<1> QED BY <1>4, <1>5 DEF ExportTyped, StageTyped

LEMMA PagesInvariant == Spec => [](ExportTyped /\ PagesTold)
<1>1. Init => ExportTyped /\ PagesTold
  <2> SUFFICES ASSUME Init PROVE ExportTyped /\ PagesTold
    OBVIOUS
  <2>1. stage = "idle" /\ lines = <<>>
    BY DEF Init
  <2>2. <<>> \in Seq(Range(<<>>)) /\ DOMAIN <<>> = {}
    OBVIOUS
  <2>3. LinesFromStore
    BY <2>1, <2>2 DEF LinesFromStore
  <2>4. BeforeToldOrLeft
    BY <2>1 DEF BeforeToldOrLeft
  <2> QED BY <2>3, <2>4, ExportInit DEF PagesTold
<1>2. ExportTyped /\ PagesTold /\ [Next]_vars => (ExportTyped /\ PagesTold)'
  BY StoreStep, StageStep, RequestStep, FlushStep, LinesStep, ToldStep DEF ExportTyped, PagesTold
<1> QED BY <1>1, <1>2, PTL DEF Spec

\* A scrape of /metrics shows every series there was when it began, and a request
\* for /api/plugins every series of a plugin, none older than it was then, however
\* many series there are and whatever the plugins push while they are read
\* (monitor.go:259-277, web.go:271-303).
THEOREM ExportReadersToldLatest == Spec => []ReadersToldLatest
<1>1. ExportTyped /\ PagesTold => ReadersToldLatest
  <2> SUFFICES ASSUME ExportTyped, PagesTold PROVE ReadersToldLatest
    OBVIOUS
  <2>1. ASSUME Done("metrics"), \A m \in Metric : WellNamed(m), NEW m \in DOMAIN before
        PROVE  \E i \in DOMAIN received : ToldOf(m, received[i], prometheusMetricName(m), 1000)
    <3>1. /\ outlet = "metrics" /\ wire = lines /\ received = Scraped(lines, Alnum)
          /\ \A n \in DOMAIN before : ToBeTold(n) => \E line \in Range(lines) : Told(n, line)
      BY <2>1 DEF PagesTold, BeforeToldOrLeft, Done
    <3>2. \A i \in DOMAIN lines : Range(lines[i].name) \subseteq Scrapable
      <4> SUFFICES ASSUME NEW i \in DOMAIN lines PROVE Range(lines[i].name) \subseteq Scrapable
        OBVIOUS
      <4>1. lines[i].name \in SelfNames \/ \E n \in Metric : lines[i].name = prometheusMetricName(n)
        BY <3>1 DEF PagesTold, LinesFromStore
      <4>2. CASE lines[i].name \in SelfNames
        BY <4>2, SelfNamesScrapable
      <4>3. CASE \E n \in Metric : lines[i].name = prometheusMetricName(n)
        <5>1. PICK n \in Metric : lines[i].name = prometheusMetricName(n)
          BY <4>3
        <5>2. n \in Seq(Character) /\ WellNamed(n)
          BY <2>1 DEF ExportTyped, StoreTyped, Name
        <5> QED BY <5>1, <5>2, ScrapableName
      <4> QED BY <4>1, <4>2, <4>3
    <3>3. received = lines
      BY <3>1, <3>2, Zenon DEF Scraped, Scrapable
    <3>4. PICK line \in Range(lines) : Told(m, line)
      BY <2>1, <3>1 DEF ToBeTold
    <3>5. outlet = "metrics" => (Told(m, line) <=> ToldOf(m, line, prometheusMetricName(m), 1000))
      BY DEF Told
    <3>6. ToldOf(m, line, prometheusMetricName(m), 1000)
      BY <3>1, <3>4, <3>5
    <3> QED BY <3>3, <3>4, <3>6 DEF Range
  <2>2. ASSUME Done("plugins"),
               \A m \in Metric : \A i \in DOMAIN store[m] : store[m][i].value \notin NonFinite,
               NEW m \in DOMAIN before, Head(m) = "plugin"
        PROVE  \E i \in DOMAIN received : ToldOf(m, received[i], m, 1)
    <3>1. /\ outlet = "plugins" /\ wire = lines /\ received = Decoded(lines, NonFinite)
          /\ \A n \in DOMAIN before : ToBeTold(n) => \E line \in Range(lines) : Told(n, line)
      BY <2>2 DEF PagesTold, BeforeToldOrLeft, Done
    <3>2. \A i \in DOMAIN lines : lines[i].value \notin NonFinite
      BY <2>2, <3>1 DEF PagesTold, LinesFromStore
    <3>3. received = lines
      BY <3>1, <3>2, Zenon DEF Decoded
    <3>4. PICK line \in Range(lines) : Told(m, line)
      BY <2>2, <3>1 DEF ToBeTold
    <3>5. ToldOf(m, line, m, 1)
      BY <3>1, <3>4 DEF Told
    <3> QED BY <3>3, <3>4, <3>5 DEF Range
  <2> QED BY <2>1, <2>2, Zenon DEF ReadersToldLatest
<1> QED BY <1>1, PagesInvariant, PTL

-----------------------------------------------------------------------------
(* Lines: what separates, and what backslashes protect.                     *)

\* No sep in s counts as a separator.
Guarded(s, sep) == \A i \in 1 .. Len(s) : s[i] = sep => i > 1 /\ s[i - 1] = "\\"

\* What follows s is not protected.
Closed(s) == Len(s) > 0 => s[Len(s)] # "\\"

\* s consists of n parts with a separator after each but the last; part k ends
\* before e[k].
Parted(A, s, sep, n, e, p) ==
  /\ s \in Seq(A) /\ p \in [1 .. n -> Seq(A)]
  /\ n \in Nat \ {0} /\ e \in [0 .. n -> Nat] /\ e[0] = 0 /\ e[n] = Len(s) + 1
  /\ \A k, l \in 0 .. n : k < l => e[k] < e[l]
  /\ \A k \in 1 .. n : /\ e[k] = e[k - 1] + Len(p[k]) + 1
                       /\ At(s, e[k - 1], p[k]) /\ Guarded(p[k], sep)
  /\ \A k \in 1 .. n - 1 : s[e[k]] = sep /\ (e[k] > 1 => s[e[k] - 1] # "\\")

LEMMA SplitIs ==
  ASSUME NEW A, NEW s, NEW sep, NEW n, NEW e, NEW p, Parted(A, s, sep, n, e, p)
  PROVE  Split(s, sep) = [k \in 1 .. n |-> p[k]]
<1> DEFINE ends == {i \in DOMAIN s : s[i] = sep /\ (i > 1 => s[i - 1] # "\\")} \cup {Len(s) + 1}
           f == [k \in 1 .. n |-> e[k]]
           at == Ascending(ends)
<1>1. /\ n \in Nat \ {0} /\ e \in [0 .. n -> Nat] /\ e[0] = 0 /\ e[n] = Len(s) + 1
      /\ \A k, l \in 0 .. n : k < l => e[k] < e[l]
      /\ s \in Seq(A) /\ p \in [1 .. n -> Seq(A)]
      /\ Len(s) \in Nat /\ DOMAIN s = 1 .. Len(s)
  BY DEF Parted
<1>2. \A k \in 1 .. n : e[k] = e[k - 1] + Len(p[k]) + 1 /\ At(s, e[k - 1], p[k]) /\ Guarded(p[k], sep)
  BY DEF Parted
<1>3. \A k \in 1 .. n - 1 : s[e[k]] = sep /\ (e[k] > 1 => s[e[k] - 1] # "\\")
  BY DEF Parted
<1>4. \A k \in 1 .. n : Len(p[k]) \in Nat
  BY <1>1
<1>5. ASSUME NEW i \in 1 .. Len(s)
      PROVE  \E k \in 1 .. n : e[k - 1] < i /\ i <= e[k]
  <2> DEFINE T == {k \in Nat : k \in 1 .. n /\ i <= e[k]}
  <2>1. n \in T
    BY <1>1
  <2>2. T \in SUBSET Nat
    OBVIOUS
  <2>3. PICK k \in T : \A l \in T : k <= l
    <3> HIDE DEF T
    <3> QED BY <2>1, <2>2, Least
  <2>4. k \in 1 .. n /\ i <= e[k] /\ k - 1 \in 0 .. n
    BY <1>1, <2>3
  <2>5. e[k - 1] < i
    <3> DEFINE q == k - 1
    <3>1. q \in 0 .. n /\ (q = 0 \/ q \in 1 .. n) /\ ~ (k <= q) /\ q \in Nat
      BY <2>4
    <3> HIDE DEF q
    <3>2. CASE q = 0
      BY <1>1, <3>2 DEF q
    <3>3. CASE q \in 1 .. n
      <4>1. q \notin T
        BY <2>3, <3>1
      <4>2. ~ (i <= e[q])
        BY <3>1, <3>3, <4>1
      <4>3. e[q] \in Nat
        BY <1>1, <3>1
      <4>4. e[q] < i
        BY <4>2, <4>3
      <4> QED BY <4>4 DEF q
    <3> QED BY <3>1, <3>2, <3>3
  <2> QED BY <2>4, <2>5
<1>6. ASSUME NEW i \in 1 .. Len(s), s[i] = sep, i > 1 => s[i - 1] # "\\"
      PROVE  \E k \in 1 .. n : e[k] = i
  <2>1. PICK k \in 1 .. n : e[k - 1] < i /\ i <= e[k]
    BY <1>5
  <2> SUFFICES ASSUME i < e[k] PROVE FALSE
    <3>1. e[k] \in Nat
      BY <1>1
    <3> QED BY <2>1, <3>1
  <2> DEFINE a == e[k - 1]
             d == p[k]
             q == i - a
  <2>2. a \in Nat /\ e[k] = a + Len(d) + 1 /\ At(s, a, d) /\ Guarded(d, sep) /\ Len(d) \in Nat
        /\ a < i /\ e[k] \in Nat
    <3>1. k - 1 \in 0 .. n /\ k \in 0 .. n
      BY <1>1
    <3> QED BY <1>1, <1>2, <1>4, <2>1, <3>1
  <2> HIDE DEF a, d
  <2>3. q \in 1 .. Len(d) /\ a + q = i /\ a + (q - 1) = i - 1
    BY <2>2
  <2> HIDE DEF q
  <2>4. d[q] = sep
    BY <1>6, <2>2, <2>3 DEF At
  <2>5. q > 1 /\ d[q - 1] = "\\"
    BY <2>2, <2>3, <2>4 DEF Guarded
  <2>6. q - 1 \in 1 .. Len(d) /\ i > 1
    BY <2>2, <2>3, <2>5
  <2>7. s[a + (q - 1)] = d[q - 1]
    BY <2>2, <2>6 DEF At
  <2> QED BY <1>6, <2>3, <2>5, <2>6, <2>7
<1>7. \A k \in 1 .. n : e[k] \in ends
  <2> SUFFICES ASSUME NEW k \in 1 .. n PROVE e[k] \in ends
    OBVIOUS
  <2>1. CASE k = n
    BY <1>1, <2>1
  <2>2. CASE k # n
    <3>1. k \in 1 .. n - 1 /\ k \in 0 .. n /\ n \in 0 .. n /\ 0 \in 0 .. n /\ 0 < k /\ k < n
      BY <1>1, <2>2
    <3>2. e[0] < e[k] /\ e[k] < e[n] /\ e[k] \in Nat
      BY <1>1, <3>1
    <3>3. e[k] \in DOMAIN s
      BY <1>1, <3>2
    <3>4. s[e[k]] = sep /\ (e[k] > 1 => s[e[k] - 1] # "\\")
      BY <1>3, <3>1
    <3> QED BY <3>3, <3>4
  <2> QED BY <2>1, <2>2
<1>8. \A i \in ends : \E k \in 1 .. n : e[k] = i
  <2>1. n \in 1 .. n
    BY <1>1
  <2> QED BY <1>1, <1>6, <2>1
<1>9. ends \in SUBSET (1 .. Len(s) + 1)
  BY <1>1
<1> HIDE DEF ends
<1>10. Cardinality(ends) = n /\ at = f
  <2>1. f \in [1 .. n -> ends]
    BY <1>7
  <2>2. \A x \in ends : \E k \in 1 .. n : f[k] = x
    BY <1>8
  <2>3. \A k, l \in 1 .. n : k < l => f[k] < f[l]
    BY <1>1
  <2>4. ends \in SUBSET Int /\ IsFiniteSet(ends) /\ n \in Nat
    <3>1. IsFiniteSet(1 .. Len(s) + 1)
      BY <1>1, FS_Interval
    <3>2. IsFiniteSet(ends)
      BY <1>9, <3>1, FS_Subset
    <3>3. ends \in SUBSET Int /\ n \in Nat
      BY <1>1, <1>9
    <3> QED BY <3>2, <3>3
  <2> HIDE DEF f
  <2> QED BY <2>1, <2>2, <2>3, <2>4, AscendingUnique
<1>11. Split(s, sep) = [k \in 1 .. Cardinality(ends) |->
                         SubSeq(s, IF k = 1 THEN 1 ELSE at[k - 1] + 1, at[k] - 1)]
  BY DEF Split, ends
<1> HIDE DEF at
<1>12. ASSUME NEW k \in 1 .. n
       PROVE  SubSeq(s, IF k = 1 THEN 1 ELSE at[k - 1] + 1, at[k] - 1) = p[k]
  <2> DEFINE a == e[k - 1]
             d == p[k]
  <2>1. a \in Nat /\ e[k] = a + Len(d) + 1 /\ At(s, a, d) /\ Len(d) \in Nat /\ d \in Seq(A)
    <3>1. k - 1 \in 0 .. n
      BY <1>1
    <3> QED BY <1>1, <1>2, <1>4, <3>1
  <2>2. (IF k = 1 THEN 1 ELSE at[k - 1] + 1) = a + 1
    <3>1. CASE k = 1
      BY <1>1, <3>1
    <3>2. CASE k # 1
      <4>1. k - 1 \in 1 .. n
        BY <1>1, <3>2
      <4>2. at[k - 1] = e[k - 1]
        BY <1>10, <4>1
      <4> QED BY <3>2, <4>2
    <3> QED BY <3>1, <3>2
  <2>3. at[k] = e[k]
    BY <1>10
  <2> HIDE DEF a, d
  <2>4. at[k] - 1 = a + Len(d)
    BY <2>1, <2>3
  <2>5. SubSeq(s, a + 1, a + Len(d)) = d
    BY <1>1, <2>1, AtIs
  <2> QED BY <2>2, <2>4, <2>5 DEF d
<1> QED BY <1>10, <1>11, <1>12

\* Two parts.
LEMMA SplitTwo ==
  ASSUME NEW A, NEW sep \in A, sep # "\\", NEW x \in Seq(A), NEW y \in Seq(A),
         Guarded(x, sep), Guarded(y, sep), Closed(x)
  PROVE  Split(x \o (<<sep>> \o y), sep) = <<x, y>>
<1> DEFINE c == <<sep>>
           s == x \o (c \o y)
           a == Len(x)
           b == Len(y)
           p == <<x, y>>
           e == [k \in 0 .. 2 |-> IF k = 0 THEN 0 ELSE IF k = 1 THEN a + 1 ELSE a + b + 2]
<1>1. c \in Seq(A) /\ Len(c) = 1 /\ c[1] = sep /\ a \in Nat /\ b \in Nat
  OBVIOUS
<1> HIDE DEF c
<1>16. \A r, t \in Seq(A) : r \o t \in Seq(A) /\ Len(r \o t) = Len(r) + Len(t)
  BY ConcatIs
<1>2. c \o y \in Seq(A) /\ Len(c \o y) = 1 + b
  BY <1>1, <1>16, Zenon
<1>3. s \in Seq(A) /\ Len(s) = a + (1 + b)
  BY <1>2, <1>16, Zenon
<1>4. At(s, 0, x) /\ At(s, a, c \o y)
  BY <1>2, AtSuffix
<1> HIDE DEF s
<1>5. At(s, a, c) /\ At(s, a + Len(c), y)
  BY <1>1, <1>3, <1>4, AtConcat
<1>6. At(s, a + 1, y) /\ s[a + 1] = sep
  BY <1>1, <1>5 DEF At
<1>7. a > 0 => s[a] # "\\"
  <2> SUFFICES ASSUME a > 0 PROVE s[a] # "\\"
    OBVIOUS
  <2>1. a \in 1 .. a /\ 0 + a = a
    BY <1>1
  <2>2. s[a] = x[a]
    BY <1>4, <2>1 DEF At
  <2> QED BY <2>1, <2>2 DEF Closed
<1> DEFINE n == 2
<1>8. p \in [1 .. n -> Seq(A)] /\ p[1] = x /\ p[2] = y
  OBVIOUS
<1>9. /\ n \in Nat \ {0} /\ e \in [0 .. n -> Nat] /\ e[0] = 0 /\ e[1] = a + 1 /\ e[2] = a + b + 2
      /\ \A k, l \in 0 .. n : k < l => e[k] < e[l]
  BY <1>1
<1> HIDE DEF e, p, a, b
<1>10. ASSUME NEW k \in 1 .. n
       PROVE  /\ e[k] = e[k - 1] + Len(p[k]) + 1
              /\ At(s, e[k - 1], p[k]) /\ Guarded(p[k], sep)
  <2>1. CASE k = 1
    <3>1. k - 1 = 0 /\ e[k] = a + 1 /\ p[k] = x /\ e[k - 1] = 0 /\ Len(x) = a
      BY <1>8, <1>9, <2>1 DEF a
    <3> QED BY <1>1, <1>4, <3>1
  <2>2. CASE k = 2
    <3>1. k - 1 = 1 /\ e[k] = a + b + 2 /\ p[k] = y /\ e[k - 1] = a + 1 /\ Len(y) = b
      BY <1>8, <1>9, <2>2 DEF b
    <3> QED BY <1>1, <1>6, <3>1
  <2> QED BY <2>1, <2>2
<1>11. \A k \in 1 .. n - 1 : s[e[k]] = sep /\ (e[k] > 1 => s[e[k] - 1] # "\\")
  <2>1. \A k \in 1 .. n - 1 : k = 1
    OBVIOUS
  <2>2. s[e[1]] = sep /\ (e[1] > 1 => s[e[1] - 1] # "\\")
    <3>1. e[1] = a + 1
      BY <1>9
    <3>2. ASSUME NEW q \in Nat, q = a + 1 PROVE s[q] = sep /\ (q > 1 => s[q - 1] # "\\")
      <4>1. q - 1 = a /\ (q > 1 => a > 0)
        BY <1>1, <3>2
      <4>2. s[q] = sep
        BY <1>6, <3>2, Zenon
      <4>3. q > 1 => s[q - 1] # "\\"
        BY <1>7, <4>1, Zenon
      <4> QED BY <4>2, <4>3
    <3>3. e[1] \in Nat
      BY <1>1, <1>9
    <3> QED BY <3>1, <3>2, <3>3, Zenon
  <2> QED BY <2>1, <2>2
<1>12. e[n] = Len(s) + 1
  BY <1>1, <1>3, <1>9
<1>13. Parted(A, s, sep, n, e, p)
  BY <1>3, <1>8, <1>9, <1>10, <1>11, <1>12 DEF Parted
<1> HIDE DEF n
<1>14. Split(s, sep) = [k \in 1 .. n |-> p[k]]
  BY <1>13, SplitIs
<1>15. [k \in 1 .. n |-> p[k]] = <<x, y>>
  BY DEF n, p
<1> QED BY <1>14, <1>15 DEF s, c

\* Three parts.
LEMMA SplitThree ==
  ASSUME NEW A, NEW sep \in A, sep # "\\", NEW x \in Seq(A), NEW y \in Seq(A), NEW z \in Seq(A),
         Guarded(x, sep), Guarded(y, sep), Guarded(z, sep), Closed(x), Closed(y)
  PROVE  Split(x \o (<<sep>> \o (y \o (<<sep>> \o z))), sep) = <<x, y, z>>
<1> DEFINE c == <<sep>>
           u == y \o (c \o z)
           s == x \o (c \o u)
           a == Len(x)
           b == Len(y)
           d == Len(z)
           p == <<x, y, z>>
           e == [k \in 0 .. 3 |-> IF k = 0 THEN 0 ELSE IF k = 1 THEN a + 1
                                  ELSE IF k = 2 THEN a + b + 2 ELSE a + b + d + 3]
<1>1. c \in Seq(A) /\ Len(c) = 1 /\ c[1] = sep /\ a \in Nat /\ b \in Nat /\ d \in Nat
  OBVIOUS
<1> HIDE DEF c
<1>23. \A r, t \in Seq(A) : r \o t \in Seq(A) /\ Len(r \o t) = Len(r) + Len(t)
  BY ConcatIs
<1>2. c \o z \in Seq(A) /\ Len(c \o z) = 1 + d
  BY <1>1, <1>23, Zenon
<1>3. u \in Seq(A) /\ Len(u) = b + (1 + d)
  <2>1. u \in Seq(A) /\ Len(u) = Len(y) + Len(c \o z)
    BY <1>2, <1>23, Zenon
  <2> QED BY <1>2, <2>1, Zenon
<1>4. At(u, 0, y) /\ At(u, b, c \o z)
  BY <1>2, AtSuffix
<1> HIDE DEF u
<1>5. c \o u \in Seq(A) /\ Len(c \o u) = 1 + (b + (1 + d))
  <2>1. c \o u \in Seq(A) /\ Len(c \o u) = Len(c) + Len(u)
    BY <1>1, <1>3, <1>23, Zenon
  <2> QED BY <1>1, <1>3, <2>1, Zenon
<1>6. s \in Seq(A) /\ Len(s) = a + (1 + (b + (1 + d)))
  <2>1. s \in Seq(A) /\ Len(s) = Len(x) + Len(c \o u)
    BY <1>5, <1>23, Zenon
  <2> QED BY <1>5, <2>1, Zenon
<1>7. At(s, 0, x) /\ At(s, a, c \o u)
  BY <1>5, AtSuffix
<1> HIDE DEF s
<1>8. At(s, a, c) /\ At(s, a + Len(c), u)
  BY <1>1, <1>3, <1>6, <1>7, AtConcat
<1>9. At(s, a + 1, u) /\ s[a + 1] = sep
  BY <1>1, <1>8 DEF At
<1>10. At(s, a + 1 + 0, y) /\ At(s, a + 1 + b, c \o z)
  BY <1>2, <1>3, <1>4, <1>6, <1>9, AtWithin
<1>11. At(s, a + 1 + b, c) /\ At(s, a + 1 + b + Len(c), z)
  BY <1>1, <1>6, <1>10, AtConcat
<1>12. At(s, a + 1, y) /\ s[a + b + 2] = sep /\ At(s, a + b + 2, z)
  <2>1. a + 1 + 0 = a + 1 /\ a + 1 + b + 1 = a + b + 2
    BY <1>1
  <2>2. s[a + 1 + b + 1] = c[1]
    BY <1>1, <1>11 DEF At
  <2> QED BY <1>1, <1>10, <1>11, <2>1, <2>2
<1>13. a > 0 => s[a] # "\\"
  <2> SUFFICES ASSUME a > 0 PROVE s[a] # "\\"
    OBVIOUS
  <2>1. a \in 1 .. a /\ 0 + a = a
    BY <1>1
  <2>2. s[a] = x[a]
    BY <1>7, <2>1 DEF At
  <2> QED BY <2>1, <2>2 DEF Closed
<1>14. s[a + b + 1] # "\\"
  <2>1. CASE b = 0
    <3>1. a + b + 1 = a + 1
      BY <1>1, <2>1
    <3> QED BY <1>9, <3>1
  <2>2. CASE b # 0
    <3>1. b > 0 /\ b \in 1 .. b /\ a + b + 1 = a + 1 + b
      BY <1>1, <2>2
    <3>2. s[a + 1 + b] = y[b]
      BY <1>12, <3>1 DEF At
    <3> QED BY <3>1, <3>2 DEF Closed
  <2> QED BY <2>1, <2>2
<1> DEFINE n == 3
<1>15. p \in [1 .. n -> Seq(A)] /\ p[1] = x /\ p[2] = y /\ p[3] = z
  OBVIOUS
<1>16. /\ n \in Nat \ {0} /\ e \in [0 .. n -> Nat]
       /\ e[0] = 0 /\ e[1] = a + 1 /\ e[2] = a + b + 2 /\ e[3] = a + b + d + 3
       /\ \A k, l \in 0 .. n : k < l => e[k] < e[l]
  <2>1. \A k \in 0 .. n : k = 0 \/ k = 1 \/ k = 2 \/ k = 3
    OBVIOUS
  <2>2. e[0] = 0 /\ e[1] = a + 1 /\ e[2] = a + b + 2 /\ e[3] = a + b + d + 3
    OBVIOUS
  <2>3. e \in [0 .. n -> Nat]
    BY <1>1
  <2> HIDE DEF e
  <2>4. 0 < a + 1 /\ a + 1 < a + b + 2 /\ a + b + 2 < a + b + d + 3
    BY <1>1
  <2> HIDE DEF a, b, d
  <2> QED BY <1>1, <2>1, <2>2, <2>3, <2>4
<1> HIDE DEF e, p, a, b, d
<1>17. ASSUME NEW k \in 1 .. n
       PROVE  /\ e[k] = e[k - 1] + Len(p[k]) + 1
              /\ At(s, e[k - 1], p[k]) /\ Guarded(p[k], sep)
  <2>1. CASE k = 1
    <3>1. k - 1 = 0 /\ e[k] = a + 1 /\ p[k] = x /\ e[k - 1] = 0 /\ Len(x) = a
      BY <1>15, <1>16, <2>1 DEF a
    <3> QED BY <1>1, <1>7, <3>1
  <2>2. CASE k = 2
    <3>1. k - 1 = 1 /\ e[k] = a + b + 2 /\ p[k] = y /\ e[k - 1] = a + 1 /\ Len(y) = b
      BY <1>15, <1>16, <2>2 DEF b
    <3> QED BY <1>1, <1>12, <3>1
  <2>3. CASE k = 3
    <3>1. k - 1 = 2 /\ e[k] = a + b + d + 3 /\ p[k] = z /\ e[k - 1] = a + b + 2 /\ Len(z) = d
      BY <1>15, <1>16, <2>3 DEF d
    <3> QED BY <1>1, <1>12, <3>1
  <2> QED BY <2>1, <2>2, <2>3
<1>18. \A k \in 1 .. n - 1 : s[e[k]] = sep /\ (e[k] > 1 => s[e[k] - 1] # "\\")
  <2>1. \A k \in 1 .. n - 1 : k = 1 \/ k = 2
    OBVIOUS
  <2>2. s[e[1]] = sep /\ (e[1] > 1 => s[e[1] - 1] # "\\")
    <3>1. e[1] = a + 1
      BY <1>16
    <3>2. ASSUME NEW q \in Nat, q = a + 1 PROVE s[q] = sep /\ (q > 1 => s[q - 1] # "\\")
      <4>1. q - 1 = a /\ (q > 1 => a > 0)
        BY <1>1, <3>2
      <4>2. s[q] = sep
        BY <1>9, <3>2, Zenon
      <4>3. q > 1 => s[q - 1] # "\\"
        BY <1>13, <4>1, Zenon
      <4> QED BY <4>2, <4>3
    <3>3. e[1] \in Nat
      BY <1>1, <1>16
    <3> QED BY <3>1, <3>2, <3>3, Zenon
  <2>3. s[e[2]] = sep /\ s[e[2] - 1] # "\\"
    <3>1. e[2] = a + b + 2
      BY <1>16
    <3>2. ASSUME NEW q \in Nat, q = a + b + 2 PROVE s[q] = sep /\ s[q - 1] # "\\"
      <4>1. q - 1 = a + b + 1
        BY <1>1, <3>2
      <4>2. s[q] = sep
        BY <1>12, <3>2, Zenon
      <4>3. s[q - 1] # "\\"
        BY <1>14, <4>1, Zenon
      <4> QED BY <4>2, <4>3
    <3>3. e[2] \in Nat
      BY <1>1, <1>16
    <3> QED BY <3>1, <3>2, <3>3, Zenon
  <2> QED BY <2>1, <2>2, <2>3
<1>19. e[n] = Len(s) + 1
  BY <1>1, <1>6, <1>16
<1>20. Parted(A, s, sep, n, e, p)
  BY <1>6, <1>15, <1>16, <1>17, <1>18, <1>19 DEF Parted
<1> HIDE DEF n
<1>21. Split(s, sep) = [k \in 1 .. n |-> p[k]]
  BY <1>20, SplitIs
<1>22. [k \in 1 .. n |-> p[k]] = <<x, y, z>>
  BY DEF n, p
<1> QED BY <1>21, <1>22 DEF s, u, c

\* What escaping makes of the characters of s, one by one.
Pieces(s, special) == [i \in DOMAIN s |-> IF s[i] \in special THEN <<"\\", s[i]>> ELSE <<s[i]>>]

Separators == {",", "=", " "}

\* The receiver removes just the backslashes that escaping put in, and what was
\* escaped is guarded by them.  The last character of s must not be a backslash, or
\* it would guard the separator that comes after s.
LEMMA EscapedIs ==
  ASSUME NEW A, NEW s \in Seq(A)
  PROVE  /\ Escaped(s, Separators) \in Seq(A \cup {"\\"})
         /\ Unescaped(Escaped(s, Separators)) = s
         /\ \A c \in Separators : Guarded(Escaped(s, Separators), c)
         /\ Closed(s) => Closed(Escaped(s, Separators))
<1> DEFINE B == A \cup {"\\"}
           C == Seq(B)
           K == Separators
           P == Pieces(s, K)
           n == Len(s)
           F == FlattenSeq(P)
           e == [k \in 1 .. n |-> Ends(P, k)]
           T == {i \in DOMAIN F : ~ (F[i] = "\\" /\ i < Len(F) /\ F[i + 1] \in K)}
<1>16. "\\" \notin K
  <2>1. "\\" # "," /\ "\\" # "=" /\ "\\" # " "
    BY Zenon
  <2> QED BY <2>1, Zenon DEF Separators
<1>17. \A u : Unescaped(u) = Chosen(u, {i \in DOMAIN u : ~ (u[i] = "\\" /\ i < Len(u) /\ u[i + 1] \in K)})
  BY Zenon DEF Unescaped, Separators
<1> HIDE DEF K
<1>1. n \in Nat /\ DOMAIN s = 1 .. n /\ \A k \in 1 .. n : s[k] \in A
  OBVIOUS
<1>2. Escaped(s, K) = F
  BY Zenon DEF Escaped, Pieces
<1>3. \A k \in 1 .. n : P[k] = IF s[k] \in K THEN <<"\\", s[k]>> ELSE <<s[k]>>
  BY <1>1 DEF Pieces
<1>4. \A k \in 1 .. n : /\ P[k] \in C /\ Len(P[k]) \in 1 .. 2 /\ P[k][Len(P[k])] = s[k]
                        /\ s[k] \in K => Len(P[k]) = 2
                        /\ Len(P[k]) = 2 => s[k] \in K /\ P[k][1] = "\\"
                        /\ P[k][1] \notin K
  <2>1. ASSUME NEW c \in B
        PROVE  /\ <<"\\", c>> \in Seq(B) /\ Len(<<"\\", c>>) = 2 /\ <<"\\", c>>[2] = c /\ <<"\\", c>>[1] = "\\"
               /\ <<c>> \in Seq(B) /\ Len(<<c>>) = 1 /\ <<c>>[1] = c
    OBVIOUS
  <2> SUFFICES ASSUME NEW k \in 1 .. n
               PROVE  /\ P[k] \in C /\ Len(P[k]) \in 1 .. 2 /\ P[k][Len(P[k])] = s[k]
                      /\ s[k] \in K => Len(P[k]) = 2
                      /\ Len(P[k]) = 2 => s[k] \in K /\ P[k][1] = "\\"
                      /\ P[k][1] \notin K
    OBVIOUS
  <2>2. s[k] \in B
    BY <1>1
  <2> HIDE DEF P, n
  <2>3. CASE s[k] \in K
    <3>1. P[k] = <<"\\", s[k]>>
      BY <1>3, <2>3
    <3>2. P[k] \in C /\ Len(P[k]) = 2 /\ P[k][2] = s[k] /\ P[k][1] = "\\"
      BY <2>1, <2>2, <3>1
    <3> QED BY <1>16, <2>3, <3>2
  <2>4. CASE s[k] \notin K
    <3>1. P[k] = <<s[k]>>
      BY <1>3, <2>4
    <3>2. P[k] \in C /\ Len(P[k]) = 1 /\ P[k][1] = s[k]
      BY <2>1, <2>2, <3>1
    <3> QED BY <2>4, <3>2
  <2> QED BY <2>3, <2>4
<1>5. P \in Seq(C) /\ Len(P) = n
  <2>1. P = [k \in 1 .. n |-> P[k]]
    BY <1>1 DEF Pieces
  <2> HIDE DEF P, n, C
  <2> QED BY <1>1, <1>4, <2>1
<1> HIDE DEF P, n
<1>6. /\ F \in Seq(B) /\ Len(F) = Ends(P, n) /\ Ends(P, 0) = 0
      /\ \A k \in 0 .. n : Ends(P, k) \in 0 .. Len(F)
      /\ \A k \in 1 .. n : Ends(P, k) = Ends(P, k - 1) + Len(P[k])
      /\ \A k \in 1 .. n : \A i \in 1 .. Len(P[k]) : F[Ends(P, k - 1) + i] = P[k][i]
      /\ \A k, l \in 0 .. n : k <= l => Ends(P, k) <= Ends(P, l)
  BY <1>5, PartsIn
<1>7. \A i \in 1 .. Len(F) : \E k \in 1 .. n : i - Ends(P, k - 1) \in 1 .. Len(P[k])
  BY <1>5, PartOf
<1> HIDE DEF F
<1>8. Len(F) \in Nat /\ DOMAIN F = 1 .. Len(F)
  BY <1>6
<1>9. ASSUME NEW k \in 1 .. n
      PROVE  /\ Ends(P, k) \in 1 .. Len(F) /\ F[Ends(P, k)] = s[k] /\ Ends(P, k - 1) \in Nat
             /\ Ends(P, k) > Ends(P, k - 1)
             /\ s[k] \in K => Ends(P, k) > 1 /\ F[Ends(P, k) - 1] = "\\"
  <2> DEFINE a == Ends(P, k - 1)
             b == Ends(P, k)
             l == Len(P[k])
  <2>1. a \in Nat /\ b \in 0 .. Len(F) /\ b = a + l /\ l \in 1 .. 2
    <3>1. k - 1 \in 0 .. n /\ k \in 0 .. n
      BY <1>1
    <3> QED BY <1>4, <1>6, <3>1
  <2>2. F[a + l] = s[k] /\ (s[k] \in K => l = 2 /\ F[a + 1] = "\\")
    <3>5. \A v \in 1 .. 2 : v \in 1 .. v /\ 1 \in 1 .. v
      OBVIOUS
    <3>1. l \in 1 .. Len(P[k])
      BY <2>1, <3>5, Zenon
    <3>2. F[a + l] = P[k][l]
      BY <1>6, <3>1
    <3>3. 1 \in 1 .. Len(P[k])
      BY <2>1, <3>5, Zenon
    <3>4. F[a + 1] = P[k][1]
      BY <1>6, <3>3
    <3> QED BY <1>4, <3>2, <3>4
  <2> HIDE DEF a, b, l
  <2>3. b \in 1 .. Len(F) /\ b > a
    BY <1>8, <2>1
  <2>4. F[b] = s[k]
    BY <2>1, <2>2
  <2>5. s[k] \in K => b > 1 /\ F[b - 1] = "\\"
    <3> SUFFICES ASSUME s[k] \in K PROVE b > 1 /\ F[b - 1] = "\\"
      OBVIOUS
    <3>1. b - 1 = a + 1 /\ b > 1
      BY <2>1, <2>2
    <3> QED BY <2>2, <3>1
  <2> QED BY <2>1, <2>3, <2>4, <2>5 DEF a, b
<1>18. ASSUME NEW k \in 1 .. n, Ends(P, k) < Len(F) PROVE F[Ends(P, k) + 1] \notin K
  <2> DEFINE m == k + 1
  <2>1. k # n
    BY <1>6, <1>8, <1>18
  <2>2. m \in 1 .. n /\ m - 1 = k
    BY <1>1, <2>1
  <2> HIDE DEF m
  <2>3. Len(P[m]) \in 1 .. 2
    BY <1>4, <2>2
  <2>4. 1 \in 1 .. Len(P[m])
    <3>1. \A v \in 1 .. 2 : 1 \in 1 .. v
      OBVIOUS
    <3> QED BY <2>3, <3>1, Zenon
  <2>5. F[Ends(P, m - 1) + 1] = P[m][1]
    BY <1>6, <2>2, <2>4
  <2> QED BY <1>4, <2>2, <2>5
<1>10. ASSUME NEW i \in 1 .. Len(F), ~ (F[i] = "\\" /\ i < Len(F) /\ F[i + 1] \in K)
       PROVE  \E k \in 1 .. n : i = Ends(P, k)
  <2>1. PICK k \in 1 .. n : i - Ends(P, k - 1) \in 1 .. Len(P[k])
    BY <1>7
  <2> DEFINE a == Ends(P, k - 1)
             b == Ends(P, k)
             l == Len(P[k])
             q == i - a
  <2>2. a \in Nat /\ b = a + l /\ l \in 1 .. 2
    <3>1. k - 1 \in 0 .. n /\ k \in 0 .. n
      BY <1>1
    <3> QED BY <1>4, <1>6, <3>1
  <2>3. q \in 1 .. l /\ a + q = i
    BY <1>8, <2>1, <2>2
  <2>4. F[a + q] = P[k][q]
    BY <1>6, <2>3
  <2>5. l = 2 => P[k][1] = "\\" /\ s[k] \in K
    BY <1>4
  <2>8. b \in 1 .. Len(F) /\ F[b] = s[k]
    BY <1>9
  <2> HIDE DEF a, b, l, q
  <2>6. q = l
    <3> SUFFICES ASSUME q # l PROVE FALSE
      OBVIOUS
    <3>1. q = 1 /\ l = 2
      BY <2>2, <2>3
    <3>2. i + 1 = b
      BY <1>8, <2>2, <2>3, <3>1
    <3>3. F[i] = "\\" /\ F[i + 1] \in K
      BY <2>3, <2>4, <2>5, <2>8, <3>1, <3>2
    <3>4. i < Len(F)
      BY <1>8, <2>8, <3>2
    <3> QED BY <1>10, <3>3, <3>4
  <2>7. i = b
    BY <2>2, <2>3, <2>6
  <2> QED BY <2>7 DEF b
<1>11. T \in SUBSET (1 .. Len(F)) /\ \A i : i \in T <=> i \in 1 .. Len(F) /\ ~ (F[i] = "\\" /\ i < Len(F) /\ F[i + 1] \in K)
  BY <1>8
<1> HIDE DEF T
<1>12. Cardinality(T) = n /\ Ascending(T) = e
  <2>1. e \in [1 .. n -> T]
    <3> SUFFICES ASSUME NEW k \in 1 .. n PROVE Ends(P, k) \in T
      OBVIOUS
    <3>1. Ends(P, k) \in 1 .. Len(F)
      BY <1>9
    <3>2. Ends(P, k) < Len(F) => F[Ends(P, k) + 1] \notin K
      BY <1>18
    <3> QED BY <1>11, <3>1, <3>2
  <2>2. \A x \in T : \E k \in 1 .. n : e[k] = x
    BY <1>10, <1>11
  <2>3. ASSUME NEW k \in 1 .. n, NEW l \in 1 .. n, k < l PROVE e[k] < e[l]
    <3> DEFINE a == Ends(P, k)
               b == Ends(P, l - 1)
               c == Ends(P, l)
    <3>1. k \in 0 .. n /\ l - 1 \in 0 .. n /\ l \in 0 .. n /\ k <= l - 1
      BY <1>1, <2>3
    <3>2. a <= b /\ a \in 0 .. Len(F) /\ c \in 0 .. Len(F) /\ b \in 0 .. Len(F)
      BY <1>6, <3>1
    <3>3. c > b
      BY <1>9
    <3> HIDE DEF a, b, c
    <3>4. a < c
      BY <1>8, <3>2, <3>3
    <3> QED BY <3>4 DEF a, c
  <2>4. IsFiniteSet(T)
    <3>1. IsFiniteSet(1 .. Len(F))
      BY <1>8, FS_Interval
    <3> QED BY <1>11, <3>1, FS_Subset
  <2>5. T \in SUBSET Int
    BY <1>8, <1>11
  <2>6. \A k, l \in 1 .. n : k < l => e[k] < e[l]
    BY <2>3
  <2> HIDE DEF e
  <2> QED BY <1>1, <2>1, <2>2, <2>4, <2>5, <2>6, AscendingUnique
<1>13. Unescaped(F) = s
  <2>1. Unescaped(F) = [k \in 1 .. n |-> F[e[k]]]
    <3>1. Unescaped(F) = Chosen(F, T)
      BY <1>17, Zenon DEF T
    <3> HIDE DEF e
    <3> QED BY <1>12, <3>1 DEF Chosen
  <2>2. \A k \in 1 .. n : F[e[k]] = s[k]
    BY <1>9
  <2>3. s = [k \in 1 .. n |-> s[k]]
    BY <1>1
  <2> HIDE DEF e
  <2> QED BY <2>1, <2>2, <2>3
<1>14. ASSUME NEW c \in K PROVE Guarded(F, c)
  <2> SUFFICES ASSUME NEW i \in 1 .. Len(F), F[i] = c PROVE i > 1 /\ F[i - 1] = "\\"
    BY DEF Guarded
  <2>1. PICK k \in 1 .. n : i = Ends(P, k)
    BY <1>10, <1>14, <1>16
  <2> QED BY <1>9, <2>1
<1>15. ASSUME Closed(s) PROVE Closed(F)
  <2> SUFFICES ASSUME Len(F) > 0 PROVE F[Len(F)] # "\\"
    BY DEF Closed
  <2>1. n # 0
    BY <1>6
  <2>2. n \in 1 .. n
    BY <1>1, <2>1
  <2>3. s[n] # "\\"
    BY <1>1, <1>15, <2>1 DEF Closed
  <2> QED BY <1>6, <1>9, <2>2, <2>3
<1> QED BY <1>2, <1>6, <1>13, <1>14, <1>15 DEF B, K

\* A single character that is not special.
LEMMA EscapedSingle ==
  ASSUME NEW x, x # "\\", NEW special, x \notin special
  PROVE  Escaped(<<x>>, special) = <<x>>
<1> DEFINE P == Pieces(<<x>>, special)
           F == FlattenSeq(P)
<1>1. P = << <<x>> >>
  BY DEF Pieces
<1>2. P \in Seq(Seq({x})) /\ Len(P) = 1 /\ P[1] = <<x>> /\ Len(<<x>>) = 1 /\ <<x>>[1] = x
  <2> DEFINE y == <<x>>
             Y == Seq({x})
  <2>1. y \in Y /\ Len(y) = 1 /\ y[1] = x
    OBVIOUS
  <2>2. P = <<y>>
    BY <1>1
  <2> HIDE DEF y, Y, P
  <2>3. P \in Seq(Y) /\ Len(P) = 1 /\ P[1] = y
    BY <2>1, <2>2
  <2> QED BY <2>1, <2>3 DEF y, Y
<1> HIDE DEF P
<1>3. /\ F \in Seq({x}) /\ Len(F) = Ends(P, 1) /\ Ends(P, 0) = 0
      /\ \A k \in 1 .. 1 : Ends(P, k) = Ends(P, k - 1) + Len(P[k])
      /\ \A k \in 1 .. 1 : \A i \in 1 .. Len(P[k]) : F[Ends(P, k - 1) + i] = P[k][i]
  <2> DEFINE A == {x}
  <2>1. P \in Seq(Seq(A)) /\ Len(P) = 1
    BY <1>2
  <2> HIDE DEF A
  <2>2. /\ FlattenSeq(P) \in Seq(A) /\ Len(FlattenSeq(P)) = Ends(P, Len(P)) /\ Ends(P, 0) = 0
        /\ \A k \in 1 .. Len(P) : Ends(P, k) = Ends(P, k - 1) + Len(P[k])
        /\ \A k \in 1 .. Len(P) : \A i \in 1 .. Len(P[k]) :
             FlattenSeq(P)[Ends(P, k - 1) + i] = P[k][i]
    BY <2>1, PartsIn
  <2> QED BY <2>1, <2>2, Zenon DEF A, F
<1> HIDE DEF F
<1>4. Len(F) = 1 /\ F[1] = x
  <2>1. 1 \in 1 .. 1 /\ 1 - 1 = 0 /\ 0 + 1 = 1
    OBVIOUS
  <2>2. Ends(P, 1) = 0 + 1
    BY <1>2, <1>3, <2>1
  <2>3. F[0 + 1] = x
    BY <1>2, <1>3, <2>1
  <2> QED BY <1>3, <2>1, <2>2, <2>3
<1>5. F = <<x>>
  BY <1>3, <1>4
<1> QED BY <1>5, Zenon DEF Escaped, Pieces, P, F

LEMMA UnescapedSingle ==
  ASSUME NEW x, x # "\\", x \notin Separators
  PROVE  Unescaped(<<x>>) = <<x>>
<1>1. <<x>> \in Seq({x})
  OBVIOUS
<1>2. Escaped(<<x>>, Separators) = <<x>>
  BY EscapedSingle
<1>3. Unescaped(Escaped(<<x>>, Separators)) = <<x>>
  BY <1>1, EscapedIs
<1> QED BY <1>2, <1>3, Zenon

-----------------------------------------------------------------------------
(* Decimals.                                                                *)

Digits == {"0", "1", "2", "3", "4", "5", "6", "7", "8", "9"}

LEMMA DigitIs ==
  /\ \A k \in 0 .. 9 : Digit[k + 1] \in Digits
  /\ \A k, l \in 0 .. 9 : Digit[k + 1] = Digit[l + 1] => k = l
<1>1. \A k \in 0 .. 9 : k = 0 \/ k = 1 \/ k = 2 \/ k = 3 \/ k = 4 \/ k = 5 \/ k = 6 \/ k = 7 \/ k = 8 \/ k = 9
  OBVIOUS
<1>2. /\ Digit[0 + 1] = "0" /\ Digit[1 + 1] = "1" /\ Digit[2 + 1] = "2" /\ Digit[3 + 1] = "3"
      /\ Digit[4 + 1] = "4" /\ Digit[5 + 1] = "5" /\ Digit[6 + 1] = "6" /\ Digit[7 + 1] = "7"
      /\ Digit[8 + 1] = "8" /\ Digit[9 + 1] = "9"
  BY DEF Digit
<1>3. \A k \in 0 .. 9 : Digit[k + 1] \in Digits
  BY <1>1, <1>2, Zenon DEF Digits
<1>4. ASSUME NEW k \in 0 .. 9, NEW l \in 0 .. 9, Digit[k + 1] = Digit[l + 1], k # l PROVE FALSE
  BY <1>1, <1>2, <1>4
<1> QED BY <1>3, <1>4

LEMMA DecimalIs ==
  ASSUME NEW n \in Nat
  PROVE  /\ Decimal(n) \in Seq(Digits) /\ Len(Decimal(n)) > 0
         /\ Decimal(n) = IF n < 10 THEN <<Digit[n + 1]>> ELSE Append(Decimal(n \div 10), Digit[(n % 10) + 1])
<1> DEFINE S == Seq(Digits)
           Q(f) == f = [u \in Nat |-> IF u < 10 THEN <<Digit[u + 1]>>
                                      ELSE Append(f[u \div 10], Digit[(u % 10) + 1])]
           h == CHOOSE f : Q(f)
           d(u) == Digit[(u % 10) + 1]
           z == <<Digit[1]>>
           j == [u \in Nat |-> u \div 10]
           g == [u \in Nat |-> [r \in S |-> IF u < 10 THEN <<d(u)>> ELSE Append(r, d(u))]]
<1>1. \A u \in Nat : /\ u \div 10 \in Nat /\ u % 10 \in 0 .. 9 /\ (u # 0 => u \div 10 < u)
                     /\ u < 10 => u % 10 = u
  OBVIOUS
<1>2. \A u \in Nat : d(u) \in Digits
  BY <1>1, DigitIs
<1>3. z \in S /\ z = <<d(0)>>
  <2>1. 0 % 10 = 0 /\ 0 + 1 = 1 /\ 0 \in 0 .. 9
    OBVIOUS
  <2>2. Digit[1] \in Digits
    BY <2>1, DigitIs, Zenon
  <2> QED BY <2>1, <2>2
<1>4. \A u \in Nat : \A r \in S : <<d(u)>> \in S /\ Append(r, d(u)) \in S
  <2> HIDE DEF d
  <2> QED BY <1>2
<1>5. \E f : Solves(f, S, z, j, g)
  <2>1. g \in [Nat -> [S -> S]]
    <3> HIDE DEF S, d
    <3> QED BY <1>4
  <2>2. j \in [Nat -> Nat] /\ \A i \in Nat \ {0} : j[i] < i
    BY <1>1
  <2> HIDE DEF g, j, S, z
  <2>3. Grounded(S, z, j, g)
    BY <1>3, <2>1, <2>2 DEF Grounded
  <2> QED BY <2>3, Recursion
<1>6. PICK f : Solves(f, S, z, j, g)
  BY <1>5, Zenon
<1>7. /\ f \in [Nat -> S]
      /\ \A u \in Nat : f[u] = IF u < 10 THEN <<d(u)>> ELSE Append(f[u \div 10], d(u))
  <2>1. f \in [Nat -> S] /\ \A i \in Nat : f[i] = IF i = 0 THEN z ELSE g[i][f[j[i]]]
    <3> HIDE DEF g, j, S, z
    <3> QED BY <1>6 DEF Solves
  <2>2. ASSUME NEW u \in Nat PROVE f[u] = IF u < 10 THEN <<d(u)>> ELSE Append(f[u \div 10], d(u))
    <3>1. u \div 10 \in Nat /\ j[u] = u \div 10
      BY <1>1
    <3>2. f[u \div 10] \in S
      <4> HIDE DEF S
      <4> QED BY <2>1, <3>1
    <3>3. g[u][f[u \div 10]] = IF u < 10 THEN <<d(u)>> ELSE Append(f[u \div 10], d(u))
      <4> HIDE DEF S, d
      <4> QED BY <3>2
    <3>4. f[u] = IF u = 0 THEN z ELSE g[u][f[u \div 10]]
      <4> HIDE DEF g, S, z
      <4>1. f[u] = IF u = 0 THEN z ELSE g[u][f[j[u]]]
        <5> HIDE DEF j
        <5> QED BY <2>1
      <4> HIDE DEF j
      <4> QED BY <3>1, <4>1, Zenon
    <3> HIDE DEF g, S, z, d
    <3>5. CASE u = 0
      <4>1. 0 < 10
        OBVIOUS
      <4>2. f[0] = <<d(0)>>
        BY <1>3, <3>4, <3>5
      <4> QED BY <3>5, <4>1, <4>2
    <3>6. CASE u # 0
      BY <3>3, <3>4, <3>6
    <3> QED BY <3>5, <3>6
  <2> HIDE DEF g, j, S, z, d
  <2> QED BY <2>1, <2>2
<1>8. \A u \in Nat : u < 10 => d(u) = Digit[u + 1]
  BY <1>1
<1>9. Q(f)
  <2>1. \A u \in Nat : f[u] = IF u < 10 THEN <<Digit[u + 1]>> ELSE Append(f[u \div 10], Digit[(u % 10) + 1])
    <3> SUFFICES ASSUME NEW u \in Nat
                 PROVE  f[u] = IF u < 10 THEN <<Digit[u + 1]>> ELSE Append(f[u \div 10], d(u))
      OBVIOUS
    <3> HIDE DEF d, S
    <3> QED BY <1>7, <1>8
  <2>2. f = [u \in Nat |-> f[u]]
    <3> HIDE DEF S
    <3> QED BY <1>7
  <2> QED BY <2>1, <2>2
<1>10. Q(h)
  <2> HIDE DEF Q
  <2> QED BY <1>9, Zenon
<1>11. \A u \in Nat : Decimal(u) = h[u]
  BY Zenon DEF Decimal
<1>12. \A u \in Nat : h[u] = IF u < 10 THEN <<Digit[u + 1]>> ELSE Append(h[u \div 10], d(u))
  <2>1. \A u \in Nat : h[u] = IF u < 10 THEN <<Digit[u + 1]>> ELSE Append(h[u \div 10], Digit[(u % 10) + 1])
    BY <1>10
  <2> QED BY <2>1
<1> HIDE DEF h, g, j, z, Q
<1>13. \A u \in Nat : h[u] \in S /\ Len(h[u]) > 0
  <2> DEFINE T == {u \in Nat : h[u] \in S /\ Len(h[u]) > 0}
  <2>1. ASSUME NEW u \in Nat, 0 .. u - 1 \subseteq T PROVE u \in T
    <3>1. CASE u < 10
      <4>1. h[u] = <<d(u)>> /\ d(u) \in Digits
        <5> HIDE DEF d
        <5> QED BY <1>2, <1>8, <1>12, <3>1
      <4> HIDE DEF d
      <4>2. h[u] \in S /\ Len(h[u]) > 0
        BY <4>1
      <4> QED BY <4>2
    <3>2. CASE ~ (u < 10)
      <4>1. u \div 10 \in 0 .. u - 1
        BY <1>1, <3>2
      <4>2. h[u \div 10] \in S
        BY <2>1, <4>1
      <4>3. h[u] = Append(h[u \div 10], d(u)) /\ d(u) \in Digits
        <5> HIDE DEF d
        <5> QED BY <1>2, <1>12, <3>2
      <4> HIDE DEF d
      <4>4. \A r \in S : \A c \in Digits : Append(r, c) \in S /\ Len(Append(r, c)) > 0
        OBVIOUS
      <4>5. h[u] \in S /\ Len(h[u]) > 0
        <5> HIDE DEF S
        <5> QED BY <4>2, <4>3, <4>4
      <4> QED BY <4>5
    <3> QED BY <3>1, <3>2
  <2>2. T = Nat
    <3>1. T \in SUBSET Nat
      OBVIOUS
    <3> HIDE DEF T
    <3> QED BY <2>1, <3>1, StrongInduction
  <2> QED BY <2>2
<1>14. n \div 10 \in Nat
  BY <1>1
<1> HIDE DEF S
<1> QED BY <1>11, <1>12, <1>13, <1>14 DEF S

LEMMA AppendDiffer ==
  ASSUME NEW A, NEW s \in Seq(A), NEW t \in Seq(A), NEW c \in A, NEW d \in A, Append(s, c) = Append(t, d)
  PROVE  s = t /\ c = d
<1> DEFINE x == Append(s, c)
           y == Append(t, d)
<1>1. /\ Len(x) = Len(s) + 1 /\ x[Len(s) + 1] = c /\ Len(s) \in Nat
      /\ \A i \in 1 .. Len(s) : x[i] = s[i]
  OBVIOUS
<1>2. /\ Len(y) = Len(t) + 1 /\ y[Len(t) + 1] = d /\ Len(t) \in Nat
      /\ \A i \in 1 .. Len(t) : y[i] = t[i]
  OBVIOUS
<1>3. x = y
  OBVIOUS
<1> HIDE DEF x, y
<1>4. Len(s) = Len(t)
  BY <1>1, <1>2, <1>3
<1>5. c = d
  BY <1>1, <1>2, <1>3, <1>4
<1>6. \A i \in 1 .. Len(s) : s[i] = t[i]
  BY <1>1, <1>2, <1>3, <1>4
<1>7. s = t
  BY <1>4, <1>6, SeqEqual
<1> QED BY <1>5, <1>7

\* Two numbers are not written alike.
LEMMA DecimalsDiffer ==
  ASSUME NEW a \in Nat, NEW b \in Nat, Decimal(a) = Decimal(b)
  PROVE  a = b
<1> DEFINE T == {n \in Nat : \A m \in Nat : Decimal(n) = Decimal(m) => n = m}
           d(u) == Digit[(u % 10) + 1]
           q(u) == Decimal(u \div 10)
<1>1. \A u \in Nat : /\ u \div 10 \in Nat /\ u % 10 \in 0 .. 9
                     /\ u < 10 => u % 10 = u
                     /\ u = 10 * (u \div 10) + (u % 10)
  OBVIOUS
<1>2. \A u \in Nat : ~ (u < 10) => u \div 10 \in 0 .. u - 1
  OBVIOUS
<1>3. \A u \in Nat : /\ d(u) \in Digits /\ q(u) \in Seq(Digits) /\ Len(q(u)) > 0
                     /\ Decimal(u) = IF u < 10 THEN <<d(u)>> ELSE Append(q(u), d(u))
  <2> SUFFICES ASSUME NEW u \in Nat
               PROVE  /\ d(u) \in Digits /\ q(u) \in Seq(Digits) /\ Len(q(u)) > 0
                      /\ Decimal(u) = IF u < 10 THEN <<d(u)>> ELSE Append(q(u), d(u))
    OBVIOUS
  <2>1. u \div 10 \in Nat /\ u % 10 \in 0 .. 9
    BY <1>1
  <2>2. d(u) \in Digits
    BY <2>1, DigitIs
  <2>3. q(u) \in Seq(Digits) /\ Len(q(u)) > 0
    BY <2>1, DecimalIs
  <2>4. Decimal(u) = IF u < 10 THEN <<Digit[u + 1]>> ELSE Append(q(u), d(u))
    BY DecimalIs
  <2>5. u < 10 => d(u) = Digit[u + 1]
    BY <1>1
  <2> HIDE DEF d, q
  <2> QED BY <2>2, <2>3, <2>4, <2>5
<1>4. \A u, v \in Nat : d(u) = d(v) => u % 10 = v % 10
  BY <1>1, DigitIs
<1>5. ASSUME NEW n \in Nat, 0 .. n - 1 \subseteq T PROVE n \in T
  <2> SUFFICES ASSUME NEW m \in Nat, Decimal(n) = Decimal(m) PROVE n = m
    OBVIOUS
  <2>1. CASE n < 10 /\ m < 10
    <3>1. <<d(n)>> = <<d(m)>>
      <4> HIDE DEF d, q
      <4> QED BY <1>3, <2>1
    <3>2. d(n) = d(m)
      <4> HIDE DEF d
      <4> QED BY <3>1
    <3>3. n % 10 = m % 10
      <4> HIDE DEF d
      <4> QED BY <1>4, <3>2
    <3> QED BY <1>1, <2>1, <3>3
  <2>2. CASE ~ (n < 10) /\ ~ (m < 10)
    <3>1. Append(q(n), d(n)) = Append(q(m), d(m))
      <4> HIDE DEF d, q
      <4> QED BY <1>3, <2>2
    <3>2. q(n) = q(m) /\ d(n) = d(m)
      <4>1. q(n) \in Seq(Digits) /\ q(m) \in Seq(Digits) /\ d(n) \in Digits /\ d(m) \in Digits
        <5> HIDE DEF d, q
        <5> QED BY <1>3
      <4> HIDE DEF d, q
      <4> QED BY <3>1, <4>1, AppendDiffer
    <3>3. n % 10 = m % 10
      <4> HIDE DEF d
      <4> QED BY <1>4, <3>2
    <3>4. n \div 10 = m \div 10
      <4>1. n \div 10 \in T /\ m \div 10 \in Nat
        <5> HIDE DEF T
        <5> QED BY <1>1, <1>2, <1>5, <2>2
      <4>2. Decimal(n \div 10) = Decimal(m \div 10)
        BY <3>2
      <4> QED BY <4>1, <4>2
    <3> DEFINE x == n \div 10
               y == n % 10
    <3>5. n = 10 * x + y /\ m = 10 * x + y
      <4>1. m = 10 * (m \div 10) + (m % 10) /\ n = 10 * (n \div 10) + (n % 10)
        BY <1>1
      <4> QED BY <3>3, <3>4, <4>1, Zenon
    <3> HIDE DEF x, y
    <3> QED BY <3>5
  <2>3. ASSUME NEW u \in Nat, NEW v \in Nat, u < 10, ~ (v < 10), Decimal(u) = Decimal(v) PROVE FALSE
    <3>1. <<d(u)>> = Append(q(v), d(v))
      <4> HIDE DEF d, q
      <4> QED BY <1>3, <2>3
    <3>2. q(v) \in Seq(Digits) /\ Len(q(v)) > 0
      <4> HIDE DEF d, q
      <4> QED BY <1>3
    <3> HIDE DEF d, q
    <3>3. Len(Append(q(v), d(v))) = Len(q(v)) + 1 /\ Len(<<d(u)>>) = 1 /\ Len(q(v)) \in Nat
      BY <3>2
    <3> QED BY <3>1, <3>2, <3>3
  <2>4. CASE n < 10 /\ ~ (m < 10)
    BY <2>3, <2>4
  <2>5. CASE ~ (n < 10) /\ m < 10
    BY <2>3, <2>5
  <2> QED BY <2>1, <2>2, <2>4, <2>5
<1>6. T = Nat
  <2>1. T \in SUBSET Nat
    OBVIOUS
  <2> HIDE DEF T
  <2> QED BY <1>5, <2>1, StrongInduction
<1>7. a \in T
  <2> HIDE DEF T
  <2> QED BY <1>6
<1> QED BY <1>7

-----------------------------------------------------------------------------
(* The line of a point, and what InfluxDB makes of it.                      *)

LineChar == Character \cup {"\\", ",", "=", " ", "rhelmon", "host", "localhost", "metric", "value"}
                      \cup Digits

HostText == <<"host">> \o (<<"=">> \o <<"localhost">>)
MetricText(p) == <<"metric">> \o (<<"=">> \o escapeTagValue(p.metric))
TagText(p) == <<"rhelmon">> \o (<<",">> \o (HostText \o (<<",">> \o MetricText(p))))
ValueText(p) == <<"value", "=", formatFloat(p.value)>>
Text(p) == TagText(p) \o (<<" ">> \o (ValueText(p) \o (<<" ">> \o Decimal(p.ts))))

LEMMA FlattenTwo ==
  ASSUME NEW A, NEW x \in Seq(A), NEW y \in Seq(A)
  PROVE  FlattenSeq(<<x, y>>) = x \o y
<1> DEFINE Y == Seq(A)
           s == <<x, y>>
<1>1. <<>> \in Y /\ x \in Y /\ y \in Y
  OBVIOUS
<1>2. <<>> \o x = x
  OBVIOUS
<1> HIDE DEF Y
<1>3. s \in Seq(Y) /\ Len(s) = 2 /\ s[1] = x /\ s[2] = y
  BY <1>1
<1> HIDE DEF s
<1>4. /\ Joined(s)[0] = <<>>
      /\ \A k \in 1 .. 2 : Joined(s)[k] = Joined(s)[k - 1] \o s[k]
      /\ FlattenSeq(s) = Joined(s)[2]
  <2>1. /\ Joined(s)[0] = <<>>
        /\ \A k \in 1 .. Len(s) : Joined(s)[k] = Joined(s)[k - 1] \o s[k]
        /\ FlattenSeq(s) = Joined(s)[Len(s)]
    BY <1>3, JoinedIs DEF Y
  <2> QED BY <1>3, <2>1, Zenon
<1>5. Joined(s)[1] = <<>> \o x /\ Joined(s)[2] = Joined(s)[1] \o y
  <2>1. 1 \in 1 .. 2 /\ 2 \in 1 .. 2 /\ 1 - 1 = 0 /\ 2 - 1 = 1
    OBVIOUS
  <2> QED BY <1>3, <1>4, <2>1, Zenon
<1>6. FlattenSeq(s) = x \o y
  BY <1>2, <1>4, <1>5, Zenon
<1> QED BY <1>6 DEF s

\* What is guarded, or not protected, put together.
LEMMA GuardedConcat ==
  ASSUME NEW A, NEW x \in Seq(A), NEW y \in Seq(A), NEW c, Guarded(x, c), Guarded(y, c)
  PROVE  Guarded(x \o y, c)
<1> DEFINE z == x \o y
           a == Len(x)
           b == Len(y)
<1>1. /\ a \in Nat /\ b \in Nat /\ Len(z) = a + b
      /\ \A i \in 1 .. a : z[i] = x[i]
      /\ \A i \in 1 .. b : z[a + i] = y[i]
  BY ConcatIs
<1>2. /\ \A i \in 1 .. a : x[i] = c => i > 1 /\ x[i - 1] = "\\"
      /\ \A i \in 1 .. b : y[i] = c => i > 1 /\ y[i - 1] = "\\"
  BY DEF Guarded
<1> HIDE DEF z, a, b
<1>3. ASSUME NEW i \in 1 .. Len(z), z[i] = c PROVE i > 1 /\ z[i - 1] = "\\"
  <2>1. CASE i \in 1 .. a
    <3>1. z[i] = x[i] /\ x[i] = c /\ i > 1 /\ x[i - 1] = "\\"
      BY <1>1, <1>2, <1>3, <2>1
    <3>2. i - 1 \in 1 .. a
      BY <1>1, <2>1, <3>1
    <3> QED BY <1>1, <3>1, <3>2
  <2>2. CASE i \notin 1 .. a
    <3> DEFINE k == i - a
               j == k - 1
    <3>1. k \in 1 .. b /\ a + k = i
      BY <1>1, <2>2
    <3> HIDE DEF k
    <3>2. y[k] = c
      BY <1>1, <1>3, <3>1
    <3>3. k > 1 /\ y[j] = "\\"
      BY <1>2, <3>1, <3>2
    <3>4. j \in 1 .. b /\ a + j = i - 1 /\ i > 1
      BY <1>1, <3>1, <3>3
    <3> HIDE DEF j
    <3>5. z[a + j] = y[j]
      BY <1>1, <3>4
    <3> QED BY <3>3, <3>4, <3>5
  <2> QED BY <2>1, <2>2
<1> QED BY <1>3 DEF Guarded, z

LEMMA ClosedConcat ==
  ASSUME NEW A, NEW x \in Seq(A), NEW y \in Seq(A), Closed(x), Closed(y)
  PROVE  Closed(x \o y)
<1> DEFINE z == x \o y
           a == Len(x)
           b == Len(y)
<1>1. /\ a \in Nat /\ b \in Nat /\ Len(z) = a + b
      /\ \A i \in 1 .. a : z[i] = x[i]
      /\ \A i \in 1 .. b : z[a + i] = y[i]
  BY ConcatIs
<1>2. (a > 0 => x[a] # "\\") /\ (b > 0 => y[b] # "\\")
  BY DEF Closed
<1> HIDE DEF z, a, b
<1>3. Len(z) > 0 => z[Len(z)] # "\\"
  <2>1. CASE b = 0
    BY <1>1, <1>2, <2>1
  <2>2. CASE b # 0
    <3>1. b \in 1 .. b /\ b > 0
      BY <1>1, <2>2
    <3>2. z[a + b] = y[b]
      BY <1>1, <3>1
    <3> QED BY <1>1, <1>2, <3>1, <3>2
  <2> QED BY <2>1, <2>2
<1> QED BY <1>3 DEF Closed, z

\* A sequence in which c does not occur.
LEMMA GuardedWithout ==
  ASSUME NEW A, NEW x \in Seq(A), NEW c, \A i \in 1 .. Len(x) : x[i] # c
  PROVE  Guarded(x, c)
  BY DEF Guarded

LEMMA LineCharIs ==
  /\ Character \subseteq LineChar /\ Digits \subseteq LineChar
  /\ {"\\", ",", "=", " ", "rhelmon", "host", "localhost", "metric", "value"} \subseteq LineChar
  /\ "\n" \notin LineChar
  /\ "\\" \notin Digits /\ " " \notin Digits
<1>1. "\n" \notin Character
  BY CharacterAssumption
<1>2. "\n" \notin Digits /\ "\\" \notin Digits /\ " " \notin Digits
  BY DEF Digits
<1> QED BY <1>1, <1>2 DEF LineChar

LEMMA ThreeChars ==
  ASSUME NEW A, NEW f \in A, NEW g \in A, NEW h \in A, NEW x, x # f, x # g, x # h
  PROVE  <<g, h, f>> \in Seq(A) /\ Guarded(<<g, h, f>>, x)
  BY DEF Guarded

\* The words in a line, and the value.
LEMMA WordsOfLine ==
  /\ \A x \in LineChar : <<x>> \in Seq(LineChar)
  /\ HostText \in Seq(LineChar)
  /\ \A c \in {" ", ",", "="} :
       /\ Guarded(<<"rhelmon">>, c) /\ Guarded(<<"host">>, c) /\ Guarded(<<"localhost">>, c)
       /\ Guarded(<<"metric">>, c)
  /\ Closed(<<"rhelmon">>) /\ Closed(<<"host">>) /\ Closed(<<"localhost">>) /\ Closed(<<"metric">>)
  /\ Closed(<<"=">>) /\ Closed(<<",">>)
  /\ \A c \in {" ", ","} : Guarded(HostText, c)
  /\ Closed(HostText)
<1>1. \A x \in LineChar : <<x>> \in Seq(LineChar)
  OBVIOUS
<1>2. \A x, c : x # c => Guarded(<<x>>, c)
  BY DEF Guarded
<1>3. \A x : x # "\\" => Closed(<<x>>)
  BY DEF Closed
<1>14. ASSUME NEW x, x \in {"rhelmon", "host", "localhost", "metric"}
       PROVE  Guarded(<<x>>, " ") /\ Guarded(<<x>>, ",") /\ Guarded(<<x>>, "=") /\ Closed(<<x>>)
  <2>1. x # " " /\ x # "," /\ x # "=" /\ x # "\\"
    BY <1>14, Zenon
  <2> QED BY <1>2, <1>3, <2>1, Zenon
<1>15. Guarded(<<"=">>, " ") /\ Guarded(<<"=">>, ",") /\ Closed(<<"=">>) /\ Closed(<<",">>)
  <2>1. "=" # " " /\ "=" # "," /\ "=" # "\\" /\ "," # "\\"
    BY Zenon
  <2> QED BY <1>2, <1>3, <2>1, Zenon
<1>4. {"=", "host", "localhost"} \subseteq LineChar
  BY LineCharIs
<1> DEFINE h == <<"host">>
           q == <<"=">>
           l == <<"localhost">>
<1>5. h \in Seq(LineChar) /\ q \in Seq(LineChar) /\ l \in Seq(LineChar)
  BY <1>1, <1>4
<1>6. /\ \A c \in {" ", ","} : Guarded(h, c) /\ Guarded(q, c) /\ Guarded(l, c)
      /\ Closed(h) /\ Closed(q) /\ Closed(l)
  BY <1>14, <1>15, Zenon
<1> HIDE DEF h, q, l
<1>7. \A r, t \in Seq(LineChar) : r \o t \in Seq(LineChar)
  BY ConcatIs
<1>8. q \o l \in Seq(LineChar) /\ h \o (q \o l) \in Seq(LineChar)
  BY <1>5, <1>7, Zenon
<1>9. \A c \in {" ", ","} : Guarded(h \o (q \o l), c)
  <2> SUFFICES ASSUME NEW c \in {" ", ","} PROVE Guarded(h \o (q \o l), c)
    OBVIOUS
  <2>1. Guarded(q \o l, c)
    BY <1>5, <1>6, GuardedConcat
  <2> QED BY <1>5, <1>6, <1>8, <2>1, GuardedConcat
<1>10. Closed(h \o (q \o l))
  <2>1. Closed(q \o l)
    BY <1>5, <1>6, ClosedConcat
  <2> QED BY <1>5, <1>6, <1>8, <2>1, ClosedConcat
<1>11. HostText = h \o (q \o l)
  BY DEF HostText, h, q, l
<1>12. \A c \in {" ", ",", "="} :
         /\ Guarded(<<"rhelmon">>, c) /\ Guarded(<<"host">>, c) /\ Guarded(<<"localhost">>, c)
         /\ Guarded(<<"metric">>, c)
  BY <1>14, Zenon
<1>13. /\ Closed(<<"rhelmon">>) /\ Closed(<<"host">>) /\ Closed(<<"localhost">>)
       /\ Closed(<<"metric">>) /\ Closed(<<"=">>) /\ Closed(<<",">>)
  BY <1>14, <1>15, Zenon
<1> QED BY <1>1, <1>8, <1>9, <1>10, <1>11, <1>12, <1>13

\* The parts of the line of a point.
LEMMA PartsOfLine ==
  ASSUME NEW p \in BatchPoint
  PROVE  /\ escapeTagValue(p.metric) \in Seq(LineChar)
         /\ MetricText(p) \in Seq(LineChar) /\ TagText(p) \in Seq(LineChar)
         /\ ValueText(p) \in Seq(LineChar) /\ Decimal(p.ts) \in Seq(LineChar)
         /\ Text(p) \in Seq(LineChar)
         /\ Unescaped(escapeTagValue(p.metric)) = p.metric
         /\ \A c \in {" ", ",", "="} : Guarded(escapeTagValue(p.metric), c)
         /\ Guarded(MetricText(p), ",") /\ Guarded(TagText(p), " ")
         /\ Closed(TagText(p))
         /\ Guarded(ValueText(p), " ") /\ Closed(ValueText(p))
         /\ Guarded(Decimal(p.ts), " ") /\ Len(Text(p)) > 0 /\ Closed(Text(p))
<1> DEFINE E == escapeTagValue(p.metric)
           A == LineChar
           m == <<"metric">>
           q == <<"=">>
           r == <<"rhelmon">>
           c == <<",">>
           b == <<" ">>
           H == HostText
           M == MetricText(p)
           T == TagText(p)
           V == ValueText(p)
           D == Decimal(p.ts)
<1>1. /\ p.metric \in Seq(Character) /\ p.value \in Numbers /\ p.ts \in Nat
      /\ Closed(p.metric)
  BY DEF BatchPoint, Name, Closed
<1>2. /\ E \in Seq(Character \cup {"\\"}) /\ Unescaped(E) = p.metric
      /\ \A x \in {" ", ",", "="} : Guarded(E, x)
      /\ Closed(E)
  <2>1. E = Escaped(p.metric, Separators)
    BY Zenon DEF escapeTagValue, escapeTagKey, Separators
  <2>2. \A x \in {" ", ",", "="} : x \in Separators
    BY Zenon DEF Separators
  <2> HIDE DEF E
  <2>3. /\ Escaped(p.metric, Separators) \in Seq(Character \cup {"\\"})
        /\ Unescaped(Escaped(p.metric, Separators)) = p.metric
        /\ \A x \in Separators : Guarded(Escaped(p.metric, Separators), x)
        /\ Closed(Escaped(p.metric, Separators))
    BY <1>1, EscapedIs
  <2> QED BY <2>1, <2>2, <2>3
<1>3. E \in Seq(A)
  <2>1. Character \cup {"\\"} \subseteq A
    BY LineCharIs
  <2> HIDE DEF E, A
  <2>2. \A S : S \subseteq A => \A s \in Seq(S) : s \in Seq(A)
    BY SeqWithin
  <2> QED BY <1>2, <2>1, <2>2, Zenon
<1>4. /\ m \in Seq(A) /\ q \in Seq(A) /\ r \in Seq(A) /\ c \in Seq(A) /\ b \in Seq(A)
      /\ H \in Seq(A)
  BY WordsOfLine, LineCharIs
<1>5. /\ formatFloat(p.value) \in A /\ formatFloat(p.value) # " " /\ formatFloat(p.value) # "\\"
  <2>1. p.value \in Character /\ p.value # " " /\ p.value # "\\"
    BY <1>1, CharacterAssumption
  <2>2. "0" \in Digits
    BY DEF Digits
  <2> QED BY <2>1, <2>2, LineCharIs DEF formatFloat
<1>6. V \in Seq(A) /\ Guarded(V, " ") /\ Closed(V)
  <2> DEFINE f == formatFloat(p.value)
  <2>1. "value" \in A /\ "=" \in A /\ f \in A /\ f # " " /\ f # "\\"
    BY <1>5, LineCharIs
  <2>2. V = <<"value", "=", f>>
    BY DEF ValueText
  <2> HIDE DEF A, f, V
  <2>3. \A g, h \in A : \A x : x # g /\ x # h /\ x # f =>
          <<g, h, f>> \in Seq(A) /\ Guarded(<<g, h, f>>, x)
    BY <2>1, ThreeChars
  <2>4. V \in Seq(A) /\ Guarded(V, " ")
    BY <2>1, <2>2, <2>3, Zenon
  <2>5. \A g, h : Closed(<<g, h, f>>)
    BY <2>1 DEF Closed
  <2> QED BY <2>2, <2>4, <2>5, Zenon
<1>7. D \in Seq(Digits) /\ Len(D) > 0
  BY <1>1, DecimalIs
<1> HIDE DEF D
<1>8. D \in Seq(A) /\ Guarded(D, " ") /\ Closed(D)
  <2>1. Len(D) \in Nat /\ \A i \in 1 .. Len(D) : D[i] \in Digits
    BY <1>7
  <2>2. Digits \subseteq A
    BY LineCharIs
  <2>3. \A i \in 1 .. Len(D) : D[i] # " " /\ D[i] # "\\"
    BY <2>1, LineCharIs
  <2>4. Len(D) \in 1 .. Len(D)
    BY <1>7, <2>1
  <2> HIDE DEF A
  <2>5. D \in Seq(A)
    BY <1>7, <2>2
  <2> QED BY <2>3, <2>4, <2>5 DEF Guarded, Closed
<1>9. \A s, t \in Seq(A) : s \o t \in Seq(A) /\ Len(s \o t) = Len(s) + Len(t)
  BY ConcatIs
<1>10. M = m \o (q \o E) /\ T = r \o (c \o (H \o (c \o M)))
  BY Zenon DEF MetricText, TagText
<1>11. Text(p) = T \o (b \o (V \o (b \o D)))
  BY Zenon DEF Text, D
<1>12. /\ Guarded(m, ",") /\ Guarded(m, " ") /\ Guarded(r, " ") /\ Guarded(H, " ")
       /\ Closed(r) /\ Closed(c) /\ Closed(H) /\ Closed(m) /\ Closed(q)
  BY WordsOfLine
<1>13. Guarded(q, ",") /\ Guarded(q, " ") /\ Guarded(c, " ")
  <2>1. \A x, y : x # y => Guarded(<<x>>, y)
    BY DEF Guarded
  <2>2. "=" # "," /\ "=" # " " /\ "," # " "
    BY Zenon
  <2> QED BY <2>1, <2>2, Zenon
<1> HIDE DEF E, A, m, q, r, c, b, H, M, T, V
<1>14. q \o E \in Seq(A) /\ M \in Seq(A)
  BY <1>3, <1>4, <1>9, <1>10, Zenon
<1>15. /\ c \o M \in Seq(A) /\ H \o (c \o M) \in Seq(A) /\ c \o (H \o (c \o M)) \in Seq(A)
       /\ T \in Seq(A)
  BY <1>4, <1>9, <1>10, <1>14, Zenon
<1>16. ASSUME NEW x \in {" ", ","} PROVE Guarded(M, x)
  <2>1. Guarded(q \o E, x)
    BY <1>2, <1>3, <1>4, <1>13, GuardedConcat
  <2> QED BY <1>4, <1>10, <1>12, <1>14, <2>1, GuardedConcat
<1>17. Guarded(T, " ")
  <2>1. Guarded(c \o M, " ")
    BY <1>4, <1>13, <1>14, <1>16, GuardedConcat
  <2>2. Guarded(H \o (c \o M), " ")
    BY <1>4, <1>12, <1>15, <2>1, GuardedConcat
  <2>3. Guarded(c \o (H \o (c \o M)), " ")
    BY <1>4, <1>13, <1>15, <2>2, GuardedConcat
  <2> QED BY <1>4, <1>10, <1>12, <1>15, <2>3, GuardedConcat
<1>18. Closed(T)
  <2>1. Closed(q \o E)
    BY <1>2, <1>3, <1>4, <1>12, ClosedConcat
  <2>2. Closed(M)
    BY <1>4, <1>10, <1>12, <1>14, <2>1, ClosedConcat
  <2>3. Closed(c \o M)
    BY <1>4, <1>12, <1>14, <2>2, ClosedConcat
  <2>4. Closed(H \o (c \o M))
    BY <1>4, <1>12, <1>15, <2>3, ClosedConcat
  <2>5. Closed(c \o (H \o (c \o M)))
    BY <1>4, <1>12, <1>15, <2>4, ClosedConcat
  <2> QED BY <1>4, <1>10, <1>12, <1>15, <2>5, ClosedConcat
<1>19. /\ b \o D \in Seq(A) /\ V \o (b \o D) \in Seq(A) /\ b \o (V \o (b \o D)) \in Seq(A)
       /\ Text(p) \in Seq(A)
  <2>1. b \o D \in Seq(A)
    BY <1>4, <1>8, <1>9, Zenon
  <2>2. V \o (b \o D) \in Seq(A)
    BY <1>6, <1>9, <2>1, Zenon
  <2>3. b \o (V \o (b \o D)) \in Seq(A)
    BY <1>4, <1>9, <2>2, Zenon
  <2>4. Text(p) \in Seq(A)
    BY <1>9, <1>11, <1>15, <2>3, Zenon
  <2> QED BY <2>1, <2>2, <2>3, <2>4
<1>20. Len(Text(p)) > 0 /\ Closed(Text(p))
  <2> DEFINE w == V \o (b \o D)
             u == b \o w
             z == T \o u
  <2>1. /\ Len(b \o D) = Len(b) + Len(D) /\ Len(w) = Len(V) + Len(b \o D)
        /\ Len(u) = Len(b) + Len(w) /\ Len(z) = Len(T) + Len(u)
    BY <1>4, <1>6, <1>8, <1>9, <1>15, <1>19, Zenon
  <2>2. Len(b) \in Nat /\ Len(D) \in Nat /\ Len(V) \in Nat /\ Len(T) \in Nat
    <3>1. \A s \in Seq(A) : Len(s) \in Nat
      OBVIOUS
    <3> QED BY <1>4, <1>6, <1>8, <1>15, <3>1, Zenon
  <2> HIDE DEF w, u, z
  <2>3. Len(z) > 0
    <3> DEFINE l1 == Len(b)
               l2 == Len(D)
               l3 == Len(V)
               l4 == Len(T)
    <3>1. Len(z) = l4 + (l1 + (l3 + (l1 + l2))) /\ l2 > 0
      BY <1>7, <2>1, Zenon
    <3>2. l1 \in Nat /\ l2 \in Nat /\ l3 \in Nat /\ l4 \in Nat
      BY <2>2
    <3> HIDE DEF l1, l2, l3, l4
    <3> QED BY <3>1, <3>2
  <2>4. Closed(b \o D)
    <3> DEFINE x == b \o D
    <3>1. x \in Seq(A) /\ Len(x) = Len(b) + Len(D)
      BY <1>19, <2>1
    <3>6. \A s, t \in Seq(A) : \A i \in 1 .. Len(t) : (s \o t)[Len(s) + i] = t[i]
      BY ConcatIs
    <3>2. \A i \in 1 .. Len(D) : x[Len(b) + i] = D[i]
      BY <1>4, <1>8, <3>6, Zenon
    <3> HIDE DEF x
    <3>3. x[Len(x)] = D[Len(D)]
      <4>1. Len(D) \in 1 .. Len(D)
        BY <1>7, <2>2
      <4> QED BY <3>1, <3>2, <4>1, Zenon
    <3>4. D[Len(D)] # "\\"
      BY <1>7, <1>8 DEF Closed
    <3>5. Closed(x)
      BY <3>3, <3>4, Zenon DEF Closed
    <3> QED BY <3>5 DEF x
  <2>5. Closed(w)
    BY <1>6, <1>19, <2>4, ClosedConcat DEF w
  <2>6. Closed(b)
    BY DEF Closed, b
  <2>7. Closed(u)
    BY <1>4, <1>19, <2>5, <2>6, ClosedConcat DEF u, w
  <2>8. Closed(z)
    BY <1>15, <1>18, <1>19, <2>7, ClosedConcat DEF z, u, w
  <2>9. z = Text(p)
    BY <1>11, Zenon DEF z, u, w
  <2> QED BY <2>3, <2>8, <2>9, Zenon
<1>21. Guarded(M, ",")
  BY <1>16
<1> QED
  BY <1>2, <1>3, <1>6, <1>8, <1>14, <1>15, <1>17, <1>18, <1>19, <1>20, <1>21, Zenon DEF E, A, M, T, V, D

\* A tag is read as it was before it was escaped.
LEMMA TagRead ==
  ASSUME NEW k, k \in {"host", "metric"}, NEW v \in Seq(LineChar), Guarded(v, "=")
  PROVE  TagOf(<<k>> \o (<<"=">> \o v)) = [key |-> <<k>>, value |-> Unescaped(v)]
<1> DEFINE pair == Split(<<k>> \o (<<"=">> \o v), "=")
<1>1. "=" \in LineChar /\ "=" # "\\"
  <2>1. "=" # "\\"
    BY Zenon
  <2> QED BY <2>1, LineCharIs, Zenon
<1>2. <<k>> \in Seq(LineChar) /\ Guarded(<<k>>, "=") /\ Closed(<<k>>)
  <2>1. k \in LineChar
    BY LineCharIs, Zenon
  <2> QED BY <2>1, WordsOfLine, Zenon
<1>3. pair = <<<<k>>, v>>
  <2> DEFINE e == "="
             x == <<k>>
  <2>1. e \in LineChar /\ e # "\\" /\ x \in Seq(LineChar) /\ Guarded(x, e) /\ Guarded(v, e) /\ Closed(x)
    BY <1>1, <1>2, Zenon
  <2> HIDE DEF e, x
  <2>2. Split(x \o (<<e>> \o v), e) = <<x, v>>
    BY <2>1, SplitTwo
  <2> QED BY <2>2 DEF e, x
<1>4. \A x, y : Len(<<x, y>>) = 2 /\ <<x, y>>[1] = x /\ <<x, y>>[2] = y
  OBVIOUS
<1>5. Len(pair) = 2 /\ pair[1] = <<k>> /\ pair[2] = v
  <2> HIDE DEF pair
  <2> QED BY <1>3, <1>4, Zenon
<1>6. Unescaped(<<k>>) = <<k>>
  <2>1. k # "\\" /\ k \notin Separators
    BY Zenon DEF Separators
  <2> QED BY <2>1, UnescapedSingle
<1>7. TagOf(<<k>> \o (<<"=">> \o v))
        = IF Len(pair) = 2 THEN [key |-> Unescaped(pair[1]), value |-> Unescaped(pair[2])]
          ELSE [key |-> <<>>, value |-> <<k>> \o (<<"=">> \o v)]
  BY Zenon DEF TagOf
<1> HIDE DEF pair
<1> QED BY <1>5, <1>6, <1>7, Zenon

\* What InfluxDB makes of the line of a point.
Point(p) ==
  [measurement |-> <<"rhelmon">>,
   tags |-> {[key |-> <<"host">>, value |-> Host], [key |-> <<"metric">>, value |-> p.metric]},
   fields |-> ValueText(p), ts |-> Decimal(p.ts)]

LEMMA PointRead ==
  ASSUME NEW p \in BatchPoint
  PROVE  PointOf(Text(p)) = Point(p)
<1> DEFINE E == escapeTagValue(p.metric)
           r == <<"rhelmon">>
           H == HostText
           M == MetricText(p)
           T == TagText(p)
           V == ValueText(p)
           D == Decimal(p.ts)
           parts == Split(Text(p), " ")
           names == Split(T, ",")
<1>1. /\ E \in Seq(LineChar) /\ M \in Seq(LineChar) /\ T \in Seq(LineChar)
      /\ V \in Seq(LineChar) /\ D \in Seq(LineChar)
      /\ Unescaped(E) = p.metric /\ Guarded(E, "=") /\ Guarded(M, ",") /\ Guarded(T, " ")
      /\ Closed(T) /\ Guarded(V, " ") /\ Closed(V) /\ Guarded(D, " ")
  BY PartsOfLine, Zenon
<1>2. /\ r \in Seq(LineChar) /\ H \in Seq(LineChar) /\ Guarded(r, ",") /\ Guarded(H, ",")
      /\ Closed(r) /\ Closed(H)
  <2>1. "rhelmon" \in LineChar
    BY LineCharIs, Zenon
  <2> QED BY <2>1, WordsOfLine, Zenon
<1>3. " " \in LineChar /\ " " # "\\" /\ "," \in LineChar /\ "," # "\\"
  <2>1. " " # "\\" /\ "," # "\\"
    BY Zenon
  <2> QED BY <2>1, LineCharIs, Zenon
<1>4. Text(p) = T \o (<<" ">> \o (V \o (<<" ">> \o D))) /\ T = r \o (<<",">> \o (H \o (<<",">> \o M)))
  BY Zenon DEF Text, TagText
<1> HIDE DEF r, H, M, T, V, D, E
<1>5. parts = <<T, V, D>>
  <2> DEFINE e == " "
  <2>1. /\ e \in LineChar /\ e # "\\" /\ Guarded(T, e) /\ Guarded(V, e) /\ Guarded(D, e)
        /\ T \in Seq(LineChar) /\ V \in Seq(LineChar) /\ D \in Seq(LineChar)
        /\ Closed(T) /\ Closed(V)
    BY <1>1, <1>3, Zenon
  <2> HIDE DEF e
  <2>2. Split(T \o (<<e>> \o (V \o (<<e>> \o D))), e) = <<T, V, D>>
    BY <2>1, SplitThree
  <2>3. Text(p) = T \o (<<e>> \o (V \o (<<e>> \o D)))
    BY <1>4 DEF e
  <2>4. parts = Split(Text(p), e)
    BY DEF e
  <2> HIDE DEF parts
  <2> QED BY <2>2, <2>3, <2>4
<1>6. names = <<r, H, M>>
  <2> DEFINE e == ","
  <2>1. /\ e \in LineChar /\ e # "\\" /\ Guarded(r, e) /\ Guarded(H, e) /\ Guarded(M, e)
        /\ r \in Seq(LineChar) /\ H \in Seq(LineChar) /\ M \in Seq(LineChar)
        /\ Closed(r) /\ Closed(H)
    BY <1>1, <1>2, <1>3, Zenon
  <2> HIDE DEF e
  <2>2. Split(r \o (<<e>> \o (H \o (<<e>> \o M))), e) = <<r, H, M>>
    BY <2>1, SplitThree
  <2>3. T = r \o (<<e>> \o (H \o (<<e>> \o M)))
    BY <1>4 DEF e
  <2>4. names = Split(T, e)
    BY DEF e
  <2> HIDE DEF names
  <2> QED BY <2>2, <2>3, <2>4
<1>7. \A x, y, z : /\ Len(<<x, y, z>>) = 3 /\ <<x, y, z>>[1] = x /\ <<x, y, z>>[2] = y
                   /\ <<x, y, z>>[3] = z
  OBVIOUS
<1> HIDE DEF parts, names
<1>8. /\ parts[1] = T /\ parts[2] = V /\ parts[3] = D
      /\ Len(names) = 3 /\ names[1] = r /\ names[2] = H /\ names[3] = M
  BY <1>5, <1>6, <1>7, Zenon
<1>9. TagOf(M) = [key |-> <<"metric">>, value |-> p.metric]
  <2>1. M = <<"metric">> \o (<<"=">> \o E)
    BY Zenon DEF M, E, MetricText
  <2>2. TagOf(<<"metric">> \o (<<"=">> \o E)) = [key |-> <<"metric">>, value |-> Unescaped(E)]
    BY <1>1, TagRead, Zenon
  <2> QED BY <1>1, <2>1, <2>2, Zenon
<1>10. TagOf(H) = [key |-> <<"host">>, value |-> Host]
  <2>1. H = <<"host">> \o (<<"=">> \o <<"localhost">>)
    BY Zenon DEF H, HostText
  <2>2. <<"localhost">> \in Seq(LineChar) /\ Guarded(<<"localhost">>, "=")
    <3>1. "localhost" \in LineChar
      BY LineCharIs, Zenon
    <3> QED BY <3>1, WordsOfLine, Zenon
  <2>3. TagOf(<<"host">> \o (<<"=">> \o <<"localhost">>))
          = [key |-> <<"host">>, value |-> Unescaped(<<"localhost">>)]
    BY <2>2, TagRead, Zenon
  <2>4. Unescaped(<<"localhost">>) = <<"localhost">>
    <3>1. "localhost" # "\\" /\ "localhost" \notin Separators
      BY Zenon DEF Separators
    <3> QED BY <3>1, UnescapedSingle
  <2> QED BY <2>1, <2>3, <2>4, Zenon DEF Host
<1>11. Unescaped(r) = r
  <2>1. "rhelmon" # "\\" /\ "rhelmon" \notin Separators
    BY Zenon DEF Separators
  <2> QED BY <2>1, UnescapedSingle DEF r
<1>12. PointOf(Text(p)) =
         [measurement |-> Unescaped(Split(parts[1], ",")[1]),
          tags |-> {TagOf(Split(parts[1], ",")[i]) : i \in 2 .. Len(Split(parts[1], ","))},
          fields |-> parts[2], ts |-> parts[3]]
  BY Zenon DEF PointOf, parts
<1>13. PointOf(Text(p)) =
         [measurement |-> Unescaped(names[1]),
          tags |-> {TagOf(names[i]) : i \in 2 .. Len(names)},
          fields |-> V, ts |-> D]
  BY <1>8, <1>12, Zenon DEF names
<1>14. {TagOf(names[i]) : i \in 2 .. Len(names)} = {TagOf(H), TagOf(M)}
  <2>1. \A i \in 2 .. 3 : i = 2 \/ i = 3
    OBVIOUS
  <2>2. 2 \in 2 .. 3 /\ 3 \in 2 .. 3
    OBVIOUS
  <2> DEFINE t == [i \in 2 .. 3 |-> TagOf(names[i])]
  <2>3. \A i \in 2 .. 3 : TagOf(names[i]) = TagOf(H) \/ TagOf(names[i]) = TagOf(M)
    BY <1>8, <2>1, Zenon
  <2>4. TagOf(names[2]) = TagOf(H) /\ TagOf(names[3]) = TagOf(M)
    BY <1>8, Zenon
  <2>5. 2 .. Len(names) = 2 .. 3
    BY <1>8, Zenon
  <2>6. {TagOf(names[i]) : i \in 2 .. 3} = {TagOf(H), TagOf(M)}
    BY <2>2, <2>3, <2>4
  <2> QED BY <2>5, <2>6, Zenon
<1> QED BY <1>8, <1>9, <1>10, <1>11, <1>13, <1>14, Zenon DEF Point, r, V, D

\* The line of a point is its text and a newline.
LEMMA LineIs ==
  ASSUME NEW p \in BatchPoint
  PROVE  Line(p) = Text(p) \o <<"\n">>
<1> DEFINE A == LineChar
           B == LineChar \cup {"\n"}
           E == escapeTagValue(p.metric)
           D == Decimal(p.ts)
           f == formatFloat(p.value)
           r == <<"rhelmon">>
           c == <<",">>
           q == <<"=">>
           h == <<"host">>
           l == <<"localhost">>
           m == <<"metric">>
           b == <<" ">>
           V == <<"value", "=", f>>
           W == <<" ", "value", "=", f, " ">>
           nl == <<"\n">>
           t1 == c \o h \o q \o l
           t2 == c \o m \o q \o E
           tags == [i \in DOMAIN Tags(p) |->
                      <<",">> \o escapeTagKey(Tags(p)[i].key) \o <<"=">> \o Tags(p)[i].value]
           H == h \o (q \o l)
           M == m \o (q \o E)
           T == r \o (c \o (H \o (c \o M)))
<1>1. /\ r \in Seq(A) /\ c \in Seq(A) /\ q \in Seq(A) /\ h \in Seq(A) /\ l \in Seq(A)
      /\ m \in Seq(A) /\ b \in Seq(A) /\ E \in Seq(A) /\ D \in Seq(A) /\ V \in Seq(A)
      /\ H \in Seq(A) /\ M \in Seq(A) /\ T \in Seq(A)
  <2>1. \A x \in {"rhelmon", ",", "=", "host", "localhost", "metric", " "} : x \in LineChar
    BY LineCharIs, Zenon
  <2>2. \A x \in {"rhelmon", ",", "=", "host", "localhost", "metric", " "} : <<x>> \in Seq(LineChar)
    BY <2>1, WordsOfLine, Zenon
  <2>3. V = ValueText(p) /\ H = HostText /\ M = MetricText(p) /\ T = TagText(p)
    BY Zenon DEF ValueText, HostText, MetricText, TagText
  <2>4. /\ r \in Seq(A) /\ c \in Seq(A) /\ q \in Seq(A) /\ h \in Seq(A) /\ l \in Seq(A)
        /\ m \in Seq(A) /\ b \in Seq(A)
    BY <2>2, Zenon
  <2>5. E \in Seq(A) /\ D \in Seq(A)
    BY PartsOfLine, Zenon
  <2>6. V \in Seq(A) /\ M \in Seq(A) /\ T \in Seq(A)
    BY <2>3, PartsOfLine, Zenon
  <2>7. H \in Seq(A)
    BY <2>3, WordsOfLine, Zenon
  <2> QED BY <2>4, <2>5, <2>6, <2>7, Zenon
<1>2. /\ escapeMeasurement(<<"rhelmon">>) = r /\ escapeTagKey(<<"host">>) = h
      /\ escapeTagKey(<<"metric">>) = m
  <2>1. "rhelmon" # "\\" /\ "rhelmon" \notin {",", " "}
    BY Zenon
  <2>2. /\ "host" # "\\" /\ "host" \notin {",", "=", " "}
        /\ "metric" # "\\" /\ "metric" \notin {",", "=", " "}
    BY Zenon
  <2>3. \A x, special : x # "\\" /\ x \notin special => Escaped(<<x>>, special) = <<x>>
    BY EscapedSingle
  <2> QED BY <2>1, <2>2, <2>3, Zenon DEF escapeMeasurement, escapeTagKey
<1>3. tags = <<t1, t2>>
  <2>1. p.host = <<"localhost">>
    BY DEF BatchPoint, Host
  <2>2. \A x, y : /\ DOMAIN <<x, y>> = 1 .. 2 /\ <<x, y>>[1] = x /\ <<x, y>>[2] = y
    OBVIOUS
  <2>3. /\ DOMAIN Tags(p) = 1 .. 2
        /\ Tags(p)[1] = [key |-> <<"host">>, value |-> p.host]
        /\ Tags(p)[2] = [key |-> <<"metric">>, value |-> E]
    BY <2>2, Zenon DEF Tags
  <2>4. \A x, y : [key |-> x, value |-> y].key = x /\ [key |-> x, value |-> y].value = y
    OBVIOUS
  <2>5. /\ Tags(p)[1].key = <<"host">> /\ Tags(p)[1].value = l
        /\ Tags(p)[2].key = <<"metric">> /\ Tags(p)[2].value = E
    <3> DEFINE x == Tags(p)[1]
               y == Tags(p)[2]
               o == p.host
    <3>1. o = l /\ x = [key |-> <<"host">>, value |-> o] /\ y = [key |-> <<"metric">>, value |-> E]
      BY <2>1, <2>3, Zenon
    <3> HIDE DEF x, y, o, l, E
    <3>2. x.key = <<"host">> /\ x.value = l /\ y.key = <<"metric">> /\ y.value = E
      BY <3>1
    <3> QED BY <3>2 DEF x, y
  <2> DEFINE g(i) == <<",">> \o escapeTagKey(Tags(p)[i].key) \o <<"=">> \o Tags(p)[i].value
  <2>6. g(1) = t1 /\ g(2) = t2
    BY <1>2, <2>5, Zenon
  <2>7. tags = [i \in 1 .. 2 |-> g(i)]
    BY <2>3, Zenon
  <2> HIDE DEF g, t1, t2, tags
  <2>8. [i \in 1 .. 2 |-> g(i)] = <<g(1), g(2)>>
    OBVIOUS
  <2> QED BY <2>6, <2>7, <2>8, Zenon
<1>4. W = b \o (V \o b)
  <2>1. \A s, x, y, z : <<s, x, y, z, s>> = <<s>> \o (<<x, y, z>> \o <<s>>)
    <3> SUFFICES ASSUME NEW s, NEW x, NEW y, NEW z
                 PROVE  <<s, x, y, z, s>> = <<s>> \o (<<x, y, z>> \o <<s>>)
      OBVIOUS
    <3> DEFINE S == {s, x, y, z}
               u == <<s>>
               v == <<x, y, z>>
               w == <<s, x, y, z, s>>
    <3>1. u \in Seq(S) /\ Len(u) = 1 /\ u[1] = s
      OBVIOUS
    <3>2. v \in Seq(S) /\ Len(v) = 3 /\ v[1] = x /\ v[2] = y /\ v[3] = z
      OBVIOUS
    <3>3. /\ w \in Seq(S) /\ Len(w) = 5
          /\ w[1] = s /\ w[2] = x /\ w[3] = y /\ w[4] = z /\ w[5] = s
      OBVIOUS
    <3> HIDE DEF S, u, v, w
    <3> DEFINE o == v \o u
    <3>4. /\ o \in Seq(S) /\ Len(o) = 4
          /\ o[1] = x /\ o[2] = y /\ o[3] = z /\ o[4] = s
      <4>1. /\ o \in Seq(S) /\ Len(o) = Len(v) + Len(u)
            /\ \A i \in 1 .. Len(v) : o[i] = v[i]
            /\ \A i \in 1 .. Len(u) : o[Len(v) + i] = u[i]
        <5>1. v \in Seq(S) /\ u \in Seq(S)
          BY <3>1, <3>2
        <5> QED BY <5>1, ConcatIs
      <4> HIDE DEF o
      <4>2. o[3 + 1] = u[1]
        BY <3>1, <3>2, <4>1
      <4> QED BY <3>1, <3>2, <4>1, <4>2
    <3> HIDE DEF o
    <3> DEFINE t == u \o o
    <3>5. /\ t \in Seq(S) /\ Len(t) = 5
          /\ t[1] = s /\ t[2] = x /\ t[3] = y /\ t[4] = z /\ t[5] = s
      <4>1. /\ t \in Seq(S) /\ Len(t) = Len(u) + Len(o)
            /\ \A i \in 1 .. Len(u) : t[i] = u[i]
            /\ \A i \in 1 .. Len(o) : t[Len(u) + i] = o[i]
        <5>1. u \in Seq(S) /\ o \in Seq(S)
          BY <3>1, <3>4
        <5> QED BY <5>1, ConcatIs
      <4> HIDE DEF t
      <4>2. t[1 + 1] = o[1] /\ t[1 + 2] = o[2] /\ t[1 + 3] = o[3] /\ t[1 + 4] = o[4]
        BY <3>1, <3>4, <4>1
      <4> QED BY <3>1, <3>4, <4>1, <4>2
    <3> HIDE DEF t
    <3>6. \A i \in 1 .. 5 : i = 1 \/ i = 2 \/ i = 3 \/ i = 4 \/ i = 5
      OBVIOUS
    <3>7. \A i \in 1 .. 5 : w[i] = t[i]
      BY <3>3, <3>5, <3>6
    <3>8. w = t
      BY <3>3, <3>5, <3>7, SeqEqual
    <3> QED BY <3>8 DEF u, v, w, t, o
  <2> QED BY <2>1, Zenon
<1>5. Line(p) = r \o FlattenSeq(tags) \o W \o D \o nl
  BY <1>2, Zenon DEF Line
<1>6. Text(p) = T \o (b \o (V \o (b \o D)))
  BY Zenon DEF Text, TagText, HostText, MetricText, ValueText
<1>7. nl \in Seq(B) /\ \A s \in Seq(A) : s \in Seq(B)
  <2> DEFINE n == "\n"
             C == LineChar
  <2> HIDE DEF n, C
  <2>1. <<n>> \in Seq(C \cup {n}) /\ \A s \in Seq(C) : s \in Seq(C \cup {n})
    BY SeqWithin
  <2> QED BY <2>1, Zenon DEF n, C
<1>9. \A s, t, u \in Seq(A) : (s \o t) \o u = s \o (t \o u)
  BY ConcatAssociative
<1>8. \A s, t \in Seq(A) : s \o t \in Seq(A) /\ FlattenSeq(<<s, t>>) = s \o t
  BY ConcatIs, FlattenTwo
<1> HIDE DEF A, B, E, D, f, r, c, q, h, l, m, b, V, W, nl, tags
<1>10. /\ q \o l \in Seq(A) /\ q \o E \in Seq(A) /\ c \o h \in Seq(A) /\ c \o m \in Seq(A)
       /\ c \o H \in Seq(A) /\ c \o M \in Seq(A)
       /\ (c \o h) \o q \in Seq(A) /\ (c \o m) \o q \in Seq(A)
       /\ H \o (c \o M) \in Seq(A) /\ b \o D \in Seq(A)
  <2> HIDE DEF H, M
  <2> QED BY <1>1, <1>8, Zenon
<1>11. t1 = c \o H /\ t2 = c \o M
  <2>1. (c \o h) \o (q \o l) = c \o (h \o (q \o l)) /\ ((c \o h) \o q) \o l = (c \o h) \o (q \o l)
    <3>1. c \in Seq(A) /\ h \in Seq(A) /\ q \o l \in Seq(A)
      BY <1>1, <1>10
    <3>2. c \o h \in Seq(A) /\ q \in Seq(A) /\ l \in Seq(A)
      BY <1>1, <1>10
    <3>3. (c \o h) \o (q \o l) = c \o (h \o (q \o l))
      BY <1>9, <3>1, Zenon
    <3>4. ((c \o h) \o q) \o l = (c \o h) \o (q \o l)
      BY <1>9, <3>2, Zenon
    <3> QED BY <3>3, <3>4
  <2>2. (c \o m) \o (q \o E) = c \o (m \o (q \o E)) /\ ((c \o m) \o q) \o E = (c \o m) \o (q \o E)
    <3>1. c \in Seq(A) /\ m \in Seq(A) /\ q \o E \in Seq(A)
      BY <1>1, <1>10
    <3>2. c \o m \in Seq(A) /\ q \in Seq(A) /\ E \in Seq(A)
      BY <1>1, <1>10
    <3>3. (c \o m) \o (q \o E) = c \o (m \o (q \o E))
      BY <1>9, <3>1, Zenon
    <3>4. ((c \o m) \o q) \o E = (c \o m) \o (q \o E)
      BY <1>9, <3>2, Zenon
    <3> QED BY <3>3, <3>4
  <2> QED BY <2>1, <2>2, Zenon
<1>12. r \o FlattenSeq(tags) = T
  <2> HIDE DEF H, M, t1, t2
  <2>1. FlattenSeq(tags) = (c \o H) \o (c \o M)
    BY <1>3, <1>8, <1>10, <1>11, Zenon
  <2>2. (c \o H) \o (c \o M) = c \o (H \o (c \o M))
    <3>1. c \in Seq(A) /\ H \in Seq(A) /\ c \o M \in Seq(A)
      BY <1>1, <1>10
    <3> QED BY <1>9, <3>1, Zenon
  <2> QED BY <2>1, <2>2, Zenon
<1> HIDE DEF T, H, M, t1, t2
<1>13. T \o W \o D = Text(p)
  <2>1. V \o b \in Seq(A) /\ b \o (V \o b) \in Seq(A)
    BY <1>1, <1>8, Zenon
  <2>2. (T \o (b \o (V \o b))) \o D = T \o ((b \o (V \o b)) \o D)
    <3>1. T \in Seq(A) /\ b \o (V \o b) \in Seq(A) /\ D \in Seq(A)
      BY <1>1, <2>1
    <3> QED BY <1>9, <3>1, Zenon
  <2>3. (b \o (V \o b)) \o D = b \o ((V \o b) \o D)
    <3>1. b \in Seq(A) /\ V \o b \in Seq(A) /\ D \in Seq(A)
      BY <1>1, <2>1
    <3> QED BY <1>9, <3>1, Zenon
  <2>4. (V \o b) \o D = V \o (b \o D)
    <3>1. V \in Seq(A) /\ b \in Seq(A) /\ D \in Seq(A)
      BY <1>1
    <3> QED BY <1>9, <3>1, Zenon
  <2> QED BY <1>4, <1>6, <2>2, <2>3, <2>4, Zenon
<1> QED BY <1>5, <1>12, <1>13, Zenon DEF nl

\* P are the lines of the texts ts, which are over A.
LinesEnded(A, nl, ts, P) ==
  /\ nl \notin A /\ nl # "\\" /\ ts \in Seq(Seq(A))
  /\ \A k \in 1 .. Len(ts) : Len(ts[k]) > 0 /\ Closed(ts[k])
  /\ P = [k \in 1 .. Len(ts) |-> ts[k] \o <<nl>>]

LEMMA SplitLines ==
  ASSUME NEW A, NEW nl, NEW ts, NEW P, LinesEnded(A, nl, ts, P)
  PROVE  Split(FlattenSeq(P), nl)
           = [k \in 1 .. Len(ts) + 1 |-> IF k \in 1 .. Len(ts) THEN ts[k] ELSE <<>>]
<1> DEFINE B == A \cup {nl}
           C == Seq(B)
           N == Len(ts)
           n == N + 1
           c == <<nl>>
           F == FlattenSeq(P)
           e == [k \in 0 .. n |-> IF k \in 0 .. N THEN Ends(P, k) ELSE Len(F) + 1]
           p == [k \in 1 .. n |-> IF k \in 1 .. N THEN ts[k] ELSE <<>>]
<1>0. /\ nl \notin A /\ nl # "\\" /\ ts \in Seq(Seq(A))
      /\ \A k \in 1 .. N : Len(ts[k]) > 0 /\ Closed(ts[k])
      /\ P = [k \in 1 .. N |-> ts[k] \o <<nl>>]
  BY DEF LinesEnded
<1>1. N \in Nat /\ c \in C /\ Len(c) = 1 /\ c[1] = nl /\ <<>> \in C /\ Len(<<>>) = 0
  BY <1>0
<1>2. \A k \in 1 .. N : ts[k] \in Seq(A) /\ Len(ts[k]) \in Nat
  BY <1>0
<1>3. \A k \in 1 .. N : ts[k] \in C
  <2>1. \A s \in Seq(A) : s \in Seq(B)
    BY SeqWithin
  <2> QED BY <1>2, <2>1
<1>4. \A s, t \in C : s \o t \in C /\ Len(s \o t) = Len(s) + Len(t)
  BY ConcatIs
<1>5. \A k \in 1 .. N : P[k] = ts[k] \o c /\ P[k] \in C /\ Len(P[k]) = Len(ts[k]) + 1
  <2> SUFFICES ASSUME NEW k \in 1 .. N
               PROVE  P[k] = ts[k] \o c /\ P[k] \in C /\ Len(P[k]) = Len(ts[k]) + 1
    OBVIOUS
  <2>1. P[k] = ts[k] \o c
    BY <1>0
  <2> HIDE DEF C, c
  <2>2. ts[k] \in C
    BY <1>3
  <2>3. ts[k] \o c \in C /\ Len(ts[k] \o c) = Len(ts[k]) + Len(c)
    BY <1>1, <1>4, <2>2, Zenon
  <2> QED BY <1>1, <2>1, <2>3, Zenon
<1>6. P \in Seq(C) /\ Len(P) = N
  <2>1. P = [k \in 1 .. N |-> P[k]]
    BY <1>0
  <2> HIDE DEF C, N
  <2>2. P \in [1 .. N -> C]
    BY <1>5, <2>1
  <2> QED BY <1>1, <2>2, FunctionIsSeq
<1> HIDE DEF N
<1>7. /\ F \in Seq(B) /\ Len(F) = Ends(P, N) /\ Ends(P, 0) = 0
      /\ \A k \in 0 .. N : Ends(P, k) \in 0 .. Len(F)
      /\ \A k \in 1 .. N : Ends(P, k) = Ends(P, k - 1) + Len(P[k])
      /\ \A k, l \in 0 .. N : k <= l => Ends(P, k) <= Ends(P, l)
  BY <1>6, PartsIn
<1>8. \A k \in 1 .. N : At(F, Ends(P, k - 1), P[k])
  BY <1>6, AtPart
<1> HIDE DEF F, C, B
<1>9. Len(F) \in Nat
  BY <1>7 DEF B
<1>10. /\ e \in [0 .. n -> Nat] /\ e[0] = 0 /\ e[n] = Len(F) + 1
       /\ \A k \in 0 .. N : e[k] = Ends(P, k)
  <2>1. 0 \in 0 .. N /\ 0 \in 0 .. n /\ n \in 0 .. n /\ n \notin 0 .. N
        /\ \A k \in 0 .. N : k \in 0 .. n
    BY <1>1
  <2>2. \A k \in 0 .. N : Ends(P, k) \in Nat
    <3>1. \A x \in 0 .. Len(F) : x \in Nat
      BY <1>9
    <3> QED BY <1>7, <3>1, Zenon
  <2>3. e \in [0 .. n -> Nat]
    <3>1. Len(F) + 1 \in Nat
      BY <1>9
    <3> DEFINE g(k) == IF k \in 0 .. N THEN Ends(P, k) ELSE Len(F) + 1
    <3>2. \A k \in 0 .. n : g(k) \in Nat
      BY <2>2, <3>1, Zenon
    <3>3. e = [k \in 0 .. n |-> g(k)]
      BY Zenon
    <3> HIDE DEF g, e, n
    <3> QED BY <3>2, <3>3
  <2>4. e[0] = 0
    <3>1. e[0] = Ends(P, 0)
      BY <2>1
    <3> QED BY <1>7, <3>1, Zenon
  <2>5. e[n] = Len(F) + 1
    BY <2>1
  <2>6. \A k \in 0 .. N : e[k] = Ends(P, k)
    BY <2>1
  <2> HIDE DEF e, n
  <2> QED BY <2>3, <2>4, <2>5, <2>6
<1>11. ASSUME NEW k \in 1 .. N
       PROVE  /\ k - 1 \in 0 .. N /\ k \in 0 .. N
              /\ Ends(P, k - 1) \in Nat /\ Ends(P, k) = Ends(P, k - 1) + Len(ts[k]) + 1
              /\ At(F, Ends(P, k - 1), ts[k]) /\ F[Ends(P, k)] = nl
              /\ Ends(P, k) > 1 /\ F[Ends(P, k) - 1] # "\\"
  <2> DEFINE a == Ends(P, k - 1)
             b == Ends(P, k)
             l == Len(ts[k])
  <2>1. k - 1 \in 0 .. N /\ k \in 0 .. N
    BY <1>1
  <2>2. a \in Nat /\ b \in Nat /\ l \in Nat /\ b = a + l + 1 /\ l > 0
    <3>1. a \in 0 .. Len(F) /\ b \in 0 .. Len(F) /\ b = a + Len(P[k]) /\ Len(P[k]) = l + 1
      BY <1>5, <1>7, <2>1
    <3>2. l \in Nat /\ l > 0
      BY <1>0, <1>2
    <3> DEFINE w == Len(P[k])
    <3>3. w = l + 1 /\ b = a + w
      BY <3>1
    <3> HIDE DEF a, b, l, w
    <3>4. a \in Nat /\ b \in Nat
      BY <1>9, <3>1
    <3>5. b = a + l + 1
      BY <3>2, <3>3, <3>4
    <3> QED BY <3>2, <3>4, <3>5
  <2>3. At(F, a, ts[k] \o c)
    BY <1>5, <1>8
  <2>4. ts[k] \in C /\ c \in C /\ F \in C
    BY <1>1, <1>3, <1>7 DEF C
  <2> HIDE DEF a, b, c
  <2>5. At(F, a, ts[k]) /\ At(F, a + l, c)
    <3>1. F \in Seq(B) /\ ts[k] \in Seq(B) /\ c \in Seq(B)
      BY <2>4 DEF C
    <3> QED BY <2>3, <3>1, AtConcat
  <2>6. F[b] = nl
    <3>1. F[a + l + 1] = c[1]
      <4>1. 1 \in 1 .. Len(c)
        BY <1>1
      <4> QED BY <2>5, <4>1 DEF At
    <3> QED BY <1>1, <2>2, <3>1, Zenon
  <2>7. F[b - 1] # "\\"
    <3>1. l \in 1 .. Len(ts[k])
      BY <2>2
    <3>2. F[a + l] = ts[k][l]
      BY <2>5, <3>1 DEF At
    <3>3. ts[k][Len(ts[k])] # "\\"
      <4>1. Closed(ts[k])
        BY <1>0
      <4> QED BY <2>2, <4>1 DEF Closed
    <3>4. b - 1 = a + l
      <4> HIDE DEF l
      <4> QED BY <2>2
    <3> QED BY <3>2, <3>3, <3>4, Zenon
  <2>8. b > 1
    <3> HIDE DEF l
    <3> QED BY <2>2
  <2> QED BY <2>1, <2>2, <2>5, <2>6, <2>7, <2>8 DEF a, b
<1>12. \A k \in 1 .. N : Guarded(ts[k], nl)
  <2> SUFFICES ASSUME NEW k \in 1 .. N PROVE Guarded(ts[k], nl)
    OBVIOUS
  <2>1. \A i \in 1 .. Len(ts[k]) : ts[k][i] \in A
    BY <1>2
  <2> QED BY <1>0, <2>1 DEF Guarded
<1>13. /\ p \in [1 .. n -> C] /\ p[n] = <<>> /\ n \in 1 .. n
       /\ \A k \in 1 .. N : p[k] = ts[k] /\ k \in 1 .. n
  <2>1. n \in 1 .. n /\ n \notin 1 .. N /\ \A k \in 1 .. N : k \in 1 .. n
    BY <1>1
  <2> QED BY <1>1, <1>3, <2>1
<1> HIDE DEF e, p
<1>14. n \in Nat \ {0} /\ n - 1 = N /\ \A k \in 1 .. n : k = n \/ k \in 1 .. N
  BY <1>1
<1>15. ASSUME NEW k \in 0 .. n, NEW l \in 0 .. n, k < l PROVE e[k] < e[l]
  <2>1. CASE l = n
    <3>1. k \in 0 .. N
      BY <1>1, <1>15, <2>1
    <3>2. e[k] \in 0 .. Len(F)
      BY <1>7, <1>10, <3>1
    <3> QED BY <1>9, <1>10, <2>1, <3>2
  <2>2. CASE l # n
    <3> DEFINE x == Ends(P, k)
               y == Ends(P, l - 1)
               z == Ends(P, l)
               v == Len(ts[l])
    <3>1. l \in 1 .. N /\ k \in 0 .. N /\ l \in 0 .. N /\ l - 1 \in 0 .. N /\ k <= l - 1
      BY <1>1, <1>15, <2>2
    <3>4. x <= y /\ x \in 0 .. Len(F)
      BY <1>7, <3>1, Zenon
    <3>5. y \in Nat /\ z = y + v + 1
      BY <1>11, <3>1, Zenon
    <3>6. v \in Nat
      BY <1>2, <3>1 DEF N
    <3>2. x <= y /\ y \in Nat /\ x \in Nat /\ z = y + v + 1 /\ v \in Nat
      <4> HIDE DEF x, y, z, v
      <4> QED BY <1>9, <3>4, <3>5, <3>6
    <3>3. e[k] = x /\ e[l] = z
      BY <1>10, <3>1
    <3> HIDE DEF x, y, z, v
    <3> QED BY <3>2, <3>3
  <2> QED BY <2>1, <2>2
<1>16. ASSUME NEW k \in 1 .. n
       PROVE  /\ e[k] = e[k - 1] + Len(p[k]) + 1
              /\ At(F, e[k - 1], p[k]) /\ Guarded(p[k], nl)
  <2>1. CASE k \in 1 .. N
    <3>1. p[k] = ts[k] /\ e[k] = Ends(P, k) /\ e[k - 1] = Ends(P, k - 1)
      BY <1>10, <1>11, <1>13, <2>1
    <3> QED BY <1>11, <1>12, <2>1, <3>1
  <2>2. CASE k = n
    <3>1. k - 1 = N /\ N \in 0 .. N
      BY <1>1, <2>2
    <3>2. p[k] = <<>> /\ e[k] = Len(F) + 1 /\ e[k - 1] = Len(F)
      BY <1>7, <1>10, <1>13, <2>2, <3>1
    <3>3. Len(<<>>) = 0 /\ At(F, Len(F), <<>>) /\ Guarded(<<>>, nl)
      BY <1>9 DEF At, Guarded
    <3> QED BY <1>9, <3>2, <3>3
  <2> QED BY <1>14, <2>1, <2>2
<1>17. \A k \in 1 .. n - 1 : F[e[k]] = nl /\ (e[k] > 1 => F[e[k] - 1] # "\\")
  <2> SUFFICES ASSUME NEW k \in 1 .. N PROVE F[e[k]] = nl /\ F[e[k] - 1] # "\\"
    BY <1>14
  <2>1. e[k] = Ends(P, k)
    BY <1>10, <1>11
  <2> QED BY <1>11, <2>1
<1>18. Parted(B, F, nl, n, e, p)
  BY <1>7, <1>10, <1>13, <1>14, <1>15, <1>16, <1>17 DEF Parted, C
<1>19. Split(F, nl) = [k \in 1 .. n |-> p[k]]
  <2> HIDE DEF n
  <2> QED BY <1>18, SplitIs
<1>20. [k \in 1 .. n |-> p[k]] = p
  BY <1>13
<1> QED BY <1>19, <1>20, Zenon DEF F, p, n, N

\* InfluxDB reads the text of every point, in their order.
LEMMA LinesRead ==
  ASSUME NEW points \in Seq(BatchPoint)
  PROVE  LinesOf(InfluxRequest(points).body) = [i \in 1 .. Len(points) |-> Text(points[i])]
<1> DEFINE nl == "\n"
           A == LineChar
           Y == Seq(A)
           N == Len(points)
           ts == [i \in 1 .. N |-> Text(points[i])]
           P == [i \in DOMAIN points |-> Line(points[i])]
           F == FlattenSeq(P)
           ls == Split(F, nl)
           g == [k \in 1 .. N + 1 |-> IF k \in 1 .. N THEN ts[k] ELSE <<>>]
<1>1. N \in Nat /\ DOMAIN points = 1 .. N /\ \A k \in 1 .. N : points[k] \in BatchPoint
  OBVIOUS
<1>2. \A k \in 1 .. N : Text(points[k]) \in Seq(A) /\ Len(Text(points[k])) > 0 /\ Closed(Text(points[k]))
  BY <1>1, PartsOfLine, Zenon
<1>3. InfluxRequest(points).body = F
  <2>1. \A x, y : [precision |-> x, body |-> y].body = y
    OBVIOUS
  <2>2. InfluxRequest(points) = [precision |-> "ms", body |-> F]
    BY Zenon DEF InfluxRequest
  <2> QED BY <2>1, <2>2, Zenon
<1>4. LinesOf(F) = SubSeq(ls, 1, Len(ls) - 1)
  BY Zenon DEF LinesOf
<1>5. \A k \in 1 .. N : Line(points[k]) = Text(points[k]) \o <<nl>>
  BY <1>1, LineIs, Zenon
<1>6. nl \notin A /\ nl # "\\"
  <2>1. nl # "\\"
    BY Zenon
  <2> QED BY <2>1, LineCharIs, Zenon
<1> HIDE DEF nl, A
<1>7. ts \in Seq(Y) /\ Len(ts) = N
  <2> HIDE DEF N
  <2>1. ts \in [1 .. N -> Y]
    BY <1>2
  <2> HIDE DEF ts, Y
  <2> QED BY <1>1, <2>1, FunctionIsSeq
<1>8. \A k \in 1 .. N : ts[k] = Text(points[k])
  OBVIOUS
<1>9. P = [k \in 1 .. N |-> ts[k] \o <<nl>>]
  <2>1. P = [k \in 1 .. N |-> Line(points[k])]
    BY <1>1, Zenon
  <2> HIDE DEF P, ts, N
  <2> QED BY <1>5, <1>8, <2>1
<1> HIDE DEF ts, P, N
<1>10. ls = g
  <2>1. ts \in Seq(Seq(A)) /\ \A k \in 1 .. Len(ts) : Len(ts[k]) > 0 /\ Closed(ts[k])
    BY <1>2, <1>7, <1>8, Zenon
  <2>2. P = [k \in 1 .. Len(ts) |-> ts[k] \o <<nl>>]
    BY <1>7, <1>9, Zenon
  <2>3. Split(FlattenSeq(P), nl) = [k \in 1 .. Len(ts) + 1 |-> IF k \in 1 .. Len(ts) THEN ts[k] ELSE <<>>]
    <3>1. LinesEnded(A, nl, ts, P)
      BY <1>6, <2>1, <2>2, Zenon DEF LinesEnded
    <3> QED BY <3>1, SplitLines
  <2> QED BY <1>7, <2>3, Zenon
<1> HIDE DEF ls, F
<1>11. g \in Seq(Y) /\ Len(g) = N + 1 /\ \A k \in 1 .. N : g[k] = ts[k]
  <2>1. \A k \in 1 .. N : ts[k] \in Y /\ k \in 1 .. N + 1
    BY <1>1, <1>2, <1>8
  <2>2. <<>> \in Y
    OBVIOUS
  <2>3. \A k \in 1 .. N : g[k] = ts[k]
    BY <2>1
  <2>4. g \in [1 .. N + 1 -> Y]
    <3> HIDE DEF Y
    <3> QED BY <2>1, <2>2
  <2>5. N + 1 \in Nat
    BY <1>1
  <2> HIDE DEF g, Y
  <2> QED BY <2>3, <2>4, <2>5, FunctionIsSeq
<1> HIDE DEF g, Y
<1>12. SubSeq(g, 1, N) = ts
  <2> DEFINE s == SubSeq(g, 1, N)
  <2>1. /\ s \in Seq(Y) /\ Len(s) = N /\ \A k \in 1 .. N : s[k] = g[k]
    <3>1. \A k \in 1 .. N : g[k] \in Y
      BY <1>1, <1>11
    <3>2. SubSeq(g, 1, N) = [k \in 1 .. N |-> g[1 + k - 1]]
      BY <1>1
    <3>3. \A k \in 1 .. N : 1 + k - 1 = k
      BY <1>1
    <3>4. s \in [1 .. N -> Y] /\ \A k \in 1 .. N : s[k] = g[k]
      BY <3>1, <3>2, <3>3
    <3> HIDE DEF s
    <3> QED BY <1>1, <3>4, FunctionIsSeq
  <2> HIDE DEF s
  <2>2. \A k \in 1 .. Len(s) : s[k] = ts[k]
    BY <1>11, <2>1
  <2>3. s = ts
    BY <1>7, <2>1, <2>2, SeqEqual
  <2> QED BY <2>3 DEF s
<1>13. Len(ls) - 1 = N
  <2>1. N + 1 - 1 = N
    BY <1>1
  <2>2. Len(ls) = N + 1
    BY <1>10, <1>11, Zenon
  <2> DEFINE len == Len(ls)
  <2>3. len = N + 1 /\ N \in Nat
    BY <1>1, <2>2
  <2> HIDE DEF len
  <2>4. len - 1 = N
    BY <2>3
  <2> QED BY <2>4 DEF len
<1>14. LinesOf(F) = ts
  BY <1>4, <1>10, <1>12, <1>13, Zenon
<1> QED BY <1>3, <1>14, Zenon DEF ts, N

\* Points with the same tags and time are of the same metric and time.
LEMMA PointsDiffer ==
  ASSUME NEW p \in BatchPoint, NEW q \in BatchPoint
  PROVE  /\ Point(p).tags = Point(q).tags <=> p.metric = q.metric
         /\ Point(p).ts = Point(q).ts <=> p.ts = q.ts
<1> DEFINE h == [key |-> <<"host">>, value |-> Host]
           t(m) == [key |-> <<"metric">>, value |-> m]
<1>1. Point(p).tags = {h, t(p.metric)} /\ Point(q).tags = {h, t(q.metric)}
  BY DEF Point
<1>2. Point(p).ts = Decimal(p.ts) /\ Point(q).ts = Decimal(q.ts)
  BY DEF Point
<1>3. p.ts \in Nat /\ q.ts \in Nat
  BY DEF BatchPoint
<1>4. \A m : t(m) # h
  <2>1. <<"host">> # <<"metric">>
    <3>1. <<"host">>[1] # <<"metric">>[1]
      OBVIOUS
    <3> QED BY <3>1
  <2> SUFFICES ASSUME NEW m, t(m) = h PROVE FALSE
    OBVIOUS
  <2>2. t(m).key = <<"metric">> /\ h.key = <<"host">>
    OBVIOUS
  <2> QED BY <2>1, <2>2
<1>5. \A m, n : t(m) = t(n) => m = n
  <2> SUFFICES ASSUME NEW m, NEW n, t(m) = t(n) PROVE m = n
    OBVIOUS
  <2>1. t(m).value = m /\ t(n).value = n
    OBVIOUS
  <2> QED BY <2>1
<1> HIDE DEF h, t
<1>6. \A x, y : x # h /\ y # h /\ {h, x} = {h, y} => x = y
  OBVIOUS
<1>7. Point(p).tags = Point(q).tags => p.metric = q.metric
  BY <1>1, <1>4, <1>5, <1>6
<1>8. Point(p).ts = Point(q).ts => p.ts = q.ts
  BY <1>2, <1>3, DecimalsDiffer
<1> QED BY <1>1, <1>2, <1>7, <1>8

\* The points of a batch that no later one of their metric and time replaces.
LastOnes(points) ==
  {points[i] : i \in {i \in DOMAIN points : \A j \in i + 1 .. Len(points) :
     points[j].metric # points[i].metric \/ points[j].ts # points[i].ts}}

LEMMA DatabaseRead ==
  ASSUME NEW points \in Seq(BatchPoint)
  PROVE  DatabaseOf(InfluxRequest(points).body) = {Point(p) : p \in LastOnes(points)}
<1> DEFINE N == Len(points)
           body == InfluxRequest(points).body
           ls == LinesOf(body)
           ps == [i \in DOMAIN ls |-> PointOf(ls[i])]
           last == {i \in DOMAIN ls : \A j \in i + 1 .. Len(ls) :
                      ps[j].tags # ps[i].tags \/ ps[j].ts # ps[i].ts}
           kept == {i \in DOMAIN points : \A j \in i + 1 .. N :
                      points[j].metric # points[i].metric \/ points[j].ts # points[i].ts}
<1>1. N \in Nat /\ DOMAIN points = 1 .. N /\ \A k \in 1 .. N : points[k] \in BatchPoint
  OBVIOUS
<1>2. DatabaseOf(body) = {ps[i] : i \in last}
  BY Zenon DEF DatabaseOf
<1>3. ls = [i \in 1 .. N |-> Text(points[i])]
  BY LinesRead
<1> HIDE DEF body, ls, N
<1>4. DOMAIN ls = 1 .. N /\ Len(ls) = N /\ \A k \in 1 .. N : ls[k] = Text(points[k])
  <2>1. ls \in [1 .. N -> {Text(points[i]) : i \in 1 .. N}] /\ \A k \in 1 .. N : ls[k] = Text(points[k])
    BY <1>3
  <2> QED BY <1>1, <2>1, FunctionIsSeq
<1>5. \A k \in 1 .. N : ps[k] = Point(points[k])
  <2> SUFFICES ASSUME NEW k \in 1 .. N PROVE ps[k] = Point(points[k])
    OBVIOUS
  <2>1. PointOf(Text(points[k])) = Point(points[k])
    BY <1>1, PointRead
  <2>2. ps[k] = PointOf(ls[k])
    BY <1>4
  <2> QED BY <1>4, <2>1, <2>2, Zenon
<1> HIDE DEF ps
<1>6. \A i \in 1 .. N : \A j \in i + 1 .. N : j \in 1 .. N
  BY <1>1
<1>7. \A i, j \in 1 .. N : /\ ps[j].tags # ps[i].tags <=> points[j].metric # points[i].metric
                           /\ ps[j].ts # ps[i].ts <=> points[j].ts # points[i].ts
  <2> SUFFICES ASSUME NEW i \in 1 .. N, NEW j \in 1 .. N
               PROVE  /\ ps[j].tags # ps[i].tags <=> points[j].metric # points[i].metric
                      /\ ps[j].ts # ps[i].ts <=> points[j].ts # points[i].ts
    OBVIOUS
  <2>1. points[i] \in BatchPoint /\ points[j] \in BatchPoint
    BY <1>1
  <2>2. /\ Point(points[j]).tags = Point(points[i]).tags <=> points[j].metric = points[i].metric
        /\ Point(points[j]).ts = Point(points[i]).ts <=> points[j].ts = points[i].ts
    BY <2>1, PointsDiffer
  <2>3. ps[i] = Point(points[i]) /\ ps[j] = Point(points[j])
    BY <1>5
  <2> QED BY <2>2, <2>3, Zenon
<1>8. last = kept
  <2>1. last = {i \in 1 .. N : \A j \in i + 1 .. N : ps[j].tags # ps[i].tags \/ ps[j].ts # ps[i].ts}
    BY <1>4, Zenon
  <2>2. kept = {i \in 1 .. N : \A j \in i + 1 .. N :
                  points[j].metric # points[i].metric \/ points[j].ts # points[i].ts}
    BY <1>1, Zenon
  <2>3. ASSUME NEW i \in 1 .. N
        PROVE  (\A j \in i + 1 .. N : ps[j].tags # ps[i].tags \/ ps[j].ts # ps[i].ts)
                 <=> (\A j \in i + 1 .. N :
                        points[j].metric # points[i].metric \/ points[j].ts # points[i].ts)
    BY <1>6, <1>7, Zenon
  <2> QED BY <2>1, <2>2, <2>3
<1>9. LastOnes(points) = {points[i] : i \in kept}
  BY Zenon DEF LastOnes, N
<1>10. kept \subseteq 1 .. N
  BY <1>1
<1> HIDE DEF last, kept
<1>11. {ps[i] : i \in last} = {Point(p) : p \in {points[i] : i \in kept}}
  <2> DEFINE X == {ps[i] : i \in last}
             Z == {Point(p) : p \in {points[i] : i \in kept}}
  <2>1. ASSUME NEW x \in X PROVE x \in Z
    <3>1. PICK i \in last : x = ps[i]
      OBVIOUS
    <3>2. i \in kept /\ x = Point(points[i])
      BY <1>5, <1>8, <1>10, <3>1
    <3> QED BY <3>2
  <2>2. ASSUME NEW x \in Z PROVE x \in X
    <3>1. PICK i \in kept : x = Point(points[i])
      OBVIOUS
    <3>2. i \in last /\ x = ps[i]
      BY <1>5, <1>8, <1>10, <3>1
    <3> QED BY <3>2
  <2> QED BY <2>1, <2>2
<1> QED BY <1>2, <1>9, <1>11, Zenon DEF body

\* What InfluxDB stores of a flush is the last point of every metric and time of
\* its batch, whatever the names of the metrics (InfluxWriter.Write,
\* escapeTagKey, formatFloat: backends.go:314-340).
THEOREM ExportInfluxReceivesBatch == Spec => []InfluxReceivesBatch
<1>1. ExportTyped => InfluxReceivesBatch
  <2> SUFFICES ASSUME ExportTyped, Done("influxdb") PROVE InfluxReceivesBatch
    BY DEF InfluxReceivesBatch
  <2>1. outlet = "influxdb" /\ stage = "done"
    BY DEF Done
  <2>2. batch \in Seq(BatchPoint) /\ wire = InfluxRequest(batch) /\ received = DatabaseOf(wire.body)
    BY <2>1 DEF ExportTyped, FlushSent
  <2>3. PICK points : points = batch
    OBVIOUS
  <2>4. DatabaseOf(InfluxRequest(points).body) = {Point(p) : p \in LastOnes(points)}
    BY <2>2, <2>3, DatabaseRead
  <2>5. received = {Point(p) : p \in LastOnes(batch)}
    BY <2>2, <2>3, <2>4, Zenon
  <2>6. wire.precision = "ms"
    BY <2>2 DEF InfluxRequest
  <2>7. {Point(p) : p \in LastOnes(batch)} =
          {[measurement |-> <<"rhelmon">>,
            tags |-> {[key |-> <<"host">>, value |-> Host], [key |-> <<"metric">>, value |-> p.metric]},
            fields |-> <<"value", "=", IF p.value \in NonFinite THEN "0" ELSE p.value>>,
            ts |-> Decimal(p.ts)] : p \in LastOnes(batch)}
    BY Zenon DEF Point, ValueText, formatFloat
  <2> QED BY <2>5, <2>6, <2>7, Zenon DEF InfluxReceivesBatch, LastOnes
<1> QED BY <1>1, ExportInvariant, PTL
=============================================================================
