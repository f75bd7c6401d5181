------------------------- MODULE TsdbManagerProofs -------------------------
(* What the flushes of tsdb.Manager keep, for any series, writers, window  *)
(* and bounds.                                                             *)
EXTENDS TsdbManager, SequenceTheorems, FiniteSetTheorems, TLAPS

-----------------------------------------------------------------------------
(* Induction up to a bound, and the loop of flush.                         *)

\* A set of naturals has a least element: the intervals below its elements are
\* finite sets, of which one has no proper subset.
LEMMA Least ==
  ASSUME NEW n \in Nat, NEW T \in SUBSET (0 .. n), T # {}
  PROVE  \E k \in T : \A l \in T : k <= l
<1> DEFINE Below == {1 .. k : k \in T}
           S == 1 .. n
<1>1. IsFiniteSet(S)
  BY FS_Interval
<1>2. Below # {} /\ Below \subseteq SUBSET S /\ Below \subseteq FiniteSubsetsOf(S)
  <2>1. \A k \in T : IsFiniteSet(1 .. k) /\ 1 .. k \subseteq S
    BY FS_Interval
  <2> QED BY <2>1 DEF FiniteSubsetsOf
<1>3. PICK B \in Below : \A C \in Below : ~ (<<C, B>> \in StrictSubsetOrdering(S))
  <2> HIDE DEF Below, S
  <2> QED BY <1>1, <1>2, FS_StrictSubsetOrderingWellFounded, WFMin
<1>4. PICK k \in T : B = 1 .. k
  OBVIOUS
<1>5. \A l \in T : k <= l
  <2> SUFFICES ASSUME NEW l \in T, l < k PROVE FALSE
    OBVIOUS
  <2>1. 1 .. l \in Below /\ 1 .. l \subseteq 1 .. k /\ k \in 1 .. k /\ k \notin 1 .. l
    OBVIOUS
  <2>2. <<1 .. l, 1 .. k>> \in StrictSubsetOrdering(S)
    BY <2>1, <1>2, <1>4 DEF StrictSubsetOrdering
  <2> QED BY <1>3, <1>4, <2>1, <2>2
<1> QED BY <1>5

LEMMA UpTo ==
  ASSUME NEW n \in Nat, NEW T \in SUBSET (0 .. n), 0 \in T,
         \A k \in 0 .. n : k \in T /\ k < n => k + 1 \in T
  PROVE  T = 0 .. n
<1> SUFFICES ASSUME T # 0 .. n PROVE FALSE
  OBVIOUS
<1>1. PICK k \in (0 .. n) \ T : \A l \in (0 .. n) \ T : k <= l
  BY Least
<1>2. k - 1 \in 0 .. n /\ k - 1 \in T /\ k - 1 < n
  BY <1>1
<1> QED BY <1>1, <1>2

\* The loop computes what its definition says: there is such a function.
LEMMA KeptStep ==
  ASSUME NEW ids, NEW keep, Len(ids) \in Nat
  PROVE  /\ Kept(ids, keep)[0] = <<>>
         /\ \A k \in 1 .. Len(ids) :
              Kept(ids, keep)[k] = IF ids[k] \in keep
                                   THEN Append(Kept(ids, keep)[k - 1], ids[k])
                                   ELSE Kept(ids, keep)[k - 1]
<1> DEFINE n == Len(ids)
           P(k, f) == f = [j \in 0 .. k |->
                             IF j = 0 THEN <<>>
                             ELSE IF ids[j] \in keep THEN Append(f[j - 1], ids[j])
                                                     ELSE f[j - 1]]
           T == {k \in 0 .. n : \E f : P(k, f)}
<1>1. 0 \in T
  <2>1. P(0, [j \in 0 .. 0 |-> <<>>])
    OBVIOUS
  <2> HIDE DEF P
  <2> QED BY <2>1
<1>2. ASSUME NEW k \in 0 .. n, k \in T, k < n PROVE k + 1 \in T
  <2>1. PICK f : P(k, f)
    BY <1>2
  <2> DEFINE last == IF ids[k + 1] \in keep THEN Append(f[k], ids[k + 1]) ELSE f[k]
             g == [j \in 0 .. k + 1 |-> IF j = k + 1 THEN last ELSE f[j]]
  <2>2. ASSUME NEW j \in 0 .. k + 1
        PROVE  g[j] = IF j = 0 THEN <<>>
                      ELSE IF ids[j] \in keep THEN Append(g[j - 1], ids[j]) ELSE g[j - 1]
    <3>1. CASE j = k + 1
      <4>1. g[j] = last /\ g[j - 1] = f[k] /\ j # 0
        BY <3>1
      <4> QED BY <4>1, <3>1
    <3>2. CASE j # k + 1
      <4>1. j \in 0 .. k /\ g[j] = f[j] /\ (j # 0 => g[j - 1] = f[j - 1])
        BY <3>2
      <4>2. f[j] = IF j = 0 THEN <<>>
                   ELSE IF ids[j] \in keep THEN Append(f[j - 1], ids[j]) ELSE f[j - 1]
        BY <2>1, <4>1
      <4> HIDE DEF g, P
      <4> QED BY <4>1, <4>2
    <3> QED BY <3>1, <3>2
  <2>3. P(k + 1, g)
    BY <2>2
  <2>4. k + 1 \in 0 .. n
    BY <1>2
  <2> HIDE DEF P, g, n
  <2> QED BY <2>3, <2>4
<1>3. n \in T
  <2> HIDE DEF T
  <2>1. T \in SUBSET (0 .. n)
    BY DEF T
  <2>2. T = 0 .. n
    BY <1>1, <1>2, <2>1, UpTo
  <2> QED BY <2>2
<1>4. PICK f : P(n, f)
  BY <1>3
<1>5. P(n, CHOOSE g : P(n, g))
  <2> HIDE DEF P
  <2> QED BY <1>4, Zenon
<1>6. Kept(ids, keep) = CHOOSE g : P(n, g)
  BY Zenon DEF Kept
<1>7. P(n, Kept(ids, keep))
  BY <1>5, <1>6, Zenon
<1> DEFINE K == Kept(ids, keep)
<1>8. K = [j \in 0 .. n |-> IF j = 0 THEN <<>>
                           ELSE IF ids[j] \in keep THEN Append(K[j - 1], ids[j])
                                                   ELSE K[j - 1]]
  BY <1>7
<1> HIDE DEF K, n
<1>9. /\ K[0] = <<>>
      /\ \A k \in 1 .. n : K[k] = IF ids[k] \in keep THEN Append(K[k - 1], ids[k]) ELSE K[k - 1]
  <2>1. n \in Nat
    BY DEF n
  <2>2. 0 \in 0 .. n /\ \A k \in 1 .. n : k \in 0 .. n /\ k # 0
    BY <2>1
  <2> DEFINE F(j) == IF j = 0 THEN <<>>
                     ELSE IF ids[j] \in keep THEN Append(K[j - 1], ids[j]) ELSE K[j - 1]
  <2>3. K = [j \in 0 .. n |-> F(j)]
    BY <1>8
  <2> HIDE DEF F
  <2>4. \A j \in 0 .. n : K[j] = F(j)
    BY <2>3
  <2> QED BY <2>2, <2>4 DEF F
<1> QED BY <1>9 DEF K, n

Increasing(s) == \A i, j \in 1 .. Len(s) : i < j => s[i] < s[j]

LEMMA AppendLarger ==
  ASSUME NEW s \in Seq(Nat), Increasing(s), NEW x \in Nat, \A i \in 1 .. Len(s) : s[i] < x
  PROVE  /\ Append(s, x) \in Seq(Nat) /\ Increasing(Append(s, x))
         /\ Range(Append(s, x)) = Range(s) \cup {x}
<1> DEFINE t == Append(s, x)
<1>1. /\ t \in Seq(Nat) /\ Len(t) = Len(s) + 1 /\ Len(s) \in Nat
      /\ \A i \in 1 .. Len(s) : t[i] = s[i]
      /\ t[Len(s) + 1] = x
  BY AppendProperties, LenProperties
<1> HIDE DEF t
<1>2. 1 .. Len(t) = 1 .. Len(s) \cup {Len(s) + 1}
  BY <1>1
<1>3. Increasing(t)
  <2> SUFFICES ASSUME NEW i \in 1 .. Len(t), NEW j \in 1 .. Len(t), i < j
               PROVE  t[i] < t[j]
    BY DEF Increasing
  <2>1. i \in 1 .. Len(s) /\ t[i] = s[i]
    BY <1>1
  <2>2. CASE j \in 1 .. Len(s)
    BY <1>1, <2>1, <2>2 DEF Increasing
  <2>3. CASE j = Len(s) + 1
    BY <1>1, <2>1, <2>3
  <2> QED BY <1>2, <2>2, <2>3
<1>4. Range(t) = {t[i] : i \in 1 .. Len(t)} /\ Range(s) = {s[i] : i \in 1 .. Len(s)}
  BY <1>1, RangeEquality
<1>5. Range(t) = Range(s) \cup {x}
  <2>1. ASSUME NEW y \in Range(t) PROVE y \in Range(s) \cup {x}
    <3>1. PICK i \in 1 .. Len(t) : y = t[i]
      BY <1>4
    <3>2. CASE i \in 1 .. Len(s)
      BY <1>1, <1>4, <3>1, <3>2
    <3>3. CASE i = Len(s) + 1
      BY <1>1, <3>1, <3>3
    <3> QED BY <1>2, <3>2, <3>3
  <2>2. ASSUME NEW y \in Range(s) PROVE y \in Range(t)
    <3>1. PICK i \in 1 .. Len(s) : y = s[i]
      BY <1>4
    <3>2. i \in 1 .. Len(t) /\ t[i] = y
      BY <1>1, <1>2, <3>1
    <3> QED BY <1>4, <3>2
  <2>3. x \in Range(t)
    <3>1. Len(s) + 1 \in 1 .. Len(t)
      BY <1>2
    <3> QED BY <1>1, <1>4, <3>1
  <2> QED BY <2>1, <2>2, <2>3
<1> QED BY <1>1, <1>3, <1>5 DEF t

\* What it keeps is in increasing order, if the positions are.
LEMMA KeptIs ==
  ASSUME NEW ids \in Seq(Nat), Increasing(ids), NEW keep
  PROVE  LET all == Kept(ids, keep)[Len(ids)]
         IN  /\ all \in Seq(Nat) /\ Increasing(all)
             /\ Range(all) = Range(ids) \cap keep
<1> DEFINE n == Len(ids)
           K == Kept(ids, keep)
           Good(k) == /\ K[k] \in Seq(Nat) /\ Increasing(K[k])
                      /\ Range(K[k]) = {ids[i] : i \in 1 .. k} \cap keep
           T == {k \in 0 .. n : Good(k)}
<1>1. n \in Nat
  BY LenProperties
<1>2. 0 \in T
  <2>1. K[0] = <<>>
    BY <1>1, KeptStep
  <2>2. <<>> \in Seq(Nat) /\ Len(<<>>) = 0
    BY EmptySeq
  <2>3. Range(<<>>) = {(<<>>)[i] : i \in 1 .. 0}
    BY <2>2, RangeEquality
  <2>4. 1 .. 0 = {}
    OBVIOUS
  <2>5. Good(0)
    BY <2>1, <2>2, <2>3, <2>4 DEF Increasing
  <2> QED BY <1>1, <2>5
<1>3. ASSUME NEW k \in 0 .. n, k \in T, k < n PROVE k + 1 \in T
  <2>1. Good(k) /\ k + 1 \in 1 .. n /\ (k + 1) - 1 = k
    <3> HIDE DEF Good, n
    <3> QED BY <1>1, <1>3
  <2> DEFINE x == ids[k + 1]
  <2>2. x \in Nat /\ K[k + 1] = IF x \in keep THEN Append(K[k], x) ELSE K[k]
    BY <1>1, <2>1, KeptStep, ElementOfSeq
  <2>3. {ids[i] : i \in 1 .. k + 1} = {ids[i] : i \in 1 .. k} \cup {x}
    <3>1. 1 .. k + 1 = 1 .. k \cup {k + 1}
      BY <2>1
    <3> QED BY <3>1
  <2>4. CASE x \notin keep
    <3>1. Good(k + 1)
      BY <2>1, <2>2, <2>3, <2>4
    <3> QED BY <2>1, <3>1
  <2>5. CASE x \in keep
    <3>1. K[k] \in Seq(Nat) /\ Increasing(K[k]) /\ K[k + 1] = Append(K[k], x)
      BY <2>1, <2>2, <2>5
    <3>2. \A i \in 1 .. Len(K[k]) : K[k][i] < x
      <4>1. ASSUME NEW i \in 1 .. k PROVE ids[i] < x
        <5>1. i \in 1 .. Len(ids) /\ k + 1 \in 1 .. Len(ids) /\ i < k + 1
          BY <1>1, <2>1
        <5> QED BY <5>1 DEF Increasing
      <4>2. \A i \in 1 .. Len(K[k]) : K[k][i] \in Range(K[k])
        BY <3>1, RangeEquality
      <4>3. \A y \in Range(K[k]) : \E i \in 1 .. k : y = ids[i]
        BY <2>1
      <4> QED BY <4>1, <4>2, <4>3, Zenon
    <3>3. /\ K[k + 1] \in Seq(Nat) /\ Increasing(K[k + 1])
          /\ Range(K[k + 1]) = Range(K[k]) \cup {x}
      <4> HIDE DEF K, x
      <4> QED BY <2>2, <3>1, <3>2, AppendLarger
    <3>6. Good(k + 1)
      BY <2>1, <2>3, <2>5, <3>3
    <3> QED BY <2>1, <3>6
  <2> QED BY <2>4, <2>5
<1>4. n \in T
  <2> HIDE DEF T
  <2>1. T \in SUBSET (0 .. n)
    BY DEF T
  <2>2. T = 0 .. n
    BY <1>1, <1>2, <1>3, <2>1, UpTo
  <2> QED BY <1>1, <2>2
<1>5. Range(ids) = {ids[i] : i \in 1 .. n}
  BY RangeEquality
<1> QED BY <1>4, <1>5

-----------------------------------------------------------------------------
(* What a visit finds new.                                                 *)

\* The positions of the window.
LEMMA LastIdsAre ==
  ASSUME NEW m \in Metric, Len(pushed[m]) \in Nat
  PROVE  /\ LastIds(m) \in Seq(Nat) /\ Increasing(LastIds(m))
         /\ Range(LastIds(m)) = {i \in 1 .. Len(pushed[m]) : i > Len(pushed[m]) - Window}
<1> DEFINE n == Len(pushed[m])
           k == IF n > Window THEN Window ELSE n
           s == [i \in 1 .. k |-> n - k + i]
<1>1. n \in Nat /\ k \in Nat /\ k <= n /\ Window \in Nat /\ (n > Window => k = Window)
      /\ (~ n > Window => k = n)
  BY BoundAssumption
<1>2. LastIds(m) = s
  BY DEF LastIds
<1> HIDE DEF n, k
<1>3. \A i \in 1 .. k : n - k + i \in 1 .. n /\ n - k + i > n - Window
  BY <1>1
<1>4. s \in [1 .. k -> Nat]
  BY <1>3
<1>5. s \in Seq(Nat)
  BY <1>1, <1>4, SeqDef
<1>6. Len(s) = k
  BY <1>1, <1>4, <1>5, LenProperties
<1>7. Increasing(s)
  BY <1>1, <1>6 DEF Increasing
<1>8. Range(s) = {s[i] : i \in 1 .. k}
  BY <1>5, <1>6, RangeEquality
<1>9. Range(s) = {i \in 1 .. n : i > n - Window}
  <2>1. ASSUME NEW i \in 1 .. n, i > n - Window PROVE i \in Range(s)
    <3>1. i - (n - k) \in 1 .. k /\ s[i - (n - k)] = i
      BY <1>1, <2>1
    <3> QED BY <1>8, <3>1
  <2>2. \A i \in Range(s) : i \in 1 .. n /\ i > n - Window
    BY <1>3, <1>8
  <2> HIDE DEF s
  <2> QED BY <2>1, <2>2
<1> QED BY <1>2, <1>5, <1>7, <1>9 DEF n

LEMMA FreshIs ==
  ASSUME NEW m \in Metric, Len(pushed[m]) \in Nat
  PROVE  /\ Fresh(m) \in Seq(Nat) /\ Increasing(Fresh(m))
         /\ Range(Fresh(m)) = {i \in 1 .. Len(pushed[m]) :
                                 i > Len(pushed[m]) - Window /\ pushed[m][i] > cursors[m]}
<1> DEFINE newer == {i \in 1 .. Len(pushed[m]) : pushed[m][i] > cursors[m]}
           all == Kept(LastIds(m), newer)[Len(LastIds(m))]
<1>1. Fresh(m) = all
  BY DEF Fresh
<1>2. LastIds(m) \in Seq(Nat) /\ Increasing(LastIds(m))
  BY LastIdsAre
<1>3. Range(LastIds(m)) = {i \in 1 .. Len(pushed[m]) : i > Len(pushed[m]) - Window}
  BY LastIdsAre
<1>4. all \in Seq(Nat) /\ Increasing(all) /\ Range(all) = Range(LastIds(m)) \cap newer
  BY <1>2, KeptIs
<1> HIDE DEF all
<1> QED BY <1>1, <1>3, <1>4

-----------------------------------------------------------------------------
(* The inductive invariant.                                                *)

\* Who runs the flush that is under way: the goroutine, or Stop.
Control ==
  /\ loop = "flush" => flush # "none" /\ phase \in {"running", "stopping"}
  /\ phase \in {"draining", "stopped"} => loop = "exited"
  /\ phase = "draining" <=> flush # "none" /\ loop # "flush"
  /\ flush = "collect" => left = Len(Writers)
  /\ flush = "write" => todo = {}

\* What a cursor stands for: it is the stamp of a sample that was sent, and no
\* earlier than the one that was the newest at the last visit.
CursorIsSent ==
  \A m \in Metric :
    /\ visited[m] <= Len(pushed[m])
    /\ Range(sent[m]) \subseteq 1 .. visited[m]
    /\ visited[m] > 0 => cursors[m] >= pushed[m][visited[m]]
    /\ cursors[m] > 0 => \E j \in Range(sent[m]) : pushed[m][j] = cursors[m]

\* The series still to visit have samples; once the producers are stopped the
\* others stay visited.
Draining ==
  /\ todo \subseteq Names
  /\ phase \in {"draining", "stopped"} => \A m \in Metric \ todo : visited[m] = Len(pushed[m])

\* The writers called in this flush have been handed all that was sent, the
\* others all but the batch.
Called(i) == flush = "write" /\ i < Turn

Batches ==
  /\ \A i \in WriterIds, m \in Metric :
       sent[m] = IF Called(i) THEN handed[i][m] ELSE handed[i][m] \o points[m]
  /\ \A m \in todo : points[m] = <<>>

IInv ==
  /\ TypeOK /\ Control /\ CursorIsSent /\ Draining /\ Batches
  /\ InOrderAtMostOnce /\ LossesExplained

\* What the type invariant says of a series and of a writer.
LEMMA OfSeries ==
  ASSUME TypeOK, NEW m \in Metric
  PROVE  /\ pushed[m] \in Seq(1 .. MaxTime) /\ Len(pushed[m]) \in Nat
         /\ Len(pushed[m]) <= MaxPush[m]
         /\ cursors[m] \in Nat /\ cursors[m] \in {0} \cup Range(pushed[m])
         /\ points[m] \in Seq(Nat) /\ sent[m] \in Seq(Nat)
         /\ Len(points[m]) \in Nat /\ Len(sent[m]) \in Nat
         /\ Range(points[m]) \subseteq 1 .. Len(pushed[m])
         /\ visited[m] \in Nat /\ crowded[m] \in SUBSET Nat /\ m \in Nat
<1>1. pushed[m] \in Seq(1 .. MaxTime) /\ points[m] \in Seq(Nat) /\ sent[m] \in Seq(Nat)
  BY DEF TypeOK, Batch
<1>2. Len(pushed[m]) \in Nat /\ Len(points[m]) \in Nat /\ Len(sent[m]) \in Nat
  BY <1>1, LenProperties
<1>3. /\ Len(pushed[m]) <= MaxPush[m]
      /\ cursors[m] \in Nat /\ cursors[m] \in {0} \cup Range(pushed[m])
      /\ Range(points[m]) \subseteq 1 .. Len(pushed[m])
      /\ visited[m] \in Nat /\ crowded[m] \in SUBSET Nat /\ m \in Nat
  BY MetricAssumption DEF TypeOK, PointsOf
<1> QED BY <1>1, <1>2, <1>3

LEMMA NoPointsIs ==
  /\ NoPoints \in Batch
  /\ \A m \in Metric : NoPoints[m] = <<>> /\ Len(NoPoints[m]) = 0 /\ Range(NoPoints[m]) = {}
<1>1. <<>> \in Seq(Nat) /\ Len(<<>>) = 0
  BY EmptySeq
<1>2. Range(<<>>) = {(<<>>)[i] : i \in 1 .. 0}
  BY <1>1, RangeEquality
<1>3. 1 .. 0 = {}
  OBVIOUS
<1> QED BY <1>1, <1>2, <1>3 DEF NoPoints, Batch

LEMMA InitInv == Init => IInv
<1> SUFFICES ASSUME Init PROVE IInv
  OBVIOUS
<1> USE NoPointsIs
<1>1. Len(Writers) \in Nat /\ MaxTick \in Nat /\ MaxPush \in [Metric -> Nat]
  BY WritersAssumption, BoundAssumption
<1>2. pushed \in [Metric -> Seq(1 .. MaxTime)] /\ \A m \in Metric : Len(pushed[m]) <= MaxPush[m]
  <2>1. <<>> \in Seq(1 .. MaxTime)
    BY EmptySeq
  <2>2. pushed \in [Metric -> Seq(1 .. MaxTime)]
    BY <2>1 DEF Init, NoPoints
  <2>3. \A m \in Metric : MaxPush[m] \in Nat /\ Len(pushed[m]) = 0
    BY <1>1 DEF Init
  <2> QED BY <2>2, <2>3
<1>3. PointsOf(points) /\ \A i \in WriterIds : PointsOf(refused[i])
  BY DEF Init, PointsOf
<1>4. TypeOK
  <2>1. cursors \in [Metric -> Nat] /\ \A m \in Metric : cursors[m] \in {0} \cup Range(pushed[m])
    BY DEF Init
  <2>2. /\ points \in Batch /\ sent \in Batch
        /\ handed \in [WriterIds -> Batch] /\ refused \in [WriterIds -> Batch]
    BY DEF Init
  <2>3. visited \in [Metric -> Nat] /\ crowded \in [Metric -> SUBSET Nat]
    BY DEF Init
  <2> HIDE NoPointsIs
  <2>4. /\ ticks \in 0 .. MaxTick /\ tick \in BOOLEAN
        /\ phase = "running" /\ loop = "select" /\ flush = "none" /\ todo = {}
        /\ points = NoPoints /\ left \in 0 .. Len(Writers)
    <3>1. ticks = 0 /\ left = 0 /\ 0 \in 0 .. MaxTick /\ 0 \in 0 .. Len(Writers)
      BY <1>1 DEF Init
    <3> QED BY <3>1 DEF Init
  <2> QED BY <1>2, <1>3, <2>1, <2>2, <2>3, <2>4, Zenon DEF TypeOK
<1>5. Control /\ Draining
  BY DEF Init, Control, Draining
<1>6. CursorIsSent /\ InOrderAtMostOnce /\ LossesExplained
  <2>1. ASSUME NEW m \in Metric
        PROVE  /\ Len(sent[m]) = 0 /\ Range(sent[m]) = {} /\ Len(pushed[m]) = 0
               /\ visited[m] = 0 /\ cursors[m] = 0
    BY DEF Init
  <2>2. 1 .. 0 = {}
    OBVIOUS
  <2> HIDE NoPointsIs
  <2>3. CursorIsSent
    BY <2>1 DEF CursorIsSent
  <2>4. InOrderAtMostOnce /\ LossesExplained
    BY <2>1, <2>2, Zenon DEF InOrderAtMostOnce, LossesExplained
  <2> QED BY <2>3, <2>4
<1>7. Batches
  <2>1. \A i \in WriterIds, m \in Metric : handed[i][m] = <<>> /\ points[m] = <<>> /\ sent[m] = <<>>
    BY DEF Init
  <2>2. <<>> \o <<>> = <<>>
    OBVIOUS
  <2> QED BY <2>1, <2>2 DEF Init, Batches
<1> QED BY <1>4, <1>5, <1>6, <1>7 DEF IInv

-----------------------------------------------------------------------------
(* Steps that leave the cursors alone.                                     *)

\* The invariants about what was sent are about these variables.
LEMMA SameSent ==
  ASSUME CursorIsSent, InOrderAtMostOnce, LossesExplained,
         UNCHANGED <<pushed, cursors, sent, visited, crowded>>
  PROVE  CursorIsSent' /\ InOrderAtMostOnce' /\ LossesExplained'
<1>1. CursorIsSent'
  BY DEF CursorIsSent
<1>2. InOrderAtMostOnce'
  BY DEF InOrderAtMostOnce, SetBack
<1>3. LossesExplained'
  BY DEF LossesExplained, Overtaken
<1> QED BY <1>1, <1>2, <1>3

LEMMA SameType ==
  ASSUME TypeOK, UNCHANGED <<pushed, cursors, hist, ticks>>,
         tick' \in BOOLEAN, phase' \in {"running", "stopping", "draining", "stopped"},
         loop' \in {"select", "flush", "exited"}, flush' \in {"none", "collect", "write"},
         todo' \subseteq Metric, left' \in 0 .. Len(Writers),
         points' = points \/ points' = NoPoints,
         flush' = "none" => points' = NoPoints /\ todo' = {},
         handed' \in [WriterIds -> Batch],
         \/ refused' = refused
         \/ refused' \in [WriterIds -> Batch] /\ \A i \in WriterIds : PointsOf(refused'[i])
  PROVE  TypeOK'
<1> USE NoPointsIs
<1>1. UNCHANGED pushed
  OBVIOUS
<1>2. points' \in Batch /\ PointsOf(points)'
  BY <1>1 DEF TypeOK, PointsOf
<1>3. refused' \in [WriterIds -> Batch] /\ (\A i \in WriterIds : PointsOf(refused[i]))'
  BY <1>1 DEF TypeOK, PointsOf
<1> QED BY <1>2, <1>3 DEF TypeOK, hist

LEMMA TickInv ==
  ASSUME IInv, Tick
  PROVE  IInv'
<1>1. TypeOK'
  <2>1. ticks' \in 0 .. MaxTick /\ tick' \in BOOLEAN
    BY BoundAssumption DEF IInv, TypeOK, Tick
  <2>2. UNCHANGED <<pushed, phase, loop, flush, todo, points, left, cursors, refused, handed, sent,
                    visited, crowded>>
    BY DEF Tick, work, out, hist
  <2> QED BY <2>1, <2>2 DEF IInv, TypeOK, PointsOf
<1>2. UNCHANGED <<pushed, cursors, sent, visited, crowded>>
  BY DEF Tick, hist
<1>3. CursorIsSent' /\ InOrderAtMostOnce' /\ LossesExplained'
  BY <1>2, SameSent DEF IInv
<1>4. Control' /\ Draining' /\ Batches'
  BY DEF IInv, Tick, work, out, hist, Control, Draining, Names, Batches, Called, Turn
<1> QED BY <1>1, <1>3, <1>4 DEF IInv

LEMMA StopInv ==
  ASSUME IInv, Stop
  PROVE  IInv'
<1>1. UNCHANGED <<ticks, tick, pushed, loop, flush, todo, points, left, cursors, refused, handed,
                  sent, visited, crowded>> /\ phase' = "stopping" /\ phase = "running"
  BY DEF Stop, env, work, out, hist
<1>2. TypeOK'
  BY <1>1, SameType DEF IInv, TypeOK, hist
<1>3. CursorIsSent' /\ InOrderAtMostOnce' /\ LossesExplained'
  BY <1>1, SameSent DEF IInv
<1>4. Control' /\ Draining' /\ Batches'
  BY <1>1 DEF IInv, Control, Draining, Names, Batches, Called, Turn
<1> QED BY <1>2, <1>3, <1>4 DEF IInv

LEMMA LoopExitInv ==
  ASSUME IInv, LoopExit
  PROVE  IInv'
<1>1. UNCHANGED <<ticks, tick, pushed, phase, flush, todo, points, left, cursors, refused, handed,
                  sent, visited, crowded>>
      /\ phase = "stopping" /\ loop = "select" /\ loop' = "exited"
  BY DEF LoopExit, env, work, out, hist
<1>2. TypeOK'
  BY <1>1, SameType DEF IInv, TypeOK, hist
<1>3. CursorIsSent' /\ InOrderAtMostOnce' /\ LossesExplained'
  BY <1>1, SameSent DEF IInv
<1>4. Control' /\ Draining' /\ Batches'
  BY <1>1 DEF IInv, Control, Draining, Names, Batches, Called, Turn
<1> QED BY <1>2, <1>3, <1>4 DEF IInv

LEMMA ProduceInv ==
  ASSUME IInv, NEW m \in Metric, NEW s \in 1 .. MaxTime, Produce(m, s)
  PROVE  IInv'
<1>1. /\ UNCHANGED <<ticks, tick, phase, loop, flush, todo, points, left, cursors, refused, handed,
                     sent, visited, crowded>>
      /\ phase = "running" /\ Len(pushed[m]) < MaxPush[m]
      /\ pushed' = [pushed EXCEPT ![m] = Append(@, s)]
  BY DEF Produce, work, out, hist
<1>2. TypeOK
  BY DEF IInv
<1>3. ASSUME NEW n \in Metric
      PROVE  /\ pushed'[n] \in Seq(1 .. MaxTime) /\ Len(pushed'[n]) \in Nat
             /\ Len(pushed[n]) <= Len(pushed'[n]) /\ Len(pushed'[n]) <= MaxPush[n]
             /\ \A i \in 1 .. Len(pushed[n]) : pushed'[n][i] = pushed[n][i]
  <2>1. pushed[n] \in Seq(1 .. MaxTime) /\ Len(pushed[n]) \in Nat /\ Len(pushed[n]) <= MaxPush[n]
    BY <1>2, OfSeries
  <2>2. CASE n = m
    <3>1. pushed'[n] = Append(pushed[n], s)
      BY <1>1, <1>2, <2>2 DEF TypeOK
    <3>2. /\ Append(pushed[n], s) \in Seq(1 .. MaxTime)
          /\ Len(Append(pushed[n], s)) = Len(pushed[n]) + 1
          /\ \A i \in 1 .. Len(pushed[n]) : Append(pushed[n], s)[i] = pushed[n][i]
      BY <2>1, AppendProperties
    <3>3. Len(pushed[n]) + 1 <= MaxPush[n]
      BY <1>1, <2>1, <2>2, BoundAssumption
    <3> QED BY <2>1, <3>1, <3>2, <3>3
  <2>3. CASE n # m
    <3>1. pushed'[n] = pushed[n]
      BY <1>1, <1>2, <2>3 DEF TypeOK
    <3> QED BY <2>1, <3>1
  <2> QED BY <2>2, <2>3
<1>4. TypeOK'
  <2>1. pushed' \in [Metric -> Seq(1 .. MaxTime)] /\ \A n \in Metric : Len(pushed'[n]) <= MaxPush[n]
    <3>1. DOMAIN pushed' = Metric /\ pushed' = [n \in Metric |-> pushed'[n]]
      BY <1>1, <1>2 DEF TypeOK
    <3> QED BY <1>3, <3>1
  <2>2. ASSUME NEW n \in Metric
        PROVE  /\ Range(pushed[n]) \subseteq Range(pushed'[n])
               /\ 1 .. Len(pushed[n]) \subseteq 1 .. Len(pushed'[n])
    <3>1. pushed[n] \in Seq(1 .. MaxTime) /\ Len(pushed[n]) \in Nat
      BY <1>2, OfSeries
    <3>2. Range(pushed[n]) = {pushed[n][i] : i \in 1 .. Len(pushed[n])}
      BY <3>1, RangeEquality
    <3>3. Range(pushed'[n]) = {pushed'[n][i] : i \in 1 .. Len(pushed'[n])}
      BY <1>3, RangeEquality
    <3>4. 1 .. Len(pushed[n]) \subseteq 1 .. Len(pushed'[n])
      BY <1>3, <3>1
    <3> QED BY <1>3, <3>2, <3>3, <3>4
  <2>3. \A n \in Metric : cursors'[n] \in {0} \cup Range(pushed'[n])
    BY <1>1, <1>2, <2>2 DEF TypeOK
  <2>4. PointsOf(points)' /\ (\A i \in WriterIds : PointsOf(refused[i]))'
    BY <1>1, <1>2, <2>2 DEF TypeOK, PointsOf
  <2> QED BY <1>1, <1>2, <2>1, <2>3, <2>4 DEF TypeOK
<1>5. ASSUME NEW n \in Metric
      PROVE  /\ visited[n] \in Nat /\ Len(pushed[n]) \in Nat /\ visited[n] <= Len(pushed[n])
             /\ \A i \in 1 .. visited[n] : i \in 1 .. Len(pushed[n])
             /\ \A j \in Range(sent[n]) : j \in 1 .. visited[n]
  BY <1>2, OfSeries DEF IInv, CursorIsSent
<1>6. CursorIsSent'
  <2> SUFFICES ASSUME NEW n \in Metric
               PROVE  /\ visited[n] <= Len(pushed'[n])
                      /\ Range(sent[n]) \subseteq 1 .. visited[n]
                      /\ visited[n] > 0 => cursors[n] >= pushed'[n][visited[n]]
                      /\ cursors[n] > 0 => \E j \in Range(sent[n]) : pushed'[n][j] = cursors[n]
    BY <1>1 DEF CursorIsSent
  <2>1. visited[n] <= Len(pushed'[n]) /\ Range(sent[n]) \subseteq 1 .. visited[n]
    BY <1>3, <1>5
  <2>2. \A i \in 1 .. visited[n] : pushed'[n][i] = pushed[n][i]
    BY <1>3, <1>5
  <2>3. visited[n] > 0 => cursors[n] >= pushed'[n][visited[n]]
    BY <1>5, <2>2 DEF IInv, CursorIsSent
  <2>4. cursors[n] > 0 => \E j \in Range(sent[n]) : pushed'[n][j] = cursors[n]
    BY <1>5, <2>2 DEF IInv, CursorIsSent
  <2> QED BY <2>1, <2>3, <2>4
<1>7. InOrderAtMostOnce'
  <2>1. ASSUME NEW n \in Metric, NEW j \in 1 .. visited[n], SetBack(n, j)
        PROVE  \E k \in j + 1 .. Len(pushed'[n]) : pushed'[n][k] < pushed'[n][j]
    <3>1. PICK k \in j + 1 .. Len(pushed[n]) : pushed[n][k] < pushed[n][j]
      BY <2>1 DEF SetBack
    <3>2. k \in j + 1 .. Len(pushed'[n]) /\ pushed'[n][k] = pushed[n][k] /\ pushed'[n][j] = pushed[n][j]
      BY <1>3, <1>5
    <3> QED BY <3>1, <3>2
  <2> SUFFICES ASSUME NEW n \in Metric, NEW i \in 1 .. Len(sent[n]), NEW j \in 1 .. Len(sent[n]),
                      i < j
               PROVE  \/ sent[n][i] < sent[n][j]
                      \/ \E k \in sent[n][j] + 1 .. Len(pushed'[n]) :
                           pushed'[n][k] < pushed'[n][sent[n][j]]
    BY <1>1 DEF InOrderAtMostOnce, SetBack
  <2>2. sent[n][j] \in Range(sent[n])
    BY <1>2, OfSeries, RangeEquality
  <2>3. sent[n][j] \in 1 .. visited[n]
    BY <1>5, <2>2
  <2>4. sent[n][i] < sent[n][j] \/ SetBack(n, sent[n][j])
    BY DEF IInv, InOrderAtMostOnce
  <2> QED BY <2>1, <2>3, <2>4
<1>8. LossesExplained'
  <2>1. ASSUME NEW n \in Metric, NEW id \in 1 .. visited[n], Overtaken(n, id)
        PROVE  Overtaken(n, id)'
    <3>1. PICK j \in Range(sent[n]) : j < id /\ pushed[n][j] >= pushed[n][id]
      BY <2>1 DEF Overtaken
    <3>2. pushed'[n][j] = pushed[n][j] /\ pushed'[n][id] = pushed[n][id]
      BY <1>3, <1>5
    <3> QED BY <1>1, <3>1, <3>2 DEF Overtaken
  <2> QED BY <1>1, <2>1 DEF IInv, LossesExplained
<1>9. Draining'
  <2>1. todo' \subseteq Names'
    <3> SUFFICES ASSUME NEW n \in Metric, pushed[n] # <<>> PROVE pushed'[n] # <<>>
      BY <1>1 DEF IInv, Draining, Names
    <3>1. Len(pushed[n]) > 0
      BY <1>2, OfSeries, EmptySeq
    <3>2. Len(pushed'[n]) > 0
      BY <1>3, <1>5, <3>1
    <3> QED BY <1>3, <3>2, EmptySeq
  <2> QED BY <1>1, <2>1 DEF Draining
<1>10. Control' /\ Batches'
  BY <1>1 DEF IInv, Control, Batches, Called, Turn
<1> QED BY <1>4, <1>6, <1>7, <1>8, <1>9, <1>10 DEF IInv

\* A flush begins.
LEMMA StartInv ==
  ASSUME IInv, StartFlush, UNCHANGED <<ticks, pushed, cursors, out, hist>>,
         tick' \in BOOLEAN, flush = "none",
         \/ loop' = "flush" /\ phase' = phase /\ phase \in {"running", "stopping"}
         \/ loop' = "exited" /\ phase' = "draining"
  PROVE  IInv'
<1>1. flush' = "collect" /\ todo' = Names /\ points' = NoPoints /\ left' = Len(Writers)
  BY DEF StartFlush
<1>2. TypeOK /\ Len(Writers) \in Nat /\ Len(Writers) \in 0 .. Len(Writers)
  BY WritersAssumption DEF IInv
<1>3. TypeOK'
  <2>1. Names \subseteq Metric /\ flush' # "none"
    BY <1>1 DEF Names
  <2>2. phase' \in {"running", "stopping", "draining", "stopped"}
        /\ loop' \in {"select", "flush", "exited"}
    OBVIOUS
  <2>3. UNCHANGED <<pushed, cursors, hist, ticks>> /\ UNCHANGED <<handed, refused>>
    BY DEF out
  <2> QED BY <1>1, <1>2, <2>1, <2>2, <2>3, SameType DEF TypeOK
<1>4. CursorIsSent' /\ InOrderAtMostOnce' /\ LossesExplained'
  BY SameSent DEF IInv, hist
<1>5. Control'
  BY <1>1 DEF Control
<1>6. Draining'
  <2>1. \A m \in Metric \ Names : visited[m] = Len(pushed[m])
    <3> SUFFICES ASSUME NEW m \in Metric, pushed[m] = <<>> PROVE visited[m] = Len(pushed[m])
      BY DEF Names
    <3>1. Len(pushed[m]) = 0 /\ visited[m] \in Nat /\ visited[m] <= Len(pushed[m])
      BY <1>2, OfSeries, EmptySeq DEF IInv, CursorIsSent
    <3> QED BY <3>1
  <2> QED BY <1>1, <2>1 DEF Draining, hist, Names
<1>7. Batches'
  <2>1. UNCHANGED <<handed, sent>> /\ points = NoPoints /\ points' = NoPoints /\ flush' = "collect"
    BY <1>1, <1>2 DEF out, hist, TypeOK
  <2>2. \A m \in todo' : points'[m] = <<>>
    BY <1>1, NoPointsIs DEF Names
  <2>3. \A i \in WriterIds, m \in Metric : sent[m] = handed[i][m] \o points[m]
    BY DEF IInv, Batches, Called
  <2>4. \A i \in WriterIds : ~ Called(i)'
    BY <2>1 DEF Called
  <2> QED BY <2>1, <2>2, <2>3, <2>4 DEF Batches
<1> QED BY <1>3, <1>4, <1>5, <1>6, <1>7 DEF IInv

LEMMA TakeTickInv ==
  ASSUME IInv, TakeTick
  PROVE  IInv'
<1>1. /\ StartFlush /\ tick' = FALSE /\ loop = "select" /\ loop' = "flush"
      /\ UNCHANGED <<ticks, pushed, phase, cursors, out, hist>>
  BY DEF TakeTick
<1>2. phase \in {"running", "stopping"} /\ flush = "none"
  BY <1>1 DEF IInv, TypeOK, Control
<1> QED BY <1>1, <1>2, StartInv

LEMMA FinalFlushInv ==
  ASSUME IInv, FinalFlush
  PROVE  IInv'
<1>1. /\ StartFlush /\ loop = "exited" /\ phase = "stopping" /\ phase' = "draining"
      /\ UNCHANGED <<ticks, tick, pushed, loop, cursors, out, hist>>
  BY DEF FinalFlush, env
<1>2. flush = "none" /\ tick' \in BOOLEAN
  BY <1>1 DEF IInv, TypeOK, Control
<1> QED BY <1>1, <1>2, StartInv

\* A flush returns, with nothing to write or after the last writer.
LEMMA ReturnInv ==
  ASSUME IInv, Return, UNCHANGED <<env, cursors, out, hist>>,
         flush # "none", todo = {}, \A i \in WriterIds, m \in Metric : sent[m] = handed[i][m]
  PROVE  IInv'
<1>1. flush' = "none" /\ todo' = {} /\ points' = NoPoints /\ left' = 0
  BY DEF Return
<1>2. \/ loop = "flush" /\ loop' = "select" /\ phase' = phase
      \/ loop # "flush" /\ phase' = "stopped" /\ loop' = loop
  BY DEF Return
<1>3. TypeOK /\ 0 \in 0 .. Len(Writers)
  BY WritersAssumption DEF IInv
<1>4. UNCHANGED <<ticks, tick, pushed, cursors, handed, refused, sent, visited, crowded>>
  BY DEF env, out, hist
<1>5. TypeOK'
  <2>1. phase' \in {"running", "stopping", "draining", "stopped"}
        /\ loop' \in {"select", "flush", "exited"}
    BY <1>2, <1>3 DEF TypeOK
  <2>2. UNCHANGED <<pushed, cursors, hist, ticks>>
    BY <1>4 DEF hist
  <2> QED BY <1>1, <1>3, <1>4, <2>1, <2>2, SameType DEF TypeOK
<1>6. CursorIsSent' /\ InOrderAtMostOnce' /\ LossesExplained'
  BY <1>4, SameSent DEF IInv
<1>7. Control' /\ Draining'
  BY <1>1, <1>2, <1>4 DEF IInv, Control, Draining, Names
<1>8. Batches'
  <2>1. \A i \in WriterIds, m \in Metric : sent[m] = handed[i][m] \o <<>>
    <3> SUFFICES ASSUME NEW i \in WriterIds, NEW m \in Metric PROVE sent[m] = sent[m] \o <<>>
      OBVIOUS
    <3> QED BY <1>3, OfSeries, ConcatEmptySeq
  <2>2. \A m \in Metric : points'[m] = <<>>
    BY <1>1, NoPointsIs
  <2> QED BY <1>1, <1>4, <2>1, <2>2 DEF Batches, Called
<1> QED BY <1>5, <1>6, <1>7, <1>8 DEF IInv

LEMMA CollectedInv ==
  ASSUME IInv, Collected
  PROVE  IInv'
<1>1. /\ flush = "collect" /\ todo = {} /\ UNCHANGED <<env, cursors, out, hist>>
      /\ left = Len(Writers) /\ TypeOK
  BY DEF Collected, IInv, Control
<1>2. \A i \in WriterIds, m \in Metric : sent[m] = handed[i][m] \o points[m]
  BY <1>1 DEF IInv, Batches, Called
<1>3. CASE points = NoPoints /\ Return
  <2>1. ASSUME NEW i \in WriterIds, NEW m \in Metric PROVE sent[m] = handed[i][m]
    <3>1. handed[i][m] \in Seq(Nat)
      BY <1>1 DEF TypeOK, Batch
    <3>2. points[m] = <<>>
      BY <1>3, NoPointsIs
    <3> QED BY <1>2, <3>1, <3>2, ConcatEmptySeq
  <2> QED BY <1>1, <1>3, <2>1, ReturnInv
<1>4. CASE points # NoPoints /\ flush' = "write" /\ UNCHANGED <<todo, points, left, phase, loop>>
  <2>1. UNCHANGED <<ticks, tick, pushed, cursors, handed, refused, sent, visited, crowded, todo,
                    points, left, phase, loop>> /\ flush' = "write"
    BY <1>1, <1>4 DEF env, out, hist
  <2>2. UNCHANGED <<pushed, cursors, hist, ticks>>
    BY <1>1 DEF env
  <2>3. TypeOK'
    BY <1>1, <2>1, <2>2, SameType DEF TypeOK
  <2>4. CursorIsSent' /\ InOrderAtMostOnce' /\ LossesExplained'
    BY <2>1, SameSent DEF IInv
  <2>5. Control' /\ Draining'
    BY <1>1, <2>1 DEF IInv, Control, Draining, Names
  <2>6. \A i \in WriterIds : ~ Called(i)'
    <3>1. Turn' = 1
      BY <1>1, <2>1, WritersAssumption DEF Turn
    <3> QED BY <3>1 DEF Called, WriterIds
  <2>7. Batches'
    BY <1>1, <1>2, <2>1, <2>6 DEF Batches
  <2> QED BY <2>3, <2>4, <2>5, <2>7 DEF IInv
<1> QED BY <1>3, <1>4 DEF Collected

LEMMA EndFlushInv ==
  ASSUME IInv, EndFlush
  PROVE  IInv'
<1>1. /\ flush = "write" /\ left = 0 /\ Return /\ UNCHANGED <<env, cursors, out, hist>>
      /\ todo = {}
  BY DEF EndFlush, IInv, Control
<1>2. \A i \in WriterIds : Called(i)
  BY <1>1, WritersAssumption DEF Called, Turn, WriterIds
<1>3. \A i \in WriterIds, m \in Metric : sent[m] = handed[i][m]
  BY <1>2 DEF IInv, Batches
<1> QED BY <1>1, <1>3, ReturnInv

LEMMA WriteInv ==
  ASSUME IInv, NEW ok \in BOOLEAN, Write(ok)
  PROVE  IInv'
<1>1. /\ flush = "write" /\ left > 0 /\ left' = left - 1
      /\ handed' = [handed EXCEPT ![Turn] = Extended(@)]
      /\ refused' = [refused EXCEPT ![Turn] = IF ok THEN NoPoints ELSE points]
      /\ UNCHANGED <<ticks, tick, pushed, phase, loop, flush, todo, points, cursors, sent, visited,
                     crowded>>
  BY DEF Write, env, hist
<1>2. /\ TypeOK /\ Len(Writers) \in Nat /\ left \in 0 .. Len(Writers)
      /\ Turn \in WriterIds /\ Turn \in Nat /\ Turn' = Turn + 1
  BY <1>1, WritersAssumption DEF IInv, TypeOK, Turn, WriterIds
<1>3. ASSUME NEW i \in WriterIds
      PROVE  handed'[i] = IF i = Turn THEN Extended(handed[i]) ELSE handed[i]
  BY <1>1, <1>2 DEF TypeOK
<1>4. TypeOK'
  <2>1. \A ps \in Batch : Extended(ps) \in Batch
    <3> SUFFICES ASSUME NEW ps \in Batch, NEW m \in Metric PROVE ps[m] \o points[m] \in Seq(Nat)
      BY DEF Extended, Batch
    <3> QED BY <1>2, OfSeries, ConcatProperties DEF Batch
  <2>2. handed' \in [WriterIds -> Batch]
    BY <1>1, <1>2, <2>1 DEF TypeOK
  <2>3. refused' \in [WriterIds -> Batch] /\ \A i \in WriterIds : PointsOf(refused'[i])
    <3>1. NoPoints \in Batch /\ PointsOf(NoPoints) /\ points \in Batch /\ PointsOf(points)
      BY <1>2, NoPointsIs DEF TypeOK, PointsOf
    <3> DEFINE ps == IF ok THEN NoPoints ELSE points
    <3>2. ps \in Batch /\ PointsOf(ps)
      BY <3>1
    <3>3. refused' = [refused EXCEPT ![Turn] = ps]
      BY <1>1
    <3> HIDE DEF ps
    <3>4. \A i \in WriterIds : refused'[i] = IF i = Turn THEN ps ELSE refused[i]
      BY <1>2, <3>3 DEF TypeOK
    <3>5. refused' \in [WriterIds -> Batch]
      BY <1>2, <3>2, <3>3 DEF TypeOK
    <3>6. \A i \in WriterIds : PointsOf(refused'[i])
      BY <1>2, <3>2, <3>4 DEF TypeOK
    <3> QED BY <3>5, <3>6
  <2>4. left' \in 0 .. Len(Writers)
    BY <1>1, <1>2
  <2>5. UNCHANGED <<pushed, cursors, hist, ticks>>
    BY <1>1 DEF hist
  <2> QED BY <1>1, <1>2, <2>2, <2>3, <2>4, <2>5, SameType DEF TypeOK
<1>5. CursorIsSent' /\ InOrderAtMostOnce' /\ LossesExplained'
  BY <1>1, SameSent DEF IInv
<1>6. Control' /\ Draining'
  BY <1>1 DEF IInv, Control, Draining, Names
<1>7. Batches'
  <2>1. \A m \in todo' : points'[m] = <<>>
    BY <1>1 DEF IInv, Batches
  <2>2. ASSUME NEW i \in WriterIds, NEW m \in Metric
        PROVE  sent[m] = IF Called(i)' THEN handed'[i][m] ELSE handed'[i][m] \o points[m]
    <3>1. Called(i)' = (Called(i) \/ i = Turn)
      BY <1>1, <1>2 DEF Called, WriterIds
    <3>2. sent[m] = IF Called(i) THEN handed[i][m] ELSE handed[i][m] \o points[m]
      BY DEF IInv, Batches
    <3>3. CASE i = Turn
      <4>1. ~ Called(i) /\ handed'[i] = Extended(handed[i])
        BY <1>2, <1>3, <3>3 DEF Called
      <4>2. \A ps : Extended(ps)[m] = ps[m] \o points[m]
        BY Zenon DEF Extended
      <4> QED BY <3>1, <3>2, <3>3, <4>1, <4>2
    <3>4. CASE i # Turn
      <4>1. handed'[i][m] = handed[i][m]
        BY <1>3, <3>4
      <4> QED BY <3>1, <3>2, <3>4, <4>1
    <3> QED BY <3>3, <3>4
  <2> QED BY <1>1, <2>1, <2>2 DEF Batches
<1> QED BY <1>4, <1>5, <1>6, <1>7 DEF IInv

-----------------------------------------------------------------------------
(* A visit.                                                                *)

LEMMA VisitInv ==
  ASSUME IInv, NEW m \in Metric, Visit(m)
  PROVE  IInv'
<1> DEFINE F == Fresh(m)
           n == Len(pushed[m])
           newest == pushed[m][n]
           v == visited[m]
<1>1. /\ flush = "collect" /\ m \in todo /\ todo' = todo \ {m}
      /\ points' = [points EXCEPT ![m] = F]
      /\ cursors' = [cursors EXCEPT ![m] = NewCursor(m)]
      /\ sent' = [sent EXCEPT ![m] = @ \o F]
      /\ visited' = [visited EXCEPT ![m] = n]
      /\ crowded' = [crowded EXCEPT ![m] = @ \cup (visited[m] + 1 .. n - Window)]
      /\ UNCHANGED <<ticks, tick, pushed, phase, loop, flush, left, refused, handed>>
  BY DEF Visit, env, out
<1>2. TypeOK
  BY DEF IInv
<1>3. /\ n \in Nat /\ n > 0 /\ pushed[m] \in Seq(1 .. MaxTime) /\ newest \in Nat \ {0}
      /\ newest \in Range(pushed[m]) /\ v \in Nat /\ v <= n
      /\ cursors[m] \in Nat /\ sent[m] \in Seq(Nat)
      /\ \A i \in 1 .. n : pushed[m][i] \in Nat \ {0}
  <2>1. /\ n \in Nat /\ pushed[m] \in Seq(1 .. MaxTime) /\ v \in Nat /\ v <= n
        /\ cursors[m] \in Nat /\ sent[m] \in Seq(Nat)
    BY <1>2, OfSeries DEF IInv, CursorIsSent
  <2>2. n > 0
    BY <1>1, <2>1, EmptySeq DEF IInv, Draining, Names
  <2>3. \A i \in 1 .. n : pushed[m][i] \in 1 .. MaxTime
    BY <2>1, ElementOfSeq
  <2>4. newest \in Range(pushed[m])
    BY <2>1, <2>2, RangeEquality
  <2> QED BY <2>1, <2>2, <2>3, <2>4, BoundAssumption
<1>4. /\ F \in Seq(Nat) /\ Len(F) \in Nat /\ Increasing(F)
      /\ \A i : i \in Range(F) <=> i \in 1 .. n /\ i > n - Window /\ pushed[m][i] > cursors[m]
  <2>1. F \in Seq(Nat) /\ Increasing(F)
    BY <1>3, FreshIs
  <2>2. Range(F) = {i \in 1 .. n : i > n - Window /\ pushed[m][i] > cursors[m]}
    BY <1>3, FreshIs
  <2> QED BY <2>1, <2>2, LenProperties
<1>5. /\ cursors'[m] = (IF newest > cursors[m] THEN newest ELSE cursors[m])
      /\ points'[m] = F /\ sent'[m] = sent[m] \o F /\ visited'[m] = n
      /\ crowded'[m] = crowded[m] \cup (v + 1 .. n - Window)
  BY <1>1, <1>2 DEF TypeOK, Batch, NewCursor
<1>6. ASSUME NEW l \in Metric, l # m
      PROVE  /\ cursors'[l] = cursors[l] /\ points'[l] = points[l] /\ sent'[l] = sent[l]
             /\ visited'[l] = visited[l] /\ crowded'[l] = crowded[l]
  BY <1>1, <1>2, <1>6 DEF TypeOK, Batch
<1>7. /\ sent'[m] \in Seq(Nat) /\ Len(sent'[m]) = Len(sent[m]) + Len(F) /\ Len(sent[m]) \in Nat
      /\ \A i \in 1 .. Len(sent[m]) : sent'[m][i] = sent[m][i]
      /\ \A i \in 1 .. Len(F) : sent'[m][Len(sent[m]) + i] = F[i]
  <2>1. /\ sent[m] \o F \in Seq(Nat) /\ Len(sent[m] \o F) = Len(sent[m]) + Len(F)
        /\ \A i \in 1 .. Len(sent[m]) + Len(F) :
             (sent[m] \o F)[i] = IF i <= Len(sent[m]) THEN sent[m][i] ELSE F[i - Len(sent[m])]
    BY <1>3, <1>4, ConcatProperties
  <2>2. Len(sent[m]) \in Nat
    BY <1>3, LenProperties
  <2> HIDE DEF F
  <2> QED BY <1>4, <1>5, <2>1, <2>2
<1>8. Range(sent'[m]) = Range(sent[m]) \cup Range(F)
  BY <1>3, <1>4, <1>5, RangeConcatenation
<1> HIDE DEF F, n, newest, v
<1>9. TypeOK'
  <2>1. points' \in Batch /\ sent' \in Batch
    BY <1>1, <1>2, <1>4, <1>5, <1>7 DEF TypeOK, Batch
  <2>2. cursors' \in [Metric -> Nat] /\ \A l \in Metric : cursors'[l] \in {0} \cup Range(pushed[l])
    <3>1. cursors' \in [Metric -> Nat]
      BY <1>1, <1>2, <1>3, <1>5 DEF TypeOK
    <3>2. \A l \in Metric : cursors'[l] \in {0} \cup Range(pushed[l])
      BY <1>2, <1>3, <1>5, <1>6 DEF TypeOK
    <3> QED BY <3>1, <3>2
  <2>3. PointsOf(points)' /\ (\A i \in WriterIds : PointsOf(refused[i]))'
    <3>1. Range(F) \subseteq 1 .. Len(pushed[m])
      BY <1>4 DEF n
    <3>2. PointsOf(points)'
      BY <1>1, <1>2, <1>5, <1>6, <3>1 DEF TypeOK, PointsOf
    <3> QED BY <1>1, <1>2, <3>2 DEF TypeOK, PointsOf
  <2>4. visited' \in [Metric -> Nat] /\ crowded' \in [Metric -> SUBSET Nat]
    <3>1. v + 1 .. n - Window \subseteq Nat
      BY <1>3, BoundAssumption
    <3>2. crowded[m] \cup (v + 1 .. n - Window) \in SUBSET Nat
      BY <1>2, <3>1 DEF TypeOK
    <3>3. crowded' = [crowded EXCEPT ![m] = crowded[m] \cup (v + 1 .. n - Window)]
      BY <1>1 DEF v
    <3> QED BY <1>1, <1>2, <1>3, <3>2, <3>3 DEF TypeOK
  <2> QED BY <1>1, <1>2, <2>1, <2>2, <2>3, <2>4 DEF TypeOK
<1>10. CursorIsSent'
  <2>1. \A l \in Metric \ {m} :
          /\ visited'[l] <= Len(pushed'[l]) /\ Range(sent'[l]) \subseteq 1 .. visited'[l]
          /\ visited'[l] > 0 => cursors'[l] >= pushed'[l][visited'[l]]
          /\ cursors'[l] > 0 => \E j \in Range(sent'[l]) : pushed'[l][j] = cursors'[l]
    BY <1>1, <1>6 DEF IInv, CursorIsSent
  <2>2. Range(sent'[m]) \subseteq 1 .. n
    <3>1. Range(sent[m]) \subseteq 1 .. v
      BY DEF IInv, CursorIsSent, v
    <3> QED BY <1>3, <1>4, <1>8, <3>1
  <2>3. cursors'[m] >= newest
    BY <1>3, <1>5
  <2>4. cursors'[m] > 0 => \E j \in Range(sent'[m]) : pushed[m][j] = cursors'[m]
    <3>1. CASE newest > cursors[m]
      <4>1. n \in Range(F) /\ pushed[m][n] = newest
        <5>1. n \in 1 .. n /\ n > n - Window
          BY <1>3, BoundAssumption
        <5>2. pushed[m][n] = newest
          BY DEF newest
        <5> QED BY <1>4, <3>1, <5>1, <5>2
      <4> QED BY <1>5, <1>8, <3>1, <4>1
    <3>2. CASE ~ newest > cursors[m]
      BY <1>5, <1>8, <3>2 DEF IInv, CursorIsSent
    <3> QED BY <3>1, <3>2
  <2>5. /\ visited'[m] <= Len(pushed'[m]) /\ Range(sent'[m]) \subseteq 1 .. visited'[m]
        /\ visited'[m] > 0 => cursors'[m] >= pushed'[m][visited'[m]]
        /\ cursors'[m] > 0 => \E j \in Range(sent'[m]) : pushed'[m][j] = cursors'[m]
    BY <1>1, <1>3, <1>5, <2>2, <2>3, <2>4 DEF n, newest
  <2> QED BY <2>1, <2>5 DEF CursorIsSent
<1>11. InOrderAtMostOnce'
  <2> SUFFICES ASSUME NEW l \in Metric,
                      NEW i \in 1 .. Len(sent'[l]), NEW j \in 1 .. Len(sent'[l]), i < j
               PROVE  sent'[l][i] < sent'[l][j]
                      \/ \E k \in sent'[l][j] + 1 .. Len(pushed[l]) :
                           pushed[l][k] < pushed[l][sent'[l][j]]
    BY <1>1 DEF InOrderAtMostOnce, SetBack
  <2>1. CASE l # m
    <3>1. sent'[l] = sent[l]
      BY <1>6, <2>1
    <3> QED BY <3>1 DEF IInv, InOrderAtMostOnce, SetBack
  <2>2. CASE l = m
    <3>1. CASE j <= Len(sent[m])
      <4>1. i \in 1 .. Len(sent[m]) /\ j \in 1 .. Len(sent[m])
        BY <1>7, <3>1
      <4>2. sent'[m][i] = sent[m][i] /\ sent'[m][j] = sent[m][j]
        BY <1>7, <4>1
      <4> QED BY <2>2, <4>1, <4>2 DEF IInv, InOrderAtMostOnce, SetBack
    <3>2. CASE j > Len(sent[m])
      <4> DEFINE q == j - Len(sent[m])
                 b == sent'[m][j]
      <4>1. q \in 1 .. Len(F) /\ sent'[m][j] = F[q]
        <5>1. q \in 1 .. Len(F) /\ j = Len(sent[m]) + q
          BY <1>4, <1>7, <2>2, <3>2
        <5> QED BY <1>7, <5>1
      <4>2. F[q] \in Range(F)
        BY <1>4, <4>1, RangeEquality
      <4>3. b \in 1 .. n /\ pushed[m][b] > cursors[m]
        BY <1>4, <4>1, <4>2
      <4>4. CASE i > Len(sent[m])
        <5>1. i - Len(sent[m]) \in 1 .. Len(F) /\ sent'[m][i] = F[i - Len(sent[m])]
          <6>1. i - Len(sent[m]) \in 1 .. Len(F) /\ i = Len(sent[m]) + (i - Len(sent[m]))
            BY <1>4, <1>7, <2>2, <4>4
          <6> QED BY <1>7, <6>1
        <5>2. i - Len(sent[m]) < q
          BY <1>7, <2>2
        <5>3. F[i - Len(sent[m])] < F[q]
          BY <1>4, <4>1, <5>1, <5>2 DEF Increasing
        <5> QED BY <2>2, <4>1, <5>1, <5>3
      <4>5. CASE i <= Len(sent[m])
        <5> DEFINE a == sent'[m][i]
        <5>1. a \in 1 .. v
          <6>1. i \in 1 .. Len(sent[m])
            BY <1>7, <2>2, <4>5
          <6>2. a = sent[m][i] /\ sent[m][i] \in Range(sent[m])
            BY <1>3, <1>7, <6>1, RangeEquality
          <6> QED BY <6>2 DEF IInv, CursorIsSent, v
        <5>2. v \in 1 .. n /\ pushed[m][v] <= cursors[m]
          BY <1>3, <5>1 DEF IInv, CursorIsSent, v
        <5>3. pushed[m][v] < pushed[m][b]
          BY <1>3, <4>3, <5>2
        <5> HIDE DEF a, b
        <5>4. CASE a < b
          BY <2>2, <5>4 DEF a, b
        <5>5. CASE ~ a < b
          <6>1. b # v /\ v \in b + 1 .. n
            BY <1>3, <4>3, <5>1, <5>2, <5>3, <5>5
          <6> QED BY <2>2, <5>3, <6>1 DEF b, n
        <5> QED BY <5>4, <5>5
      <4> QED BY <1>7, <2>2, <4>4, <4>5
    <3> QED BY <1>7, <2>2, <3>1, <3>2
  <2> QED BY <2>1, <2>2
<1>12. LossesExplained'
  <2> SUFFICES ASSUME NEW l \in Metric, NEW id \in 1 .. visited'[l]
               PROVE  \/ id \in Range(sent'[l]) \/ id \in crowded'[l]
                      \/ \E j \in Range(sent'[l]) : j < id /\ pushed[l][j] >= pushed[l][id]
    BY <1>1 DEF LossesExplained, Overtaken
  <2>1. CASE l # m
    BY <1>6, <2>1 DEF IInv, LossesExplained, Overtaken
  <2>2. CASE l = m
    <3>1. id \in 1 .. n
      BY <1>5, <2>2
    <3>2. CASE id <= v
      <4>1. id \in 1 .. visited[m]
        BY <1>3, <3>1, <3>2 DEF v
      <4>2. id \in Range(sent[m]) \/ id \in crowded[m] \/ Overtaken(m, id)
        BY <4>1 DEF IInv, LossesExplained
      <4> QED BY <1>5, <1>8, <2>2, <4>2 DEF Overtaken
    <3>3. CASE id > v /\ id <= n - Window
      <4>1. id \in v + 1 .. n - Window
        BY <1>3, <3>1, <3>3, BoundAssumption
      <4> QED BY <1>5, <2>2, <4>1
    <3>4. CASE id > v /\ id > n - Window /\ pushed[m][id] > cursors[m]
      BY <1>4, <1>8, <2>2, <3>1, <3>4
    <3>5. CASE id > v /\ id > n - Window /\ ~ pushed[m][id] > cursors[m]
      <4>1. cursors[m] > 0 /\ pushed[m][id] <= cursors[m]
        BY <1>3, <3>1, <3>5
      <4>2. PICK j \in Range(sent[m]) : pushed[m][j] = cursors[m]
        BY <4>1 DEF IInv, CursorIsSent
      <4>3. j \in 1 .. v
        BY DEF IInv, CursorIsSent, v
      <4>4. j < id /\ pushed[m][j] >= pushed[m][id]
        BY <1>3, <3>1, <3>5, <4>1, <4>2, <4>3
      <4> QED BY <1>8, <2>2, <4>4
    <3>6. (id <= v \/ id > v) /\ (id <= n - Window \/ id > n - Window)
      BY <1>3, <3>1, BoundAssumption
    <3> QED BY <3>2, <3>3, <3>4, <3>5, <3>6
  <2> QED BY <2>1, <2>2
<1>13. Control'
  BY <1>1 DEF IInv, Control
<1>14. Draining'
  BY <1>1, <1>5, <1>6 DEF IInv, Draining, Names, n
<1>15. Batches'
  <2>1. \A l \in todo' : points'[l] = <<>>
    BY <1>1, <1>2, <1>6 DEF IInv, Batches, TypeOK
  <2>2. ASSUME NEW i \in WriterIds, NEW l \in Metric
        PROVE  sent'[l] = handed[i][l] \o points'[l]
    <3>1. sent[l] = handed[i][l] \o points[l]
      BY <1>1 DEF IInv, Batches, Called
    <3>2. CASE l # m
      BY <1>6, <3>1, <3>2
    <3>3. CASE l = m
      <4>1. points[m] = <<>> /\ handed[i][m] \in Seq(Nat)
        BY <1>1, <1>2 DEF IInv, Batches, TypeOK, Batch
      <4>2. sent[m] = handed[i][m]
        BY <3>1, <3>3, <4>1, ConcatEmptySeq
      <4> QED BY <1>5, <3>3, <4>2
    <3> QED BY <3>2, <3>3
  <2>3. \A i \in WriterIds : ~ Called(i)'
    BY <1>1 DEF Called
  <2>4. handed' = handed
    BY <1>1
  <2> QED BY <2>1, <2>2, <2>3, <2>4 DEF Batches
<1> QED BY <1>9, <1>10, <1>11, <1>12, <1>13, <1>14, <1>15 DEF IInv

-----------------------------------------------------------------------------
LEMMA NextInv == IInv /\ [Next]_vars => IInv'
<1> SUFFICES ASSUME IInv, [Next]_vars PROVE IInv'
  OBVIOUS
<1>1. CASE Tick
  BY <1>1, TickInv
<1>2. CASE \E m \in Metric, s \in 1 .. MaxTime : Produce(m, s)
  BY <1>2, ProduceInv
<1>3. CASE \E m \in Metric : Visit(m)
  BY <1>3, VisitInv
<1>4. CASE Collected
  BY <1>4, CollectedInv
<1>5. CASE \E ok \in BOOLEAN : Write(ok)
  BY <1>5, WriteInv
<1>6. CASE EndFlush
  BY <1>6, EndFlushInv
<1>7. CASE TakeTick
  BY <1>7, TakeTickInv
<1>8. CASE LoopExit
  BY <1>8, LoopExitInv
<1>9. CASE Stop
  BY <1>9, StopInv
<1>10. CASE FinalFlush
  BY <1>10, FinalFlushInv
<1>11. CASE UNCHANGED vars
  <2>1. UNCHANGED <<ticks, tick, pushed, phase, loop, flush, todo, points, left, cursors, refused,
                    handed, sent, visited, crowded>>
    BY <1>11 DEF vars, env, work, out, hist
  <2>2. TypeOK'
    BY <2>1, SameType DEF IInv, TypeOK, hist
  <2>3. CursorIsSent' /\ InOrderAtMostOnce' /\ LossesExplained'
    BY <2>1, SameSent DEF IInv
  <2>4. Control' /\ Draining' /\ Batches'
    BY <2>1 DEF IInv, Control, Draining, Names, Batches, Called, Turn
  <2> QED BY <2>2, <2>3, <2>4 DEF IInv
<1> QED BY <1>1, <1>2, <1>3, <1>4, <1>5, <1>6, <1>7, <1>8, <1>9, <1>10, <1>11 DEF Next, FlushStep

LEMMA Invariant == Spec => []IInv
<1> QED BY InitInv, NextInv, PTL DEF Spec

-----------------------------------------------------------------------------
(* The theorems.                                                           *)

\* Every reachable state of the manager has the type TypeOK; in particular a
\* cursor is always the stamp of a sample of its series (writer.go:134-140).
THEOREM ManagerTypeCorrect == Spec => []TypeOK
<1>1. IInv => TypeOK
  BY DEF IInv
<1> QED BY <1>1, Invariant, PTL

\* A series is sent in the order it was pushed, each sample at most once, but
\* for samples that one with an earlier stamp follows: for any interleaving of
\* pushes with flushes, any window and any stamps (writer.go:119-141).
THEOREM SentInOrderOnce == Spec => []InOrderAtMostOnce
<1>1. IInv => InOrderAtMostOnce
  BY DEF IInv
<1> QED BY <1>1, Invariant, PTL

\* A sample that a flush leaves behind was pushed out of the window, or one as
\* new was sent before it (writer.go:121-126).
THEOREM EveryLossExplained == Spec => []LossesExplained
<1>1. IInv => LossesExplained
  BY DEF IInv
<1> QED BY <1>1, Invariant, PTL

\* When Stop returns its flush has looked at every sample (writer.go:106).
THEOREM StopDrains == Spec => []DrainedAtStop
<1>1. IInv => DrainedAtStop
  <2> SUFFICES ASSUME IInv, phase = "stopped", NEW m \in Metric
               PROVE  visited[m] = Len(pushed[m])
    BY DEF DrainedAtStop
  <2>1. flush = "none" /\ todo = {}
    BY DEF IInv, TypeOK, Control
  <2> QED BY <2>1 DEF IInv, Draining
<1> QED BY <1>1, Invariant, PTL

\* Whichever Write fails, after a flush every writer has been handed exactly
\* what the cursors were moved for (writer.go:148-154).
THEOREM WritersGetTheSame == Spec => []SameBatches
<1>1. IInv => SameBatches
  <2> SUFFICES ASSUME IInv, flush = "none", NEW i \in WriterIds
               PROVE  handed[i] = sent
    BY DEF SameBatches
  <2>1. handed[i] \in Batch /\ sent \in Batch /\ points = NoPoints
    BY DEF IInv, TypeOK
  <2>2. ASSUME NEW m \in Metric PROVE handed[i][m] = sent[m]
    <3>1. sent[m] = handed[i][m] \o points[m]
      BY DEF IInv, Batches, Called
    <3>2. points[m] = <<>> /\ handed[i][m] \in Seq(Nat)
      BY <2>1, NoPointsIs DEF Batch
    <3> QED BY <3>1, <3>2, ConcatEmptySeq
  <2> QED BY <2>1, <2>2 DEF Batch
<1> QED BY <1>1, Invariant, PTL
=============================================================================
