-------------------------- MODULE CollectorProofs --------------------------
(***************************************************************************)
(* The collector, for any machines, widths of the counters, growth and     *)
(* number of rounds: each increment is reported once, a snapshot is torn   *)
(* by at most one sample, and its steps are those of a service.            *)
(***************************************************************************)
EXTENDS Collector, SequenceTheorems, TLAPS

(***************************************************************************)
(* The inductive invariant, in named parts.                                *)
(***************************************************************************)
\* Between its collections the goroutine holds nothing.
Control ==
  /\ phase = "setup" => loop = "none"
  /\ loop # "collect" => ~ opened
  /\ ~ opened => todo = {} /\ pending = <<>>

\* The maps of readings are what the kernel said last.
Readings ==
  /\ counter = [d \in Device |-> counter[d]] /\ owed = [d \in Device |-> owed[d]]
  /\ \A d \in Device : counter[d] \in [Field(d) -> Counter] /\ owed[d] \in [Field(d) -> Int]
  /\ \A d \in DOMAIN prev : prev[d] = counter[d]
  /\ restarted \subseteq DOMAIN prev \cap Removable
  /\ \A i \in 1 .. Len(pending) : \A d \in Device : \A k :
       pending[i].series = <<d, k>> /\ Counted(d) => d \in DOMAIN prev

\* The series of the pushes that are still to come, each of them one.
Coming == {pending[i].series : i \in 1 .. Len(pending)}

OncePending ==
  \A i, j \in 1 .. Len(pending) : pending[i].series = pending[j].series => i = j

\* What has been reported of a counter, or will be by the pending pushes, is
\* what it grew by, with a difference of x; S is the devices that have fallen.
Balanced(S, d, x) ==
  \/ x = 0
  \/ d \in S /\ (Kind[d] = "stat" \/ x % Modulus = 0)

Balance ==
  /\ \A d \in DOMAIN prev : \A f \in Field(d) :
       /\ <<d, f>> \notin Coming => Balanced(fallen, d, owed[d][f])
       /\ \A i \in 1 .. Len(pending) :
            pending[i].series = <<d, f>> => Balanced(fallen, d, owed[d][f] - pending[i].value)
  /\ \A d \in Device \ DOMAIN prev : \A f \in Field(d) : owed[d][f] = 0

\* The samples of a series when the pending pushes are done.
After(s) == store[s] + (IF s \in Coming THEN 1 ELSE 0)

\* This collection has still to come to d.
Ahead(d) ==
  /\ loop = "collect"
  /\ \E i \in 1 .. Len(Files) :
       Files[i] = Kind[d] /\ (i > file \/ (i = file /\ (~ opened \/ d \in todo)))

\* A collection pushes at most once into each series.
OncePerRound ==
  \A d \in Device : \A k \in Key(d) :
    After(<<d, k>>) <= IF Ahead(d) THEN round - 1 ELSE round

\* The series of a device grow together.
InStep ==
  \A d \in Device : \A k, l \in Key(d) : After(<<d, k>>) = After(<<d, l>>)

\* No series of a device is more than one sample behind what was read of it.
ReadInStep ==
  \A d \in Device :
    behind[d] <= 1 /\ \A k \in Key(d) : newest[d] <= store[<<d, k>>] + 1

IInv ==
  /\ TypeOK /\ Control /\ Readings /\ OncePending /\ Balance
  /\ OncePerRound /\ InStep /\ ReadInStep

-----------------------------------------------------------------------------
(* Differences of counters that go round.                                  *)

\* What % does to a number whose multiple of the modulus is known.
LEMMA ModIs ==
  ASSUME NEW x \in Int, NEW k \in Int, k * Modulus <= x, x < (k + 1) * Modulus
  PROVE  x % Modulus = x - k * Modulus
<1>1. Modulus \in Nat \ {0}
  BY BoundAssumption
<1> DEFINE q == x \div Modulus
           m == x % Modulus
<1>2. q \in Int /\ m \in 0 .. Modulus - 1 /\ x = Modulus * q + m
  BY <1>1
<1> HIDE DEF q, m
<1>3. ~ (q >= k + 1)
  <2>1. ASSUME q >= k + 1 PROVE Modulus * q >= Modulus * (k + 1)
    BY <1>1, <1>2, <2>1
  <2> QED BY <1>1, <1>2, <2>1
<1>4. ~ (q <= k - 1)
  <2>1. ASSUME q <= k - 1 PROVE Modulus * q <= Modulus * (k - 1)
    BY <1>1, <1>2, <2>1
  <2> QED BY <1>1, <1>2, <2>1
<1>5. q = k
  BY <1>2, <1>3, <1>4
<1> QED BY <1>1, <1>2, <1>5 DEF m

LEMMA ModBorrows ==
  ASSUME NEW x \in Int, -Modulus <= x, x < 0
  PROVE  x % Modulus = x + Modulus
<1> DEFINE k == 0 - 1
<1>1. Modulus \in Int
  BY BoundAssumption
<1>2. k \in Int /\ k * Modulus = -Modulus /\ (k + 1) * Modulus = 0
  BY <1>1
<1> HIDE DEF k
<1>3. x % Modulus = x - k * Modulus
  BY <1>2, ModIs
<1> QED BY <1>1, <1>2, <1>3

LEMMA MinusIsCounter ==
  ASSUME NEW x \in Int, NEW y \in Int
  PROVE  Minus(x, y) \in Counter
BY BoundAssumption DEF Minus, Counter

\* A counter that has grown by g went round at most once.
LEMMA GrownBy ==
  ASSUME NEW c \in Counter, NEW g \in Int, 0 <= g, g < Modulus
  PROVE  /\ (c + g) % Modulus = c + g \/ (c + g) % Modulus = c + g - Modulus
         /\ (c + g) % Modulus \in Counter
         /\ Minus((c + g) % Modulus, c) = g
<1>1. Modulus \in Nat \ {0} /\ c \in Int /\ 0 <= c /\ c < Modulus
  BY BoundAssumption DEF Counter
<1>2. CASE c + g < Modulus
  <2>1. (c + g) % Modulus = c + g
    BY <1>1, <1>2, ModIs
  <2>2. g % Modulus = g
    BY <1>1, ModIs
  <2>3. Minus((c + g) % Modulus, c) = g % Modulus
    BY <1>1, <2>1 DEF Minus
  <2> QED BY <1>1, <1>2, <2>1, <2>2, <2>3 DEF Counter
<1>3. CASE c + g >= Modulus
  <2>1. (c + g) % Modulus = c + g - Modulus
    BY <1>1, <1>3, ModIs
  <2>2. (g - Modulus) % Modulus = g
    <3>1. g - Modulus \in Int /\ -Modulus <= g - Modulus /\ g - Modulus < 0
      BY <1>1
    <3>2. (g - Modulus) % Modulus = (g - Modulus) + Modulus
      BY <3>1, ModBorrows
    <3> QED BY <1>1, <3>2
  <2>3. Minus((c + g) % Modulus, c) = (g - Modulus) % Modulus
    BY <1>1, <2>1 DEF Minus
  <2> QED BY <1>1, <1>3, <2>1, <2>2, <2>3 DEF Counter
<1> QED BY <1>1, <1>2, <1>3

\* A counter that has begun again at zero is reported too high by the modulus.
LEMMA Restarts ==
  ASSUME NEW c \in Counter, NEW x \in Int, x % Modulus = 0
  PROVE  /\ (c + (-c)) % Modulus = 0
         /\ ((x - c) - Minus(0, c)) % Modulus = 0
<1>1. Modulus \in Nat \ {0} /\ c \in Int /\ 0 <= c /\ c < Modulus
  BY BoundAssumption DEF Counter
<1>2. 0 % Modulus = 0
  BY <1>1, ModIs
<1>3. (c + (-c)) % Modulus = 0
  BY <1>1, <1>2
<1>4. CASE c = 0
  BY <1>1, <1>2, <1>4 DEF Minus
<1>5. CASE c # 0
  <2>1. (0 - c) % Modulus = Modulus - c
    <3>1. 0 - c \in Int /\ -Modulus <= 0 - c /\ 0 - c < 0
      BY <1>1, <1>5
    <3>2. (0 - c) % Modulus = (0 - c) + Modulus
      BY <3>1, ModBorrows
    <3> QED BY <1>1, <3>2
  <2>2. (x - c) - Minus(0, c) = x - Modulus
    BY <1>1, <2>1 DEF Minus
  <2> DEFINE q == x \div Modulus
  <2>3. q \in Int /\ x = Modulus * q
    BY <1>1
  <2> HIDE DEF q
  <2>4. x - Modulus = (q - 1) * Modulus /\ x - Modulus < ((q - 1) + 1) * Modulus
    BY <1>1, <2>3
  <2>5. (x - Modulus) % Modulus = (x - Modulus) - (q - 1) * Modulus
    <3>1. x - Modulus \in Int /\ q - 1 \in Int /\ (q - 1) * Modulus <= x - Modulus
      BY <1>1, <2>3, <2>4
    <3> QED BY <2>4, <3>1, ModIs
  <2>6. (x - Modulus) % Modulus = 0
    <3>1. (q - 1) * Modulus \in Int
      BY <1>1, <2>3
    <3> QED BY <2>4, <2>5, <3>1
  <2> QED BY <1>3, <2>2, <2>6
<1> QED BY <1>4, <1>5

-----------------------------------------------------------------------------
(* What is read of a device and pushed for it.                             *)

LEMMA KindIs ==
  ASSUME NEW d \in Device
  PROVE  Kind[d] \in {"stat", "meminfo", "diskstats", "netdev", "loadavg"}
<1>1. Files \in Seq({"stat", "meminfo", "diskstats", "netdev", "loadavg"}) /\ Len(Files) = 5
  BY DEF Files
<1>2. Range(Files) = {Files[i] : i \in 1 .. 5}
  BY <1>1, RangeEquality
<1>3. Kind[d] \in Range(Files)
  BY DeviceAssumption
<1>4. \A i \in 1 .. 5 : Files[i] \in {"stat", "meminfo", "diskstats", "netdev", "loadavg"}
  BY DEF Files
<1> QED BY <1>2, <1>3, <1>4

LEMMA CollectIs ==
  /\ Collect["stat"] = collectCPU /\ Collect["meminfo"] = collectMemory
  /\ Collect["diskstats"] = collectDisk /\ Collect["netdev"] = collectNetwork
  /\ Collect["loadavg"] = collectLoadAvg
BY DEF Collect

\* The keys of a device in their order, once each, and its fields.
LEMMA Layout ==
  ASSUME NEW d \in Device
  PROVE  /\ Keys(d) \in Seq(Key(d)) /\ Len(Keys(d)) \in 1 .. 3
         /\ \A k \in Key(d) : \E i \in 1 .. Len(Keys(d)) : k = Keys(d)[i]
         /\ \A i, j \in 1 .. Len(Keys(d)) : Keys(d)[i] = Keys(d)[j] => i = j
         /\ Kind[d] = "stat" => Field(d) = {"user", "idle", "iowait"}
         /\ Kind[d] # "stat" => "iowait" \notin Field(d)
         /\ "total" \notin Field(d) /\ "rx_total" \notin Field(d)
         /\ Counted(d) \in BOOLEAN
         /\ Counted(d) => \A k \in Key(d) :
              \/ k = "total" /\ Kind[d] = "stat"
              \/ k = "rx_total" /\ "rx" \in Field(d)
              \/ k \in Field(d)
<1> DEFINE ks == Keys(d)
<1>0. \/ Kind[d] = "stat" /\ ks = <<"total", "user", "iowait">>
        /\ Field(d) = {"user", "idle", "iowait"} /\ Counted(d) = TRUE
      \/ Kind[d] = "meminfo" /\ ks = <<"used">> /\ Field(d) = {"used"} /\ Counted(d) = FALSE
      \/ Kind[d] = "diskstats" /\ ks = <<"read", "write">>
        /\ Field(d) = {"read", "write"} /\ Counted(d) = TRUE
      \/ Kind[d] = "netdev" /\ ks = <<"rx", "tx", "rx_total">>
        /\ Field(d) = {"rx", "tx"} /\ Counted(d) = TRUE
      \/ Kind[d] = "loadavg" /\ ks = <<"1m">> /\ Field(d) = {"1m"} /\ Counted(d) = FALSE
  BY KindIs, CollectIs DEF Keys, Field, Counted, collectCPU, collectMemory, collectDisk,
                           collectNetwork, collectLoadAvg
<1> DEFINE S == {"total", "user", "iowait", "used", "read", "write", "rx", "tx", "rx_total", "1m"}
<1>1. Len(ks) \in 1 .. 3 /\ ks \in Seq(S)
  <2>1. /\ <<"total", "user", "iowait">> \in Seq(S) /\ <<"used">> \in Seq(S)
        /\ <<"read", "write">> \in Seq(S) /\ <<"rx", "tx", "rx_total">> \in Seq(S)
        /\ <<"1m">> \in Seq(S)
    OBVIOUS
  <2>2. /\ Len(<<"total", "user", "iowait">>) = 3 /\ Len(<<"used">>) = 1
        /\ Len(<<"read", "write">>) = 2 /\ Len(<<"rx", "tx", "rx_total">>) = 3
        /\ Len(<<"1m">>) = 1
    OBVIOUS
  <2> HIDE DEF ks, S
  <2>3. ks \in Seq(S)
    BY <1>0, <2>1, Zenon
  <2>4. Len(ks) = 1 \/ Len(ks) = 2 \/ Len(ks) = 3
    BY <1>0, <2>2, Zenon
  <2> QED BY <2>3, <2>4
<1> HIDE DEF S
<1>2. Key(d) = {ks[i] : i \in 1 .. Len(ks)}
  BY <1>1, RangeEquality DEF Key
<1>3. ks \in Seq(Key(d))
  <2>1. \A i \in 1 .. Len(ks) : ks[i] \in Key(d)
    BY <1>2
  <2> HIDE DEF ks
  <2> QED BY <1>1, <2>1
<1>4. \A i, j \in 1 .. Len(ks) : ks[i] = ks[j] => i = j
  BY <1>0
<1>5. Counted(d) => \A i \in 1 .. Len(ks) :
              \/ ks[i] = "total" /\ Kind[d] = "stat"
              \/ ks[i] = "rx_total" /\ "rx" \in Field(d)
              \/ ks[i] \in Field(d)
  BY <1>0
<1>6. /\ Kind[d] = "stat" => Field(d) = {"user", "idle", "iowait"}
      /\ Kind[d] # "stat" => "iowait" \notin Field(d)
      /\ "total" \notin Field(d) /\ "rx_total" \notin Field(d)
      /\ Counted(d) \in BOOLEAN
  BY <1>0
<1>7. /\ \A k \in Key(d) : \E i \in 1 .. Len(ks) : k = ks[i]
      /\ Counted(d) => \A k \in Key(d) :
              \/ k = "total" /\ Kind[d] = "stat"
              \/ k = "rx_total" /\ "rx" \in Field(d)
              \/ k \in Field(d)
  BY <1>2, <1>5
<1> QED BY <1>1, <1>3, <1>4, <1>6, <1>7

LEMMA ValueIs ==
  ASSUME NEW d \in Device, Counted(d), NEW k \in Key(d),
         NEW c \in [Field(d) -> Counter], NEW p \in [Field(d) -> Counter]
  PROVE  /\ Value(k, c, p) \in Counter
         /\ k \in Field(d) => Value(k, c, p) = Minus(c[k], p[k])
<1>1. Counter \subseteq Int
  BY BoundAssumption DEF Counter
<1>2. CASE k \in Field(d)
  <2>1. k # "total" /\ k # "rx_total"
    BY <1>2, Layout
  <2>2. Value(k, c, p) = Minus(c[k], p[k])
    BY <2>1 DEF Value
  <2>3. c[k] \in Int /\ p[k] \in Int
    BY <1>1, <1>2
  <2> QED BY <2>2, <2>3, MinusIsCounter
<1>3. CASE k = "rx_total" /\ "rx" \in Field(d)
  <2>1. Value(k, c, p) = c["rx"]
    BY <1>3 DEF Value
  <2> QED BY <1>3, <2>1, Layout
<1>4. CASE k = "total" /\ Kind[d] = "stat"
  <2>1. Field(d) = {"user", "idle", "iowait"}
    BY <1>4, Layout
  <2>2. /\ c["user"] \in Int /\ c["idle"] \in Int /\ c["iowait"] \in Int
        /\ p["user"] \in Int /\ p["idle"] \in Int /\ p["iowait"] \in Int
    BY <1>1, <2>1
  <2>3. total(c) \in Int /\ total(p) \in Int /\ idleTotal(c) \in Int /\ idleTotal(p) \in Int
    BY <2>2 DEF total, idleTotal
  <2>4. Elapsed(c, p) \in Int /\ Minus(idleTotal(c), idleTotal(p)) \in Int
    BY <1>1, <2>3, MinusIsCounter DEF Elapsed
  <2>5. Value(k, c, p) = Minus(Elapsed(c, p), Minus(idleTotal(c), idleTotal(p)))
    BY <1>4 DEF Value
  <2>6. Value(k, c, p) \in Counter
    BY <2>4, <2>5, MinusIsCounter
  <2> QED BY <1>4, <2>6, Layout
<1> QED BY <1>2, <1>3, <1>4, Layout

Pushed == [series : Series, value : Counter]

\* The pushes for a device: one for each of its keys, in their order.
Batch(d, q) ==
  /\ q \in Seq(Pushed) /\ Len(q) = Len(Keys(d))
  /\ \A i \in 1 .. Len(q) : q[i].series = <<d, Keys(d)[i]>>

LEMMA SeriesIs ==
  /\ \A d \in Device : \A k \in Key(d) : <<d, k>> \in Series
  /\ \A s \in Series : \E d \in Device : \E k \in Key(d) : s = <<d, k>>
BY DEF Series

LEMMA PushesAre ==
  ASSUME NEW d \in Device, Counted(d), NEW c \in [Field(d) -> Counter],
         d \in DOMAIN prev => prev[d] \in [Field(d) -> Counter]
  PROVE  \/ /\ Pushes(d, c) = <<>>
            /\ d \in DOMAIN prev => Kind[d] = "stat" /\ Elapsed(c, prev[d]) = 0
         \/ /\ d \in DOMAIN prev /\ Batch(d, Pushes(d, c))
            /\ \A i \in 1 .. Len(Keys(d)) :
                 Keys(d)[i] \in Field(d) =>
                   Pushes(d, c)[i].value = Minus(c[Keys(d)[i]], prev[d][Keys(d)[i]])
<1>1. CASE d \notin DOMAIN prev \/ (Kind[d] = "stat" /\ Elapsed(c, prev[d]) = 0)
  BY <1>1 DEF Pushes
<1>2. CASE ~ (d \notin DOMAIN prev \/ (Kind[d] = "stat" /\ Elapsed(c, prev[d]) = 0))
  <2> DEFINE n == Len(Keys(d))
             q == [i \in 1 .. n |->
                     [series |-> <<d, Keys(d)[i]>>, value |-> Value(Keys(d)[i], c, prev[d])]]
  <2>1. Pushes(d, c) = q
    BY <1>2 DEF Pushes
  <2>2. d \in DOMAIN prev /\ prev[d] \in [Field(d) -> Counter] /\ n \in Nat
    BY <1>2, Layout
  <2>3. ASSUME NEW i \in 1 .. n
        PROVE  /\ q[i] \in Pushed /\ q[i].series = <<d, Keys(d)[i]>>
               /\ Keys(d)[i] \in Field(d) =>
                    q[i].value = Minus(c[Keys(d)[i]], prev[d][Keys(d)[i]])
    <3>1. Keys(d)[i] \in Key(d)
      BY Layout
    <3>2. Value(Keys(d)[i], c, prev[d]) \in Counter /\ <<d, Keys(d)[i]>> \in Series
      BY <2>2, <3>1, ValueIs, SeriesIs
    <3>3. q[i].series = <<d, Keys(d)[i]>> /\ q[i].value = Value(Keys(d)[i], c, prev[d])
      OBVIOUS
    <3>4. q[i] \in Pushed
      BY <3>2 DEF Pushed
    <3> QED BY <2>2, <3>1, <3>3, <3>4, ValueIs
  <2> HIDE DEF q
  <2>4. q \in Seq(Pushed) /\ Len(q) = n
    <3>1. q = [i \in 1 .. n |-> q[i]]
      BY DEF q
    <3> HIDE DEF n
    <3> QED BY <2>2, <2>3, <3>1
  <2> QED BY <2>1, <2>2, <2>3, <2>4 DEF Batch
<1> QED BY <1>1, <1>2

\* The place of a file in the order of collect.
LEMMA FilesDiffer ==
  /\ Len(Files) = 5
  /\ \A i, j \in 1 .. Len(Files) : Files[i] = Files[j] => i = j
BY DEF Files

-----------------------------------------------------------------------------
(* A device is taken in hand.                                              *)

LEMMA BatchIs ==
  ASSUME NEW d \in Device, NEW q, Batch(d, q)
  PROVE  /\ {q[i].series : i \in 1 .. Len(q)} = {<<d, k>> : k \in Key(d)}
         /\ \A i, j \in 1 .. Len(q) : q[i].series = q[j].series => i = j
<1>1. Len(q) = Len(Keys(d)) /\ \A i \in 1 .. Len(q) : q[i].series = <<d, Keys(d)[i]>>
  BY DEF Batch
<1>2. \A i \in 1 .. Len(Keys(d)) : Keys(d)[i] \in Key(d)
  BY Layout
<1>3. ASSUME NEW i \in 1 .. Len(q), NEW j \in 1 .. Len(q), q[i].series = q[j].series
      PROVE  i = j
  <2>1. Keys(d)[i] = Keys(d)[j]
    BY <1>1, <1>3
  <2> QED BY <1>1, <2>1, Layout
<1>4. \A i \in 1 .. Len(q) : q[i].series \in {<<d, k>> : k \in Key(d)}
  BY <1>1, <1>2
<1>5. ASSUME NEW k \in Key(d) PROVE \E i \in 1 .. Len(q) : q[i].series = <<d, k>>
  <2>1. PICK i \in 1 .. Len(Keys(d)) : k = Keys(d)[i]
    BY Layout
  <2> QED BY <1>1, <2>1
<1> QED BY <1>3, <1>4, <1>5

\* Until the pushes of a device are done, this collection has been at it.
LEMMA HandInv ==
  ASSUME IInv, NEW d \in Device, InHand(d), pending' = <<>> \/ Batch(d, pending')
  PROVE  Control' /\ OncePending' /\ OncePerRound' /\ InStep' /\ ReadInStep'
<1>1. /\ opened /\ pending = <<>> /\ d \in todo /\ todo' = todo \ {d}
      /\ UNCHANGED <<phase, loop, tick, round, file, opened, mu, store, reader, toRead, newest, behind>>
  BY DEF InHand, owner, snapshot
<1>2. /\ loop = "collect" /\ file \in 1 .. Len(Files) /\ Kind[d] = Files[file]
      /\ round \in Int /\ \A s \in Series : store[s] \in Int
  BY <1>1, BoundAssumption DEF IInv, TypeOK, Control
<1>3. Coming = {}
  BY <1>1 DEF Coming
<1>4. Coming' = {} \/ Coming' = {<<d, k>> : k \in Key(d)}
  <2>1. CASE pending' = <<>>
    BY <2>1 DEF Coming
  <2>2. CASE Batch(d, pending')
    BY <2>2, BatchIs DEF Coming
  <2> QED BY <2>1, <2>2
<1>5. Control'
  BY <1>1, <1>2 DEF IInv, Control
<1>6. OncePending'
  <2>1. CASE pending' = <<>>
    BY <2>1 DEF OncePending
  <2>2. CASE Batch(d, pending')
    BY <2>2, BatchIs DEF OncePending
  <2> QED BY <2>1, <2>2
<1>7. ASSUME NEW e \in Device, NEW k \in Key(e)
      PROVE  /\ After(<<e, k>>) = store[<<e, k>>] /\ store[<<e, k>>] \in Int
             /\ e # d => After(<<e, k>>)' = store[<<e, k>>]
             /\ e = d => After(<<e, k>>)' = store[<<e, k>>] + (IF Coming' = {} THEN 0 ELSE 1)
  <2>1. store[<<e, k>>] \in Int
    BY <1>2, SeriesIs
  <2>2. After(<<e, k>>) = store[<<e, k>>]
    BY <1>3, <2>1 DEF After
  <2>3. After(<<e, k>>)' = store[<<e, k>>] + (IF <<e, k>> \in Coming' THEN 1 ELSE 0)
    BY <1>1 DEF After
  <2>4. e # d => <<e, k>> \notin Coming'
    BY <1>4
  <2>5. e = d => (<<e, k>> \in Coming' <=> Coming' # {})
    BY <1>4
  <2> QED BY <2>1, <2>2, <2>3, <2>4, <2>5
<1>8. Ahead(d) /\ ~ Ahead(d)'
  <2>1. Ahead(d)
    BY <1>1, <1>2 DEF Ahead
  <2>2. ~ Ahead(d)'
    BY <1>1, <1>2, FilesDiffer DEF Ahead
  <2> QED BY <2>1, <2>2
<1>9. \A e \in Device \ {d} : Ahead(e)' => Ahead(e)
  BY <1>1 DEF Ahead
<1>10. OncePerRound'
  <2> SUFFICES ASSUME NEW e \in Device, NEW k \in Key(e)
               PROVE  After(<<e, k>>)' <= IF Ahead(e)' THEN round' - 1 ELSE round'
    BY DEF OncePerRound
  <2>1. After(<<e, k>>) <= IF Ahead(e) THEN round - 1 ELSE round
    BY DEF IInv, OncePerRound
  <2>2. CASE e = d
    BY <1>1, <1>2, <1>7, <1>8, <2>1, <2>2
  <2>3. CASE e # d
    BY <1>1, <1>2, <1>7, <1>9, <2>1, <2>3
  <2> QED BY <2>2, <2>3
<1>11. InStep'
  <2> SUFFICES ASSUME NEW e \in Device, NEW k \in Key(e), NEW l \in Key(e)
               PROVE  After(<<e, k>>)' = After(<<e, l>>)'
    BY DEF InStep
  <2>1. After(<<e, k>>) = After(<<e, l>>)
    BY DEF IInv, InStep
  <2> QED BY <1>7, <2>1
<1>12. ReadInStep'
  BY <1>1 DEF IInv, ReadInStep
<1> QED BY <1>5, <1>6, <1>10, <1>11, <1>12

\* The map of readings with a new one.
LEMMA RememberIs ==
  ASSUME NEW d, NEW c, Remember(d, c)
  PROVE  /\ DOMAIN prev' = {d} \cup DOMAIN prev /\ prev'[d] = c
         /\ \A e \in DOMAIN prev \ {d} : prev'[e] = prev[e]
BY DEF Remember

\* A counter is read: c is the new reading and o what is owed with it.
Counts(d, c, o) ==
  /\ InHand(d) /\ Counted(d) /\ Remember(d, c)
  /\ c \in [Field(d) -> Counter] /\ o \in [Field(d) -> Int]
  /\ counter' = [counter EXCEPT ![d] = c]
  /\ owed' = [owed EXCEPT ![d] = o]
  /\ restarted' \subseteq restarted

\* The pushes that follow from the new reading c.
LEMMA CountPushes ==
  ASSUME IInv, NEW d \in Device, NEW c, NEW o, Counts(d, c, o)
  PROVE  \/ /\ pending' = <<>>
            /\ d \in DOMAIN prev => Kind[d] = "stat" /\ Elapsed(c, counter[d]) = 0
         \/ /\ d \in DOMAIN prev /\ Batch(d, pending')
            /\ \A i \in 1 .. Len(pending') : \A f \in Field(d) :
                 pending'[i].series = <<d, f>> => pending'[i].value = Minus(c[f], counter[d][f])
<1>1. Counted(d) /\ c \in [Field(d) -> Counter] /\ pending' = Pushes(d, c)
  BY DEF Counts, Remember
<1>2. d \in DOMAIN prev => prev[d] = counter[d] /\ prev[d] \in [Field(d) -> Counter]
  BY DEF IInv, Readings, TypeOK
<1>3. CASE /\ Pushes(d, c) = <<>>
           /\ d \in DOMAIN prev => Kind[d] = "stat" /\ Elapsed(c, prev[d]) = 0
  BY <1>1, <1>2, <1>3
<1>4. CASE /\ d \in DOMAIN prev /\ Batch(d, Pushes(d, c))
           /\ \A i \in 1 .. Len(Keys(d)) :
                Keys(d)[i] \in Field(d) =>
                  Pushes(d, c)[i].value = Minus(c[Keys(d)[i]], prev[d][Keys(d)[i]])
  <2>1. /\ Len(pending') = Len(Keys(d))
        /\ \A i \in 1 .. Len(pending') : pending'[i].series = <<d, Keys(d)[i]>>
    BY <1>1, <1>4 DEF Batch
  <2>2. ASSUME NEW i \in 1 .. Len(pending'), NEW f \in Field(d), pending'[i].series = <<d, f>>
        PROVE  pending'[i].value = Minus(c[f], counter[d][f])
    <3>1. Keys(d)[i] = f
      BY <2>1, <2>2
    <3> QED BY <1>1, <1>2, <1>4, <2>1, <3>1
  <2> QED BY <1>1, <1>4, <2>2
<1> QED BY <1>1, <1>2, <1>3, <1>4, PushesAre

LEMMA CountTyped ==
  ASSUME IInv, NEW d \in Device, NEW c, NEW o, Counts(d, c, o)
  PROVE  TypeOK' /\ Readings'
<1>1. /\ d \in todo /\ todo' = todo \ {d}
      /\ UNCHANGED <<phase, loop, tick, round, file, opened, mu, store, toRead, newest, behind>>
      /\ UNCHANGED <<host, plugged>>
  BY DEF Counts, InHand, owner, snapshot
<1>2. /\ Counted(d) /\ c \in [Field(d) -> Counter] /\ o \in [Field(d) -> Int]
      /\ counter' = [counter EXCEPT ![d] = c] /\ owed' = [owed EXCEPT ![d] = o]
      /\ restarted' \subseteq restarted
  BY DEF Counts
<1>3. /\ DOMAIN prev' = {d} \cup DOMAIN prev /\ prev'[d] = c
      /\ \A e \in DOMAIN prev \ {d} : prev'[e] = prev[e]
  BY RememberIs DEF Counts
<1>4. pending' \in Seq(Pushed)
  <2>1. pending' = <<>> \/ Batch(d, pending')
    BY CountPushes
  <2>2. CASE pending' = <<>>
    BY <2>2
  <2>3. CASE Batch(d, pending')
    BY <2>3 DEF Batch
  <2> QED BY <2>1, <2>2, <2>3
<1>5. TypeOK'
  <2>1. /\ phase' \in {"setup", "running", "stopping", "stopped"}
        /\ loop' \in {"none", "collect", "select", "exited"}
        /\ tick' \in BOOLEAN /\ opened' \in BOOLEAN /\ mu' \in BOOLEAN
        /\ round' \in 0 .. MaxRound /\ file' \in 1 .. Len(Files)
        /\ store' \in [Series -> 0 .. MaxRound] /\ toRead' \subseteq Series
        /\ newest' \in [Device -> Nat] /\ behind' \in [Device -> Nat]
        /\ mu' => opened' /\ loop' = "collect"
        /\ host' \in Hosts /\ plugged' \subseteq host'
    BY <1>1 DEF IInv, TypeOK
  <2>2. todo' \subseteq {e \in Device : Kind[e] = Files[file']}
    BY <1>1 DEF IInv, TypeOK
  <2>3. DOMAIN prev' \subseteq Device
    BY <1>3 DEF IInv, TypeOK
  <2>4. \A e \in DOMAIN prev' : Counted(e) /\ prev'[e] \in [Field(e) -> Counter]
    BY <1>2, <1>3 DEF IInv, TypeOK
  <2> QED BY <1>4, <2>1, <2>2, <2>3, <2>4 DEF TypeOK, Pushed
<1>6. Readings'
  <2>1. /\ counter = [e \in Device |-> counter[e]] /\ owed = [e \in Device |-> owed[e]]
        /\ \A e \in Device : counter[e] \in [Field(e) -> Counter] /\ owed[e] \in [Field(e) -> Int]
    BY DEF IInv, Readings
  <2>2. /\ counter'[d] = c /\ owed'[d] = o
        /\ \A e \in Device \ {d} : counter'[e] = counter[e] /\ owed'[e] = owed[e]
    BY <1>2, <2>1
  <2>3. counter' = [e \in Device |-> counter'[e]] /\ owed' = [e \in Device |-> owed'[e]]
    BY <1>2, <2>1
  <2>4. \A e \in Device : counter'[e] \in [Field(e) -> Counter] /\ owed'[e] \in [Field(e) -> Int]
    BY <1>2, <2>1, <2>2
  <2>5. \A e \in DOMAIN prev' : prev'[e] = counter'[e]
    BY <1>3, <2>2 DEF IInv, Readings, TypeOK
  <2>6. restarted' \subseteq DOMAIN prev' \cap Removable
    BY <1>2, <1>3 DEF IInv, Readings
  <2>7. \A i \in 1 .. Len(pending') : \A e \in Device : \A k :
          pending'[i].series = <<e, k>> /\ Counted(e) => e \in DOMAIN prev'
    <3>1. pending' = <<>> \/ Batch(d, pending')
      BY CountPushes
    <3>2. \A i \in 1 .. Len(pending') : \E k : pending'[i].series = <<d, k>>
      BY <3>1 DEF Batch
    <3> QED BY <1>3, <3>2
  <2> QED BY <2>3, <2>4, <2>5, <2>6, <2>7 DEF Readings
<1> QED BY <1>5, <1>6

\* What the reading o must be for the balance to hold after it.
LEMMA CountBalance ==
  ASSUME IInv, NEW d \in Device, NEW c, NEW o, Counts(d, c, o), fallen \subseteq fallen',
         \A f \in Field(d) :
           /\ <<d, f>> \notin Coming' => Balanced(fallen', d, o[f])
           /\ \A i \in 1 .. Len(pending') :
                pending'[i].series = <<d, f>> => Balanced(fallen', d, o[f] - pending'[i].value)
  PROVE  Balance'
<1>1. /\ o \in [Field(d) -> Int] /\ owed' = [owed EXCEPT ![d] = o]
      /\ owed = [e \in Device |-> owed[e]] /\ DOMAIN prev \subseteq Device
  BY DEF Counts, IInv, Readings, TypeOK
<1>2. owed'[d] = o /\ \A e \in Device \ {d} : owed'[e] = owed[e]
  BY <1>1
<1>3. DOMAIN prev' = {d} \cup DOMAIN prev
  BY RememberIs DEF Counts
<1>4. pending = <<>> /\ Coming = {}
  BY DEF Counts, InHand, Coming
<1>5. \A i \in 1 .. Len(pending') : \E k : pending'[i].series = <<d, k>>
  <2>1. pending' = <<>> \/ Batch(d, pending')
    BY CountPushes
  <2> QED BY <2>1 DEF Batch
<1>6. ASSUME NEW e \in DOMAIN prev', NEW f \in Field(e)
      PROVE  /\ <<e, f>> \notin Coming' => Balanced(fallen', e, owed'[e][f])
             /\ \A i \in 1 .. Len(pending') :
                  pending'[i].series = <<e, f>> => Balanced(fallen', e, owed'[e][f] - pending'[i].value)
  <2>1. CASE e = d
    BY <1>2, <2>1
  <2>2. CASE e # d
    <3>1. e \in DOMAIN prev /\ e \in Device /\ owed'[e] = owed[e]
      BY <1>1, <1>2, <1>3, <1>6, <2>2
    <3>2. Balanced(fallen, e, owed[e][f])
      BY <1>4, <3>1 DEF IInv, Balance
    <3>3. Balanced(fallen', e, owed'[e][f])
      BY <3>1, <3>2 DEF Balanced
    <3>4. \A i \in 1 .. Len(pending') : pending'[i].series # <<e, f>>
      BY <1>5, <2>2
    <3> QED BY <3>3, <3>4
  <2> QED BY <2>1, <2>2
<1>7. ASSUME NEW e \in Device \ DOMAIN prev', NEW f \in Field(e) PROVE owed'[e][f] = 0
  BY <1>2, <1>3, <1>7 DEF IInv, Balance
<1> QED BY <1>6, <1>7 DEF Balance

LEMMA CountInv ==
  ASSUME IInv, NEW d \in Device, NEW c, NEW o, Counts(d, c, o), fallen \subseteq fallen',
         \A f \in Field(d) :
           /\ <<d, f>> \notin Coming' => Balanced(fallen', d, o[f])
           /\ \A i \in 1 .. Len(pending') :
                pending'[i].series = <<d, f>> => Balanced(fallen', d, o[f] - pending'[i].value)
  PROVE  IInv'
<1>1. TypeOK' /\ Readings'
  BY CountTyped
<1>2. Balance'
  BY CountBalance
<1>3. InHand(d) /\ (pending' = <<>> \/ Batch(d, pending'))
  BY CountPushes DEF Counts
<1>4. Control' /\ OncePending' /\ OncePerRound' /\ InStep' /\ ReadInStep'
  BY <1>3, HandInv
<1> QED BY <1>1, <1>2, <1>4 DEF IInv

LEMMA SeedInv ==
  ASSUME IInv, NEW d \in Device, Seed(d)
  PROVE  IInv'
<1>1. PICK start \in {0, Modulus - 1} :
        counter' = [counter EXCEPT ![d] = [f \in Field(d) |-> start]]
  BY DEF Seed
<1> DEFINE c == [f \in Field(d) |-> start]
<1>2. /\ d \notin DOMAIN prev /\ Counted(d) /\ InHand(d) /\ Remember(d, counter'[d])
      /\ UNCHANGED <<restarted, owed, fallen>>
  BY DEF Seed
<1>3. counter = [e \in Device |-> counter[e]] /\ owed = [e \in Device |-> owed[e]]
      /\ owed[d] \in [Field(d) -> Int]
  BY DEF IInv, Readings
<1>4. start \in Counter
  BY BoundAssumption DEF Counter
<1>5. counter'[d] = c /\ owed' = [owed EXCEPT ![d] = owed[d]]
  BY <1>1, <1>2, <1>3
<1>6. c \in [Field(d) -> Counter]
  BY <1>4
<1>7. counter' = [counter EXCEPT ![d] = c]
  BY <1>1
<1> HIDE DEF c
<1>8. Counts(d, c, owed[d])
  BY <1>2, <1>3, <1>5, <1>6, <1>7 DEF Counts
<1>9. pending' = <<>>
  BY <1>2, <1>8, CountPushes
<1>10. \A f \in Field(d) : Balanced(fallen', d, owed[d][f])
  BY <1>2 DEF IInv, Balance, Balanced
<1> QED BY <1>2, <1>8, <1>9, <1>10, CountInv

\* What two of the rereadings have in common.
LEMMA ReadCounts ==
  ASSUME IInv, NEW d \in Device, d \in DOMAIN prev, InHand(d),
         NEW g \in [Field(d) -> Int], Read(d, g), restarted' \subseteq restarted,
         NEW c, c = [f \in Field(d) |-> (counter[d][f] + g[f]) % Modulus],
         NEW o, o = [f \in Field(d) |-> IF f \in Key(d) THEN owed[d][f] + g[f] ELSE 0]
  PROVE  /\ Counts(d, c, o) /\ fallen \subseteq fallen'
         /\ \A f \in Field(d) : Balanced(fallen, d, owed[d][f])
<1>1. /\ counter = [e \in Device |-> counter[e]] /\ owed = [e \in Device |-> owed[e]]
      /\ owed[d] \in [Field(d) -> Int] /\ counter[d] \in [Field(d) -> Counter]
      /\ Counted(d)
  BY DEF IInv, Readings, TypeOK
<1>2. counter' = [counter EXCEPT ![d] = c]
  BY <1>1 DEF Read
<1>3. owed' = [owed EXCEPT ![d] = o]
  BY <1>1 DEF Read
<1>4. Remember(d, c)
  <2>1. counter'[d] = c
    BY <1>1, <1>2
  <2> QED BY <2>1 DEF Read
<1>5. c \in [Field(d) -> Counter]
  <2>1. \A f \in Field(d) : (counter[d][f] + g[f]) % Modulus \in Counter
    BY <1>1, BoundAssumption DEF Counter
  <2> QED BY <2>1
<1>6. o \in [Field(d) -> Int]
  <2>1. \A f \in Field(d) : owed[d][f] + g[f] \in Int
    BY <1>1
  <2> QED BY <2>1
<1>7. Counts(d, c, o)
  BY <1>1, <1>2, <1>3, <1>4, <1>5, <1>6 DEF Counts
<1>8. fallen \subseteq fallen'
  BY DEF Read
<1>9. Coming = {}
  BY DEF InHand, Coming
<1> QED BY <1>7, <1>8, <1>9 DEF IInv, Balance

\* A CPU whose counters have not gone down has advanced if any of them has.
LEMMA NotAdvanced ==
  ASSUME NEW p \in [{"user", "idle", "iowait"} -> Counter],
         NEW g \in [{"user", "idle", "iowait"} -> 0 .. MaxGrowth],
         NEW c, c = [f \in {"user", "idle", "iowait"} |-> (p[f] + g[f]) % Modulus],
         Elapsed(c, p) = 0
  PROVE  \A f \in {"user", "idle", "iowait"} : g[f] = 0
<1> DEFINE u == p["user"]     i == p["idle"]     w == p["iowait"]
           gu == g["user"]    gi == g["idle"]    gw == g["iowait"]
           cu == (u + gu) % Modulus
           ci == (i + gi) % Modulus
           cw == (w + gw) % Modulus
<1>1. Modulus \in Nat \ {0} /\ MaxGrowth \in Nat /\ 3 * MaxGrowth < Modulus
  BY BoundAssumption
<1>2. u \in Counter /\ i \in Counter /\ w \in Counter
  OBVIOUS
<1>3. gu \in 0 .. MaxGrowth /\ gi \in 0 .. MaxGrowth /\ gw \in 0 .. MaxGrowth
  OBVIOUS
<1>4. Elapsed(c, p) = ((cu + ci + cw) - (u + i + w)) % Modulus
  BY DEF Elapsed, Minus, total
<1>5. Elapsed(c, p) = 0
  OBVIOUS
<1> HIDE DEF u, i, w, gu, gi, gw
<1>6. /\ u \in Int /\ i \in Int /\ w \in Int /\ gu \in Int /\ gi \in Int /\ gw \in Int
      /\ 0 <= gu /\ gu < Modulus /\ 0 <= gi /\ gi < Modulus /\ 0 <= gw /\ gw < Modulus
      /\ gu + gi + gw < Modulus
  BY <1>1, <1>2, <1>3 DEF Counter
<1>7. /\ cu = u + gu \/ cu = u + gu - Modulus
      /\ ci = i + gi \/ ci = i + gi - Modulus
      /\ cw = w + gw \/ cw = w + gw - Modulus
  BY <1>2, <1>6, GrownBy
<1> HIDE DEF cu, ci, cw
<1> DEFINE x == (cu + ci + cw) - (u + i + w)
           s == gu + gi + gw
<1>8. \/ x = s \/ x = s - Modulus \/ x = s - 2 * Modulus \/ x = s - 3 * Modulus
  BY <1>1, <1>6, <1>7
<1>9. s \in Int /\ 0 <= s /\ s < Modulus
  BY <1>6
<1>10. x % Modulus = 0
  BY <1>4, <1>5
<1> HIDE DEF x, s
<1>11. ASSUME NEW n \in 0 .. 3, x = s - n * Modulus PROVE s = 0
  <2> DEFINE k == 0 - n
  <2>1. k \in Int /\ x \in Int /\ k * Modulus = 0 - n * Modulus
        /\ (k + 1) * Modulus = Modulus - n * Modulus /\ n * Modulus \in Int
    BY <1>1, <1>9, <1>11
  <2> HIDE DEF k
  <2>2. k * Modulus <= x /\ x < (k + 1) * Modulus
    BY <1>1, <1>9, <1>11, <2>1
  <2>3. x % Modulus = x - k * Modulus
    BY <2>1, <2>2, ModIs
  <2> QED BY <1>9, <1>10, <1>11, <2>1, <2>3
<1>12. s = 0
  <2>1. 0 * Modulus = 0 /\ 1 * Modulus = Modulus /\ Modulus \in Int
    BY <1>1
  <2> QED BY <1>8, <1>9, <1>11, <2>1
<1>13. gu = 0 /\ gi = 0 /\ gw = 0
  BY <1>6, <1>12 DEF s
<1> QED BY <1>13 DEF gu, gi, gw

LEMMA EmptyNotBatch ==
  ASSUME NEW d \in Device
  PROVE  ~ Batch(d, <<>>)
BY Layout DEF Batch

LEMMA RereadInv ==
  ASSUME IInv, NEW d \in Device, Reread(d)
  PROVE  IInv'
<1>1. PICK g \in [Field(d) -> -1 .. MaxGrowth] :
        /\ \A f \in Field(d) : g[f] < 0 => f = "iowait" /\ counter[d][f] > 0
        /\ Read(d, g)
  BY DEF Reread
<1> DEFINE c == [f \in Field(d) |-> (counter[d][f] + g[f]) % Modulus]
           o == [f \in Field(d) |-> IF f \in Key(d) THEN owed[d][f] + g[f] ELSE 0]
<1>2. /\ d \in DOMAIN prev /\ InHand(d) /\ restarted' = restarted
      /\ counter[d] \in [Field(d) -> Counter] /\ owed[d] \in [Field(d) -> Int]
  BY DEF Reread, IInv, Readings
<1>3. g \in [Field(d) -> Int] /\ \A f \in Field(d) : g[f] \in Int /\ g[f] <= MaxGrowth
  BY BoundAssumption
<1>4. /\ Counts(d, c, o) /\ fallen \subseteq fallen'
      /\ \A f \in Field(d) : Balanced(fallen, d, owed[d][f])
  BY <1>1, <1>2, <1>3, ReadCounts
<1>5. \A f \in Field(d) : /\ c[f] = (counter[d][f] + g[f]) % Modulus
                          /\ f \in Key(d) => o[f] = owed[d][f] + g[f]
                          /\ f \notin Key(d) => o[f] = 0
                          /\ o[f] \in Int /\ owed[d][f] \in Int
  BY <1>2, <1>3
<1>6. c = [f \in Field(d) |-> (counter[d][f] + g[f]) % Modulus]
  OBVIOUS
<1> HIDE DEF c, o
<1>7. CASE \E f \in Field(d) : g[f] < 0
  <2>1. Kind[d] = "stat" /\ d \in fallen'
    BY <1>1, <1>7, Layout DEF Read
  <2>2. \A x : Balanced(fallen', d, x)
    BY <2>1 DEF Balanced
  <2> QED BY <1>4, <2>2, CountInv
<1>8. CASE \A f \in Field(d) : g[f] >= 0
  <2>1. \A f \in Field(d) : Balanced(fallen', d, owed[d][f])
    BY <1>4 DEF Balanced
  <2>2. \A f \in Field(d) : Minus(c[f], counter[d][f]) = g[f]
    <3> SUFFICES ASSUME NEW f \in Field(d) PROVE Minus(c[f], counter[d][f]) = g[f]
      OBVIOUS
    <3>1. counter[d][f] \in Counter /\ g[f] \in Int /\ 0 <= g[f] /\ g[f] < Modulus
      BY <1>2, <1>3, <1>8, BoundAssumption
    <3> QED BY <1>5, <3>1, GrownBy
  <2>3. ASSUME NEW f \in Field(d)
        PROVE  /\ <<d, f>> \notin Coming' => Balanced(fallen', d, o[f])
               /\ \A i \in 1 .. Len(pending') :
                    pending'[i].series = <<d, f>> => Balanced(fallen', d, o[f] - pending'[i].value)
    <3>1. CASE pending' = <<>>
      <4>1. Kind[d] = "stat" /\ Elapsed(c, counter[d]) = 0
        BY <1>2, <1>4, <3>1, EmptyNotBatch, CountPushes
      <4>2. Field(d) = {"user", "idle", "iowait"}
        BY <4>1, Layout
      <4>3. g \in [Field(d) -> 0 .. MaxGrowth]
        <5>1. \A h \in Field(d) : g[h] \in 0 .. MaxGrowth
          BY <1>3, <1>8, BoundAssumption
        <5> QED BY <1>3, <5>1
      <4>4. g[f] = 0
        BY <1>2, <1>6, <4>1, <4>2, <4>3, NotAdvanced
      <4>5. o[f] = 0 \/ o[f] = owed[d][f]
        BY <1>5, <4>4
      <4>6. Balanced(fallen', d, o[f])
        BY <2>1, <4>5 DEF Balanced
      <4> QED BY <3>1, <4>6
    <3>2. CASE /\ Batch(d, pending')
               /\ \A i \in 1 .. Len(pending') : \A h \in Field(d) :
                    pending'[i].series = <<d, h>> =>
                      pending'[i].value = Minus(c[h], counter[d][h])
      <4>1. Coming' = {<<d, k>> : k \in Key(d)}
        BY <3>2, BatchIs DEF Coming
      <4>2. CASE f \notin Key(d)
        <5>1. o[f] = 0 /\ Balanced(fallen', d, o[f])
          BY <1>5, <4>2 DEF Balanced
        <5>2. \A i \in 1 .. Len(pending') : pending'[i].series # <<d, f>>
          BY <4>1, <4>2 DEF Coming
        <5> QED BY <5>1, <5>2
      <4>3. CASE f \in Key(d)
        <5>1. <<d, f>> \in Coming'
          BY <4>1, <4>3
        <5>2. ASSUME NEW i \in 1 .. Len(pending'), pending'[i].series = <<d, f>>
              PROVE  Balanced(fallen', d, o[f] - pending'[i].value)
          <6>1. pending'[i].value = g[f] /\ o[f] = owed[d][f] + g[f]
            BY <1>5, <2>2, <3>2, <4>3, <5>2
          <6>2. o[f] - pending'[i].value = owed[d][f]
            BY <1>3, <1>5, <6>1
          <6> QED BY <2>1, <6>2
        <5> QED BY <5>1, <5>2
      <4> QED BY <4>2, <4>3
    <3> QED BY <1>4, <3>1, <3>2, CountPushes
  <2> QED BY <1>4, <2>3, CountInv
<1> QED BY <1>3, <1>7, <1>8

LEMMA RereadRestartedInv ==
  ASSUME IInv, NEW d \in Device, RereadRestarted(d)
  PROVE  IInv'
<1> DEFINE g == [f \in Field(d) |-> -counter[d][f]]
           c == [f \in Field(d) |-> (counter[d][f] + g[f]) % Modulus]
           o == [f \in Field(d) |-> IF f \in Key(d) THEN owed[d][f] + g[f] ELSE 0]
<1>1. /\ d \in DOMAIN prev /\ d \in restarted /\ InHand(d) /\ restarted' \subseteq restarted
      /\ Read(d, g)
      /\ counter[d] \in [Field(d) -> Counter] /\ owed[d] \in [Field(d) -> Int]
      /\ restarted \subseteq Removable
  BY DEF RereadRestarted, IInv, Readings
<1>2. \A f \in Field(d) : /\ counter[d][f] \in Int /\ 0 <= counter[d][f]
                          /\ counter[d][f] \in Counter
                          /\ g[f] = -counter[d][f] /\ g[f] \in Int
  BY <1>1, BoundAssumption DEF Counter
<1>3. g \in [Field(d) -> Int]
  BY <1>2
<1>4. /\ Counts(d, c, o) /\ fallen \subseteq fallen'
      /\ \A f \in Field(d) : Balanced(fallen, d, owed[d][f])
  BY <1>1, <1>3, ReadCounts
<1>5. \A f \in Field(d) : /\ c[f] = (counter[d][f] + g[f]) % Modulus
                          /\ f \in Key(d) => o[f] = owed[d][f] + g[f]
                          /\ f \notin Key(d) => o[f] = 0
                          /\ owed[d][f] \in Int
  BY <1>1, <1>2
<1> HIDE DEF c, o, g
<1>6. Kind[d] # "stat"
  BY <1>1 DEF Removable
<1>7. \A f \in Field(d) : Balanced(fallen', d, owed[d][f])
  BY <1>4 DEF Balanced
<1>8. Batch(d, pending')
      /\ \A i \in 1 .. Len(pending') : \A f \in Field(d) :
           pending'[i].series = <<d, f>> => pending'[i].value = Minus(c[f], counter[d][f])
  BY <1>1, <1>4, <1>6, CountPushes
<1>9. Coming' = {<<d, k>> : k \in Key(d)}
  BY <1>8, BatchIs DEF Coming
<1>10. ASSUME NEW f \in Field(d)
       PROVE  /\ <<d, f>> \notin Coming' => Balanced(fallen', d, o[f])
              /\ \A i \in 1 .. Len(pending') :
                   pending'[i].series = <<d, f>> => Balanced(fallen', d, o[f] - pending'[i].value)
  <2>1. CASE f \notin Key(d)
    <3>1. o[f] = 0 /\ Balanced(fallen', d, o[f])
      BY <1>5, <2>1 DEF Balanced
    <3>2. \A i \in 1 .. Len(pending') : pending'[i].series # <<d, f>>
      BY <1>9, <2>1 DEF Coming
    <3> QED BY <3>1, <3>2
  <2>2. CASE f \in Key(d)
    <3> DEFINE x == owed[d][f]  n == counter[d][f]
    <3>1. <<d, f>> \in Coming'
      BY <1>9, <2>2
    <3>2. ASSUME NEW i \in 1 .. Len(pending'), pending'[i].series = <<d, f>>
          PROVE  Balanced(fallen', d, o[f] - pending'[i].value)
      <4>1. x % Modulus = 0
        <5>1. x = 0 \/ x % Modulus = 0
          BY <1>4, <1>6 DEF Balanced
        <5>2. 0 % Modulus = 0
          BY BoundAssumption
        <5> QED BY <5>1, <5>2
      <4>2. (n + (-n)) % Modulus = 0 /\ ((x - n) - Minus(0, n)) % Modulus = 0
        <5>1. x \in Int /\ n \in Counter
          BY <1>2, <1>5
        <5> HIDE DEF x, n
        <5> QED BY <4>1, <5>1, Restarts
      <4>3. c[f] = 0 /\ o[f] = x - n
        BY <1>2, <1>5, <2>2, <4>2
      <4>4. pending'[i].value = Minus(0, n)
        BY <1>8, <3>2, <4>3
      <4>5. CASE n > 0
        <5>1. g[f] < 0
          BY <1>2, <4>5
        <5>2. d \in fallen'
          BY <1>1, <5>1 DEF Read
        <5> QED BY <4>2, <4>3, <4>4, <5>2 DEF Balanced
      <4>6. CASE n = 0
        <5>1. Minus(0, n) = 0
          BY <4>6, BoundAssumption DEF Minus
        <5>2. o[f] - pending'[i].value = x
          BY <1>5, <4>3, <4>4, <4>6, <5>1
        <5> QED BY <1>7, <5>2
      <4> QED BY <1>2, <4>5, <4>6
    <3> QED BY <3>1, <3>2
  <2> QED BY <2>1, <2>2
<1> QED BY <1>4, <1>10, CountInv

\* Values that are not counters are only pushed.
LEMMA GaugeInv ==
  ASSUME IInv, NEW d \in Device, Gauge(d)
  PROVE  IInv'
<1>1. /\ opened /\ pending = <<>> /\ d \in todo /\ todo' = todo \ {d} /\ InHand(d)
      /\ ~ Counted(d)
      /\ UNCHANGED <<phase, loop, tick, round, file, opened, mu, store, toRead, newest, behind>>
      /\ UNCHANGED <<prev, restarted, counter, owed, fallen, host, plugged>>
  BY DEF Gauge, InHand, owner, snapshot
<1> DEFINE n == Len(Keys(d))
           q == [i \in 1 .. n |-> [series |-> <<d, Keys(d)[i]>>, value |-> 0]]
<1>2. pending' = q
  BY DEF Gauge
<1>3. Batch(d, pending')
  <2>1. ASSUME NEW i \in 1 .. n PROVE q[i] \in Pushed /\ q[i].series = <<d, Keys(d)[i]>>
    <3>1. <<d, Keys(d)[i]>> \in Series
      BY Layout, SeriesIs
    <3>2. q[i] = [series |-> <<d, Keys(d)[i]>>, value |-> 0]
      OBVIOUS
    <3> QED BY <3>1, <3>2, BoundAssumption DEF Pushed, Counter
  <2>2. q = [i \in 1 .. n |-> q[i]] /\ n \in Nat
    BY Layout
  <2> HIDE DEF q, n
  <2>3. q \in Seq(Pushed) /\ Len(q) = n
    BY <2>1, <2>2
  <2> QED BY <1>2, <2>1, <2>3 DEF Batch, n
<1> HIDE DEF q, n
<1>4. Control' /\ OncePending' /\ OncePerRound' /\ InStep' /\ ReadInStep'
  BY <1>1, <1>3, HandInv
<1>5. TypeOK'
  <2>1. pending' \in Seq([series : Series, value : Counter])
    BY <1>3 DEF Batch, Pushed
  <2>2. todo' \subseteq {e \in Device : Kind[e] = Files[file']}
    BY <1>1 DEF IInv, TypeOK
  <2> QED BY <1>1, <2>1, <2>2 DEF IInv, TypeOK
<1>6. Readings'
  <2>1. \A i \in 1 .. Len(pending') : \E k : pending'[i].series = <<d, k>>
    BY <1>3 DEF Batch
  <2>2. \A i \in 1 .. Len(pending') : \A e \in Device : \A k :
          pending'[i].series = <<e, k>> /\ Counted(e) => e \in DOMAIN prev'
    BY <1>1, <2>1
  <2> QED BY <1>1, <2>2 DEF IInv, Readings
<1>7. Balance'
  <2>1. Coming = {}
    BY <1>1 DEF Coming
  <2>2. \A e \in DOMAIN prev : e # d
    BY <1>1 DEF IInv, TypeOK
  <2>3. \A i \in 1 .. Len(pending') : \A e \in DOMAIN prev : \A f : pending'[i].series # <<e, f>>
    BY <1>3, <2>2 DEF Batch
  <2>4. \A e \in DOMAIN prev : \A f \in Field(e) : Balanced(fallen, e, owed[e][f])
    BY <2>1 DEF IInv, Balance
  <2> QED BY <1>1, <2>3, <2>4 DEF IInv, Balance
<1> QED BY <1>4, <1>5, <1>6, <1>7 DEF IInv

-----------------------------------------------------------------------------
(* A sample is pushed.                                                     *)

\* What a push changes: its series comes no more, and After stays.
LEMMA PushIs ==
  ASSUME IInv, Push, NEW d \in Device, NEW k \in Key(d), NEW v \in Counter,
         pending[1] = [series |-> <<d, k>>, value |-> v]
  PROVE  /\ pending' \in Seq(Pushed) /\ Len(pending') = Len(pending) - 1
         /\ \A i \in 1 .. Len(pending') : pending'[i] = pending[i + 1]
         /\ <<d, k>> \in Coming /\ <<d, k>> \notin Coming'
         /\ \A s : s # <<d, k>> => (s \in Coming' <=> s \in Coming)
         /\ store' = [store EXCEPT ![<<d, k>>] = @ + 1]
         /\ owed' = IF Counted(d) /\ k \in Field(d)
                      THEN [owed EXCEPT ![d][k] = @ - v] ELSE owed
<1>1. pending \in Seq(Pushed) /\ pending # <<>> /\ pending' = Tail(pending)
  BY DEF IInv, TypeOK, Push, Pushed
<1>2. Len(pending) \in Nat \ {0} /\ 1 \in 1 .. Len(pending)
  BY <1>1, EmptySeq
<1>3. /\ pending' \in Seq(Pushed) /\ Len(pending') = Len(pending) - 1
      /\ \A i \in 1 .. Len(pending') : pending'[i] = pending[i + 1]
  BY <1>1, HeadTailProperties
<1>4. Head(pending) = pending[1]
  BY <1>1, HeadTailProperties
<1>5. pending[1].series = <<d, k>> /\ pending[1].value = v
  OBVIOUS
<1>6. <<d, k>> \in Coming
  BY <1>2, <1>5 DEF Coming
<1>7. ASSUME NEW i \in 1 .. Len(pending') PROVE pending'[i].series # <<d, k>>
  <2>1. i + 1 \in 1 .. Len(pending) /\ i + 1 # 1
    BY <1>2, <1>3
  <2>2. pending[i + 1].series # pending[1].series
    BY <1>2, <2>1 DEF IInv, OncePending
  <2> QED BY <1>3, <1>5, <2>2
<1>8. ASSUME NEW s, s # <<d, k>> PROVE s \in Coming' <=> s \in Coming
  <2>1. ASSUME NEW i \in 1 .. Len(pending), pending[i].series = s PROVE s \in Coming'
    <3>1. i # 1 /\ i - 1 \in 1 .. Len(pending') /\ (i - 1) + 1 = i
      BY <1>2, <1>3, <1>5, <1>8, <2>1
    <3>2. pending'[i - 1] = pending[i]
      BY <1>3, <3>1
    <3> QED BY <2>1, <3>1, <3>2 DEF Coming
  <2>2. ASSUME NEW i \in 1 .. Len(pending'), pending'[i].series = s PROVE s \in Coming
    <3>1. i + 1 \in 1 .. Len(pending) /\ pending[i + 1].series = s
      BY <1>2, <1>3, <2>2
    <3> QED BY <3>1 DEF Coming
  <2> QED BY <2>1, <2>2 DEF Coming
<1>9. store' = [store EXCEPT ![<<d, k>>] = @ + 1]
  BY <1>4, <1>5 DEF Push
<1>10. owed' = IF Counted(d) /\ k \in Field(d) THEN [owed EXCEPT ![d][k] = @ - v] ELSE owed
  <2>1. \A p \in {Head(pending)} : \A e \in {p.series[1]} : \A f \in {p.series[2]} :
          owed' = IF Counted(e) /\ f \in Field(e)
                    THEN [owed EXCEPT ![e][f] = @ - p.value] ELSE owed
    BY DEF Push
  <2>2. Head(pending) = [series |-> <<d, k>>, value |-> v]
    BY <1>4
  <2>3. \A e \in {d} : \A f \in {k} :
          owed' = IF Counted(e) /\ f \in Field(e)
                    THEN [owed EXCEPT ![e][f] = @ - v] ELSE owed
    BY <2>1, <2>2
  <2> QED BY <2>3
<1> QED BY <1>3, <1>6, <1>7, <1>8, <1>9, <1>10 DEF Coming

LEMMA PushInv ==
  ASSUME IInv, Push
  PROVE  IInv'
<1>1. pending \in Seq(Pushed) /\ pending # <<>>
  BY DEF IInv, TypeOK, Push, Pushed
<1>2. Len(pending) \in Nat \ {0} /\ pending[1] \in Pushed
  BY <1>1, EmptySeq
<1>3. PICK d \in Device : \E k \in Key(d) : pending[1].series = <<d, k>>
  BY <1>2, SeriesIs DEF Pushed
<1>4. PICK k \in Key(d) : pending[1].series = <<d, k>>
  BY <1>3
<1>5. PICK v \in Counter : pending[1].value = v
  BY <1>2 DEF Pushed
<1>6. pending[1] = [series |-> <<d, k>>, value |-> v]
  BY <1>2, <1>4, <1>5 DEF Pushed
<1>7. /\ pending' \in Seq(Pushed) /\ Len(pending') = Len(pending) - 1
      /\ \A i \in 1 .. Len(pending') : pending'[i] = pending[i + 1]
      /\ <<d, k>> \in Coming /\ <<d, k>> \notin Coming'
      /\ \A s : s # <<d, k>> => (s \in Coming' <=> s \in Coming)
      /\ store' = [store EXCEPT ![<<d, k>>] = @ + 1]
      /\ owed' = IF Counted(d) /\ k \in Field(d)
                   THEN [owed EXCEPT ![d][k] = @ - v] ELSE owed
  BY <1>6, PushIs
<1>8. /\ UNCHANGED <<phase, loop, tick, round, file, opened, mu, todo, prev>>
      /\ UNCHANGED <<counter, restarted, toRead, newest, behind, fallen, host, plugged>>
  BY DEF Push, owner, kernel, snapshot
<1>9. <<d, k>> \in Series /\ store \in [Series -> 0 .. MaxRound] /\ round \in 0 .. MaxRound
  BY SeriesIs DEF IInv, TypeOK
<1>10. store' = [s \in Series |-> IF s = <<d, k>> THEN store[s] + 1 ELSE store[s]]
  BY <1>7, <1>9
<1>11. ASSUME NEW s \in Series
       PROVE  /\ store[s] \in Int /\ After(s)' = After(s)
              /\ store[s] <= store'[s] /\ store'[s] \in Int
  <2>1. store[s] \in Int
    BY <1>9, BoundAssumption
  <2>2. CASE s = <<d, k>>
    <3>1. store'[s] = store[s] + 1 /\ s \in Coming /\ s \notin Coming'
      BY <1>7, <1>10, <2>2
    <3> QED BY <2>1, <3>1 DEF After
  <2>3. CASE s # <<d, k>>
    <3>1. store'[s] = store[s] /\ (s \in Coming' <=> s \in Coming)
      BY <1>7, <1>10, <2>3
    <3> QED BY <2>1, <3>1 DEF After
  <2> QED BY <2>2, <2>3
<1>12. TypeOK'
  <2>1. store[<<d, k>>] + 1 <= MaxRound
    <3>1. After(<<d, k>>) = store[<<d, k>>] + 1
      BY <1>7 DEF After
    <3>2. After(<<d, k>>) <= round
      <4>1. After(<<d, k>>) <= IF Ahead(d) THEN round - 1 ELSE round
        BY DEF IInv, OncePerRound
      <4> QED BY <1>9, <1>11, <3>1, <4>1, BoundAssumption
    <3> QED BY <1>9, <1>11, <3>1, <3>2, BoundAssumption
  <2>2. store' \in [Series -> 0 .. MaxRound]
    <3>1. \A s \in Series : (IF s = <<d, k>> THEN store[s] + 1 ELSE store[s]) \in 0 .. MaxRound
      BY <1>9, <2>1, BoundAssumption
    <3> QED BY <1>10, <3>1
  <2>3. pending' \in Seq([series : Series, value : Counter])
    BY <1>7 DEF Pushed
  <2> QED BY <1>8, <2>2, <2>3 DEF IInv, TypeOK
<1>13. Control'
  <2>1. opened /\ loop = "collect"
    BY <1>1 DEF IInv, Control
  <2> QED BY <1>8, <2>1 DEF IInv, Control
<1>14. /\ owed' = [e \in Device |-> owed'[e]]
       /\ \A e \in Device : \A f \in Field(e) :
            owed'[e][f] = (IF e = d /\ f = k /\ Counted(d)
                             THEN owed[e][f] - v ELSE owed[e][f])
       /\ \A e \in Device : owed'[e] \in [Field(e) -> Int]
  <2>1. owed = [e \in Device |-> owed[e]] /\ \A e \in Device : owed[e] \in [Field(e) -> Int]
    BY DEF IInv, Readings
  <2>2. v \in Int
    BY BoundAssumption DEF Counter
  <2>3. CASE ~ (Counted(d) /\ k \in Field(d))
    <3>1. owed' = owed
      BY <1>7, <2>3
    <3> QED BY <2>1, <2>3, <3>1
  <2>4. CASE Counted(d) /\ k \in Field(d)
    <3> DEFINE o == [owed[d] EXCEPT ![k] = owed[d][k] - v]
    <3>1. owed' = [owed EXCEPT ![d] = o]
      BY <1>7, <2>4
    <3>2. o \in [Field(d) -> Int]
          /\ \A f \in Field(d) : o[f] = IF f = k THEN owed[d][f] - v ELSE owed[d][f]
      BY <2>1, <2>2, <2>4
    <3> HIDE DEF o
    <3>3. owed' = [e \in Device |-> IF e = d THEN o ELSE owed[e]]
      BY <2>1, <3>1
    <3>4. owed'[d] = o /\ \A e \in Device \ {d} : owed'[e] = owed[e]
      BY <3>3
    <3>5. owed' = [e \in Device |-> owed'[e]]
      BY <3>3
    <3> QED BY <2>1, <2>4, <3>2, <3>4, <3>5
  <2> QED BY <2>3, <2>4
<1>15. Readings'
  <2>1. \A i \in 1 .. Len(pending') : i + 1 \in 1 .. Len(pending)
    BY <1>2, <1>7
  <2>2. \A i \in 1 .. Len(pending') : \A e \in Device : \A l :
          pending'[i].series = <<e, l>> /\ Counted(e) => e \in DOMAIN prev'
    <3> SUFFICES ASSUME NEW i \in 1 .. Len(pending'), NEW e \in Device, NEW l,
                        pending'[i].series = <<e, l>>, Counted(e)
                 PROVE  e \in DOMAIN prev'
      OBVIOUS
    <3>1. i + 1 \in 1 .. Len(pending) /\ pending[i + 1].series = <<e, l>>
      BY <1>7, <2>1
    <3>2. e \in DOMAIN prev
      BY <3>1 DEF IInv, Readings
    <3> QED BY <1>8, <3>2
  <2>3. /\ counter' = [e \in Device |-> counter'[e]]
        /\ \A e \in Device : counter'[e] \in [Field(e) -> Counter]
        /\ \A e \in DOMAIN prev' : prev'[e] = counter'[e]
        /\ restarted' \subseteq DOMAIN prev' \cap Removable
    <3>1. counter' = counter /\ prev' = prev /\ restarted' = restarted
      BY <1>8
    <3>2. /\ counter = [e \in Device |-> counter[e]]
          /\ \A e \in Device : counter[e] \in [Field(e) -> Counter]
          /\ \A e \in DOMAIN prev : prev[e] = counter[e]
          /\ restarted \subseteq DOMAIN prev \cap Removable
      BY DEF IInv, Readings
    <3> QED BY <3>1, <3>2
  <2> QED BY <1>14, <2>2, <2>3 DEF Readings
<1>16. OncePending'
  <2> SUFFICES ASSUME NEW i \in 1 .. Len(pending'), NEW j \in 1 .. Len(pending'),
                      pending'[i].series = pending'[j].series
               PROVE  i = j
    BY DEF OncePending
  <2>1. i + 1 \in 1 .. Len(pending) /\ j + 1 \in 1 .. Len(pending)
    BY <1>2, <1>7
  <2>2. pending[i + 1].series = pending[j + 1].series
    BY <1>7
  <2>3. i + 1 = j + 1
    BY <2>1, <2>2 DEF IInv, OncePending
  <2> QED BY <2>3
<1>17. Balance'
  <2>1. ASSUME NEW e \in DOMAIN prev', NEW f \in Field(e)
        PROVE  /\ <<e, f>> \notin Coming' => Balanced(fallen', e, owed'[e][f])
               /\ \A i \in 1 .. Len(pending') :
                    pending'[i].series = <<e, f>> =>
                      Balanced(fallen', e, owed'[e][f] - pending'[i].value)
    <3>1. e \in DOMAIN prev /\ e \in Device /\ Counted(e)
      BY <1>8, <2>1 DEF IInv, TypeOK
    <3>2. CASE <<e, f>> = <<d, k>>
      <4>1. owed'[e][f] = owed[e][f] - v
        BY <1>14, <3>1, <3>2
      <4>2. Balanced(fallen, e, owed[e][f] - v)
        <5>1. 1 \in 1 .. Len(pending) /\ pending[1].series = <<e, f>> /\ pending[1].value = v
          BY <1>2, <1>4, <1>5, <3>2
        <5> QED BY <3>1, <5>1 DEF IInv, Balance
      <4>3. Balanced(fallen', e, owed'[e][f])
        BY <1>8, <4>1, <4>2
      <4>4. \A i \in 1 .. Len(pending') : pending'[i].series # <<e, f>>
        BY <1>7, <3>2 DEF Coming
      <4> QED BY <4>3, <4>4
    <3>3. CASE <<e, f>> # <<d, k>>
      <4>1. owed'[e][f] = owed[e][f]
        BY <1>14, <3>1, <3>3
      <4>2. <<e, f>> \notin Coming' => Balanced(fallen', e, owed'[e][f])
        BY <1>7, <1>8, <3>1, <3>3, <4>1 DEF IInv, Balance
      <4>3. ASSUME NEW i \in 1 .. Len(pending'), pending'[i].series = <<e, f>>
            PROVE  Balanced(fallen', e, owed'[e][f] - pending'[i].value)
        <5>1. i + 1 \in 1 .. Len(pending) /\ pending'[i] = pending[i + 1]
          BY <1>2, <1>7
        <5>2. Balanced(fallen, e, owed[e][f] - pending[i + 1].value)
          BY <3>1, <4>3, <5>1 DEF IInv, Balance
        <5> QED BY <1>8, <4>1, <5>1, <5>2
      <4> QED BY <4>2, <4>3
    <3> QED BY <3>2, <3>3
  <2>2. ASSUME NEW e \in Device \ DOMAIN prev', NEW f \in Field(e) PROVE owed'[e][f] = 0
    <3>1. ~ (e = d /\ Counted(d))
      <4>1. 1 \in 1 .. Len(pending)
        BY <1>2
      <4> QED BY <1>4, <1>8, <2>2, <4>1 DEF IInv, Readings
    <3>2. owed[e][f] = 0
      BY <1>8, <2>2 DEF IInv, Balance
    <3> QED BY <1>14, <2>2, <3>1, <3>2
  <2> QED BY <2>1, <2>2 DEF Balance
<1>18. \A e \in Device : Ahead(e)' <=> Ahead(e)
  BY <1>8 DEF Ahead
<1>19. OncePerRound'
  BY <1>8, <1>11, <1>18, SeriesIs DEF IInv, OncePerRound
<1>20. InStep'
  BY <1>11, SeriesIs DEF IInv, InStep
<1>21. ReadInStep'
  <2> SUFFICES ASSUME NEW e \in Device
               PROVE  behind'[e] <= 1 /\ \A l \in Key(e) : newest'[e] <= store'[<<e, l>>] + 1
    BY DEF ReadInStep
  <2>1. behind[e] <= 1 /\ newest[e] \in Int
        /\ \A l \in Key(e) : newest[e] <= store[<<e, l>>] + 1
    BY DEF IInv, ReadInStep, TypeOK
  <2>2. \A l \in Key(e) : /\ store[<<e, l>>] <= store'[<<e, l>>]
                          /\ store[<<e, l>>] \in Int /\ store'[<<e, l>>] \in Int
    BY <1>11, SeriesIs
  <2> QED BY <1>8, <2>1, <2>2
<1> QED BY <1>12, <1>13, <1>15, <1>16, <1>17, <1>19, <1>20, <1>21 DEF IInv

-----------------------------------------------------------------------------
(* The steps that touch no reading and no push.                            *)

LEMMA QuietInv ==
  ASSUME IInv, UNCHANGED <<pending, prev, store, counter, owed, fallen>>,
         TypeOK', Control', ReadInStep', restarted' \subseteq DOMAIN prev \cap Removable,
         round <= round',
         \A d \in Device : Ahead(d)' => Ahead(d) \/ round + 1 <= round'
  PROVE  IInv'
<1>1. Readings'
  <2>1. counter' = counter /\ owed' = owed /\ prev' = prev /\ pending' = pending
    OBVIOUS
  <2>2. Readings
    BY DEF IInv
  <2> QED BY <2>1, <2>2 DEF Readings
<1>2. Coming' = Coming
  BY DEF Coming
<1>3. OncePending'
  BY DEF IInv, OncePending
<1>4. Balance'
  <2>1. fallen' = fallen /\ owed' = owed /\ prev' = prev /\ pending' = pending
    OBVIOUS
  <2>2. Balance
    BY DEF IInv
  <2> QED BY <1>2, <2>1, <2>2 DEF Balance
<1>5. ASSUME NEW s \in Series PROVE After(s)' = After(s) /\ After(s) \in Int
  <2>1. store[s] \in Int
    BY BoundAssumption DEF IInv, TypeOK
  <2> QED BY <1>2, <2>1 DEF After
<1>6. OncePerRound'
  <2> SUFFICES ASSUME NEW d \in Device, NEW k \in Key(d)
               PROVE  After(<<d, k>>)' <= IF Ahead(d)' THEN round' - 1 ELSE round'
    BY DEF OncePerRound
  <2>1. After(<<d, k>>) <= IF Ahead(d) THEN round - 1 ELSE round
    BY DEF IInv, OncePerRound
  <2>2. After(<<d, k>>)' = After(<<d, k>>) /\ After(<<d, k>>) \in Int
    BY <1>5, SeriesIs
  <2>3. round \in Int /\ round' \in Int
    BY BoundAssumption DEF IInv, TypeOK
  <2> QED BY <2>1, <2>2, <2>3
<1>7. InStep'
  BY <1>5, SeriesIs DEF IInv, InStep
<1> QED BY <1>1, <1>3, <1>4, <1>6, <1>7 DEF IInv

\* The kernel, the ticker, Start, Stop and the end of the loop.
LEMMA OwnerInv ==
  ASSUME IInv,
         \/ \E d \in Device : Unplug(d) \/ Plug(d)
         \/ Tick \/ Start \/ Stop \/ StopReturns \/ TakeTick \/ LoopExit
  PROVE  IInv'
<1>1. /\ UNCHANGED <<opened, mu, todo, pending, prev, store, counter, owed, fallen>>
      /\ UNCHANGED <<toRead, newest, behind, host>>
  BY DEF Unplug, Plug, Tick, Start, Stop, StopReturns, TakeTick, LoopExit, BeginCollect,
         owner, work, kernel, snapshot, hist
<1>0. plugged' \subseteq host
  <2>1. plugged \subseteq host
    BY DEF IInv, TypeOK
  <2>2. CASE \E d \in Device : Unplug(d) \/ Plug(d)
    BY <2>1, <2>2 DEF Unplug, Plug
  <2>3. CASE plugged' = plugged
    BY <2>1, <2>3
  <2> QED BY <2>2, <2>3 DEF Tick, Start, Stop, StopReturns, TakeTick, LoopExit, BeginCollect, kernel
<1>2. restarted' \subseteq DOMAIN prev \cap Removable
  <2>1. restarted \subseteq DOMAIN prev \cap Removable
    BY DEF IInv, Readings
  <2>2. CASE \E d \in Device : Plug(d)
    BY <2>1, <2>2 DEF Plug
  <2>3. CASE restarted' = restarted
    BY <2>1, <2>3
  <2> QED BY <2>2, <2>3 DEF Unplug, Tick, Start, Stop, StopReturns, TakeTick, LoopExit,
                            BeginCollect, kernel
<1>3. TypeOK /\ Control /\ ReadInStep /\ round \in 0 .. MaxRound /\ MaxRound \in Nat
  BY BoundAssumption DEF IInv, TypeOK
<1>4. ReadInStep'
  BY <1>1, <1>3 DEF ReadInStep
<1>5. ASSUME TypeOK', Control', round <= round',
             \A d \in Device : Ahead(d)' => Ahead(d) \/ round + 1 <= round'
      PROVE  IInv'
  BY <1>1, <1>2, <1>4, <1>5, QuietInv
<1>6. CASE \E d \in Device : Unplug(d) \/ Plug(d)
  <2>1. UNCHANGED <<phase, loop, tick, round, file>>
    BY <1>6 DEF Unplug, Plug, owner, work
  <2>2. TypeOK' /\ Control'
    BY <1>0, <1>1, <1>3, <2>1 DEF TypeOK, Control
  <2> QED BY <1>1, <1>3, <1>5, <2>1, <2>2 DEF Ahead
<1>7. CASE Tick
  <2>1. tick' = TRUE /\ UNCHANGED <<phase, loop, round, file>>
    BY <1>7 DEF Tick, work
  <2>2. TypeOK' /\ Control'
    BY <1>0, <1>1, <1>3, <2>1 DEF TypeOK, Control
  <2> QED BY <1>1, <1>3, <1>5, <2>1, <2>2 DEF Ahead
<1>8. CASE Stop \/ StopReturns
  <2>1. phase' \in {"stopping", "stopped"} /\ UNCHANGED <<loop, tick, round, file>>
    BY <1>8 DEF Stop, StopReturns, work
  <2>2. TypeOK' /\ Control'
    BY <1>0, <1>1, <1>3, <2>1 DEF TypeOK, Control
  <2> QED BY <1>1, <1>3, <1>5, <2>1, <2>2 DEF Ahead
<1>9. CASE LoopExit
  <2>1. /\ loop = "select" /\ loop' = "exited" /\ phase = "stopping"
        /\ UNCHANGED <<phase, tick, round, file>>
    BY <1>9 DEF LoopExit, work
  <2>2. TypeOK' /\ Control'
    BY <1>0, <1>1, <1>3, <2>1 DEF TypeOK, Control
  <2> QED BY <1>1, <1>3, <1>5, <2>1, <2>2 DEF Ahead
<1>10. CASE Start \/ TakeTick
  <2>1. /\ loop # "collect" /\ loop' = "collect" /\ round < MaxRound /\ round' = round + 1
        /\ file' = 1 /\ phase' \in {phase, "running"} /\ phase' # "setup" /\ tick' \in {tick, FALSE}
    BY <1>3, <1>10 DEF Start, TakeTick, BeginCollect, Control
  <2>2. ~ opened /\ todo = {} /\ ~ mu /\ 1 \in 1 .. Len(Files)
    BY <1>3, <2>1, FilesDiffer DEF Control, TypeOK
  <2>3. round' \in 0 .. MaxRound
    BY <1>3, <2>1
  <2>4. TypeOK'
    BY <1>0, <1>1, <1>3, <2>1, <2>2, <2>3 DEF TypeOK
  <2>5. Control'
    BY <1>1, <1>3, <2>1, <2>2 DEF Control
  <2> QED BY <1>3, <1>5, <2>1, <2>4, <2>5
<1> QED BY <1>6, <1>7, <1>8, <1>9, <1>10

LEMMA FileInv ==
  ASSUME IInv, ReadFile \/ EndFile
  PROVE  IInv'
<1>1. /\ UNCHANGED <<phase, tick, round, pending, prev, store, restarted, counter, owed, fallen>>
      /\ UNCHANGED <<toRead, newest, behind, host, plugged>>
  BY DEF ReadFile, EndFile, NextFile, owner, kernel, snapshot, hist
<1>2. TypeOK /\ Control /\ ReadInStep /\ file \in 1 .. Len(Files) /\ Len(Files) = 5
      /\ round \in Int
  BY FilesDiffer, BoundAssumption DEF IInv, TypeOK
<1>3. ReadInStep'
  BY <1>1, <1>2 DEF ReadInStep
<1>4. restarted' \subseteq DOMAIN prev \cap Removable
  BY <1>1 DEF IInv, Readings
<1>5. ASSUME TypeOK', Control', \A d \in Device : Ahead(d)' => Ahead(d)
      PROVE  IInv'
  BY <1>1, <1>2, <1>3, <1>4, <1>5, QuietInv
<1>6. CASE ReadFile
  <2>1. /\ loop = "collect" /\ ~ opened /\ opened' = TRUE /\ mu' \in BOOLEAN
        /\ loop' = loop /\ file' = file
    <3>1. mu \in BOOLEAN
      BY <1>2 DEF TypeOK
    <3>2. Collect[Files[file]].kept \in BOOLEAN
      <4>1. Files[file] \in {"stat", "meminfo", "diskstats", "netdev", "loadavg"}
        BY <1>2 DEF Files
      <4>2. /\ collectCPU.kept = TRUE /\ collectMemory.kept = FALSE /\ collectDisk.kept = TRUE
            /\ collectNetwork.kept = TRUE /\ collectLoadAvg.kept = FALSE
        BY DEF collectCPU, collectMemory, collectDisk, collectNetwork, collectLoadAvg
      <4> QED BY <4>1, <4>2, CollectIs
    <3> QED BY <1>6, <3>1, <3>2 DEF ReadFile, owner
  <2>2. todo' \subseteq {d \in Device : Kind[d] = Files[file]}
    <3>1. plugged \subseteq Device
      BY DeviceAssumption DEF IInv, TypeOK
    <3> QED BY <1>6, <3>1 DEF ReadFile
  <2>3. TypeOK'
    BY <1>1, <1>2, <2>1, <2>2 DEF TypeOK
  <2>4. Control'
    BY <1>1, <1>2, <2>1 DEF Control
  <2>5. \A d \in Device : Ahead(d)' => Ahead(d)
    BY <2>1 DEF Ahead
  <2> QED BY <1>5, <2>3, <2>4, <2>5
<1>7. CASE EndFile
  <2>1. /\ opened /\ pending = <<>> /\ todo = {} /\ mu' = FALSE /\ opened' = FALSE /\ todo' = todo
        /\ \/ file = 5 /\ loop' = "select" /\ file' = file
           \/ file # 5 /\ file' = file + 1 /\ loop' = loop
    BY <1>2, <1>7 DEF EndFile, NextFile
  <2>2. loop = "collect" /\ file' \in 1 .. Len(Files)
    BY <1>2, <2>1 DEF Control
  <2>3. TypeOK'
    BY <1>1, <1>2, <2>1, <2>2 DEF TypeOK
  <2>4. Control'
    BY <1>1, <1>2, <2>1, <2>2 DEF Control
  <2>5. \A d \in Device : Ahead(d)' => Ahead(d)
    BY <1>2, <2>1, <2>2 DEF Ahead
  <2> QED BY <1>5, <2>3, <2>4, <2>5
<1> QED BY <1>6, <1>7

-----------------------------------------------------------------------------
(* A snapshot is built beside the collector.                               *)

LEMMA ReaderInv ==
  ASSUME IInv, BeginSnapshot \/ ReaderStep
  PROVE  IInv'
<1>1. /\ UNCHANGED <<phase, loop, tick, round, file, opened, mu, todo, pending, prev, store>>
      /\ UNCHANGED <<restarted, counter, owed, fallen, host, plugged>>
  BY DEF BeginSnapshot, ReaderStep, ReadLatest, DeviceNames, InterfaceNames, ListNames, EndSnapshot,
         owner, work, kernel, hist
<1>2. TypeOK /\ Control /\ ReadInStep /\ InStep /\ round \in Int
  BY BoundAssumption DEF IInv, TypeOK
<1>3. /\ \A s \in Series : store[s] \in Nat
      /\ newest \in [Device -> Nat] /\ behind \in [Device -> Nat] /\ toRead \subseteq Series
  BY <1>2, BoundAssumption DEF TypeOK
<1>4. restarted' \subseteq DOMAIN prev \cap Removable
  BY <1>1 DEF IInv, Readings
<1>5. Control' /\ \A d \in Device : Ahead(d)' => Ahead(d)
  BY <1>1, <1>2 DEF Control, Ahead
<1>6. ASSUME newest' \in [Device -> Nat], behind' \in [Device -> Nat], toRead' \subseteq Series,
             ReadInStep'
      PROVE  IInv'
  <2>1. TypeOK'
    BY <1>1, <1>2, <1>6 DEF TypeOK
  <2> QED BY <1>1, <1>2, <1>4, <1>5, <1>6, <2>1, QuietInv
<1>7. CASE BeginSnapshot \/ DeviceNames \/ InterfaceNames
  <2>1. toRead' \subseteq Series /\ newest' = newest /\ behind' = behind
    BY <1>7 DEF BeginSnapshot, DeviceNames, InterfaceNames, ListNames, SeriesOf
  <2>2. ReadInStep'
    BY <1>1, <1>2, <2>1 DEF ReadInStep
  <2> QED BY <1>3, <1>6, <2>1, <2>2
<1>8. CASE EndSnapshot
  <2>1. toRead' = toRead /\ newest' = Nothing /\ behind' = Nothing
    BY <1>8 DEF EndSnapshot
  <2>2. Nothing \in [Device -> Nat] /\ \A d \in Device : Nothing[d] = 0
    BY DEF Nothing
  <2>3. ReadInStep'
    BY <1>1, <1>3, <2>1, <2>2, SeriesIs DEF ReadInStep
  <2> QED BY <1>3, <1>6, <2>1, <2>2, <2>3
<1>9. CASE ReadLatest
  <2> DEFINE Reads(d, i, n) ==
               /\ IF n >= newest[d]
                    THEN newest' = [newest EXCEPT ![d] = n] /\ behind' = behind
                    ELSE behind' = [behind EXCEPT ![d] = newest[d] - n] /\ newest' = newest
               /\ toRead' \subseteq toRead
  <2>0. PICK d \in Device : \E i \in 1 .. Len(Keys(d)) : Reads(d, i, store[<<d, Keys(d)[i]>>])
    BY <1>9 DEF ReadLatest
  <2>1. PICK i \in 1 .. Len(Keys(d)) : Reads(d, i, store[<<d, Keys(d)[i]>>])
    BY <2>0
  <2> DEFINE k == Keys(d)[i]  n == store[<<d, k>>]
  <2>2. k \in Key(d)
    BY Layout
  <2>3. n \in Nat /\ newest[d] \in Nat /\ behind[d] \in Nat /\ newest[d] <= n + 1
    BY <1>2, <1>3, <2>2, SeriesIs DEF ReadInStep
  <2>4. ASSUME NEW l \in Key(d) PROVE n <= store[<<d, l>>] + 1
    <3>1. After(<<d, k>>) = After(<<d, l>>)
      BY <1>2, <2>2 DEF InStep
    <3>2. store[<<d, k>>] \in Nat /\ store[<<d, l>>] \in Nat
      BY <1>3, <2>2, SeriesIs
    <3> QED BY <3>1, <3>2 DEF After
  <2> HIDE DEF n, k
  <2>5. CASE n >= newest[d]
    <3>1. newest' = [newest EXCEPT ![d] = n] /\ behind' = behind
      BY <2>1, <2>5 DEF n, k
    <3>2. newest' \in [Device -> Nat] /\ newest'[d] = n
          /\ \A e \in Device \ {d} : newest'[e] = newest[e]
      BY <1>3, <2>3, <3>1
    <3>3. ReadInStep'
      <4> SUFFICES ASSUME NEW e \in Device
                   PROVE  behind'[e] <= 1 /\ \A l \in Key(e) : newest'[e] <= store'[<<e, l>>] + 1
        BY DEF ReadInStep
      <4>1. CASE e = d
        BY <1>1, <1>2, <2>4, <3>1, <3>2, <4>1 DEF ReadInStep
      <4>2. CASE e # d
        BY <1>1, <1>2, <3>1, <3>2, <4>2 DEF ReadInStep
      <4> QED BY <4>1, <4>2
    <3> QED BY <1>3, <1>6, <2>1, <3>1, <3>2, <3>3
  <2>6. CASE ~ (n >= newest[d])
    <3>1. behind' = [behind EXCEPT ![d] = newest[d] - n] /\ newest' = newest
      BY <2>1, <2>6 DEF n, k
    <3>2. newest[d] - n \in Nat /\ newest[d] - n <= 1
      BY <2>3, <2>6
    <3>3. behind' \in [Device -> Nat] /\ behind'[d] = newest[d] - n
          /\ \A e \in Device \ {d} : behind'[e] = behind[e]
      BY <1>3, <3>1, <3>2
    <3>4. ReadInStep'
      <4> SUFFICES ASSUME NEW e \in Device
                   PROVE  behind'[e] <= 1 /\ \A l \in Key(e) : newest'[e] <= store'[<<e, l>>] + 1
        BY DEF ReadInStep
      <4>1. behind'[e] <= 1
        BY <1>2, <3>2, <3>3 DEF ReadInStep
      <4> QED BY <1>1, <1>2, <3>1, <4>1 DEF ReadInStep
    <3> QED BY <1>3, <1>6, <2>1, <3>1, <3>3, <3>4
  <2> QED BY <2>5, <2>6
<1> QED BY <1>7, <1>8, <1>9 DEF ReaderStep

-----------------------------------------------------------------------------
(* The invariant and what follows from it.                                 *)

LEMMA InitInv == Init => IInv
<1> SUFFICES ASSUME Init PROVE IInv
  OBVIOUS
<1>1. /\ phase = "setup" /\ loop = "none" /\ tick = FALSE /\ round = 0 /\ file = 1
      /\ opened = FALSE /\ mu = FALSE /\ todo = {} /\ pending = <<>> /\ prev = <<>>
      /\ store = [s \in Series |-> 0] /\ host \in Hosts /\ plugged = host /\ restarted = {}
      /\ counter = [d \in Device |-> [f \in Field(d) |-> 0]]
      /\ toRead = {} /\ newest = Nothing /\ behind = Nothing
      /\ owed = [d \in Device |-> [f \in Field(d) |-> 0]]
  BY DEF Init
<1>2. 0 \in Counter /\ 0 \in 0 .. MaxRound /\ 1 \in 1 .. Len(Files)
  BY BoundAssumption, FilesDiffer DEF Counter
<1>3. DOMAIN prev = {} /\ Coming = {}
  BY <1>1 DEF Coming
<1>4. Nothing \in [Device -> Nat] /\ \A d \in Device : Nothing[d] = 0
  BY DEF Nothing
<1>5. TypeOK
  <2>1. pending \in Seq([series : Series, value : Counter])
    BY <1>1
  <2>2. store \in [Series -> 0 .. MaxRound]
    BY <1>1, <1>2
  <2> QED BY <1>1, <1>2, <1>3, <1>4, <2>1, <2>2 DEF TypeOK
<1>6. Control
  BY <1>1 DEF Control
<1>7. Readings
  <2>1. \A d \in Device : counter[d] = [f \in Field(d) |-> 0] /\ owed[d] = [f \in Field(d) |-> 0]
    BY <1>1
  <2>2. \A d \in Device : counter[d] \in [Field(d) -> Counter] /\ owed[d] \in [Field(d) -> Int]
    <3> SUFFICES ASSUME NEW d \in Device
                 PROVE  counter[d] \in [Field(d) -> Counter] /\ owed[d] \in [Field(d) -> Int]
      OBVIOUS
    <3>1. [f \in Field(d) |-> 0] \in [Field(d) -> Counter]
      BY <1>2
    <3>2. [f \in Field(d) |-> 0] \in [Field(d) -> Int]
      OBVIOUS
    <3>3. counter[d] = [f \in Field(d) |-> 0] /\ owed[d] = [f \in Field(d) |-> 0]
      BY <2>1
    <3> QED BY <3>1, <3>2, <3>3, Zenon
  <2>3. counter = [d \in Device |-> counter[d]] /\ owed = [d \in Device |-> owed[d]]
    BY <1>1
  <2> QED BY <1>1, <1>3, <2>2, <2>3 DEF Readings
<1>8. OncePending
  BY <1>1 DEF OncePending
<1>9. Balance
  BY <1>1, <1>3 DEF Balance
<1>10. \A d \in Device : \A k \in Key(d) : store[<<d, k>>] = 0 /\ After(<<d, k>>) = 0
  <2> SUFFICES ASSUME NEW d \in Device, NEW k \in Key(d)
               PROVE  store[<<d, k>>] = 0 /\ After(<<d, k>>) = 0
    OBVIOUS
  <2>1. store[<<d, k>>] = 0
    BY <1>1, SeriesIs
  <2>2. <<d, k>> \notin Coming
    BY <1>3
  <2> QED BY <2>1, <2>2 DEF After
<1>11. OncePerRound
  <2>1. \A d \in Device : ~ Ahead(d)
    BY <1>1 DEF Ahead
  <2>2. round = 0
    BY <1>1
  <2> SUFFICES ASSUME NEW d \in Device, NEW k \in Key(d)
               PROVE  After(<<d, k>>) <= IF Ahead(d) THEN round - 1 ELSE round
    BY DEF OncePerRound
  <2>3. After(<<d, k>>) = 0 /\ ~ Ahead(d)
    BY <1>10, <2>1
  <2> QED BY <2>2, <2>3
<1>12. InStep
  BY <1>10 DEF InStep
<1>13. ReadInStep
  BY <1>1, <1>4, <1>10 DEF ReadInStep
<1> QED BY <1>5, <1>6, <1>7, <1>8, <1>9, <1>11, <1>12, <1>13 DEF IInv

LEMMA NextInv == IInv /\ [Next]_vars => IInv'
<1> SUFFICES ASSUME IInv, [Next]_vars PROVE IInv'
  OBVIOUS
<1>1. CASE UNCHANGED vars
  <2>1. /\ UNCHANGED <<pending, prev, store, counter, owed, fallen>>
        /\ UNCHANGED <<phase, loop, tick, round, file, opened, mu, todo, restarted, host, plugged>>
        /\ UNCHANGED <<toRead, newest, behind>>
    BY <1>1 DEF vars, owner, work, kernel, snapshot, hist
  <2>2. TypeOK'
    BY <2>1 DEF IInv, TypeOK
  <2>3. Control'
    BY <2>1 DEF IInv, Control
  <2>4. ReadInStep'
    BY <2>1 DEF IInv, ReadInStep
  <2>5. restarted' \subseteq DOMAIN prev \cap Removable
    BY <2>1 DEF IInv, Readings
  <2>6. round <= round' /\ \A d \in Device : Ahead(d)' => Ahead(d)
    BY <2>1, BoundAssumption DEF IInv, TypeOK, Ahead
  <2> QED BY <2>1, <2>2, <2>3, <2>4, <2>5, <2>6, QuietInv
<1>2. CASE \/ \E d \in Device : Unplug(d) \/ Plug(d)
           \/ Tick \/ Start \/ Stop \/ StopReturns \/ TakeTick \/ LoopExit
  BY <1>2, OwnerInv
<1>3. CASE CollectStep
  <2>1. CASE ReadFile \/ EndFile
    BY <2>1, FileInv
  <2>2. CASE Push
    BY <2>2, PushInv
  <2>3. ASSUME NEW d \in Device, Seed(d) \/ Reread(d) \/ RereadRestarted(d) \/ Gauge(d)
        PROVE  IInv'
    BY <2>3, SeedInv, RereadInv, RereadRestartedInv, GaugeInv
  <2> QED BY <1>3, <2>1, <2>2, <2>3 DEF CollectStep
<1>4. CASE BeginSnapshot \/ ReaderStep
  BY <1>4, ReaderInv
<1> QED BY <1>1, <1>2, <1>3, <1>4 DEF Next

LEMMA Invariant == Spec => []IInv
BY InitInv, NextInv, PTL DEF Spec

\* The state of the collector and of a snapshot has its type: no series has more
\* samples than there were collections (collector.go:46-104).
THEOREM CollectorTypeCorrect == Spec => []TypeOK
<1>1. IInv => TypeOK
  BY DEF IInv
<1> QED BY <1>1, Invariant, PTL

\* What has been reported of a counter is what it grew by, whenever no push for
\* its device is on the way: no reading is reported twice or dropped, for any
\* number of devices, of rounds and of wrap-arounds (collector.go:129-142,
\* 248-261, 336-349).
THEOREM EachIncrementOnce == Spec => []IncrementsReportedOnce
<1>1. IInv => IncrementsReportedOnce
  <2> SUFFICES ASSUME IInv, NEW d \in DOMAIN prev, Settled(d), NEW f \in Field(d)
               PROVE  \/ owed[d][f] = 0
                      \/ d \in fallen /\ (Kind[d] = "stat" \/ owed[d][f] % Modulus = 0)
    BY DEF IncrementsReportedOnce
  <2>1. pending \in Seq(Pushed)
    BY DEF IInv, TypeOK, Pushed
  <2>2. \A i \in 1 .. Len(pending) : pending[i].series[1] # d
    <3>1. Range(pending) = {pending[i] : i \in 1 .. Len(pending)}
      BY <2>1, RangeEquality
    <3> QED BY <3>1 DEF Settled
  <2>3. <<d, f>> \notin Coming
    BY <2>2 DEF Coming
  <2> QED BY <2>3 DEF IInv, Balance, Balanced
<1> QED BY <1>1, Invariant, PTL

\* What a snapshot reads later of a device is at most one sample older than what
\* it read of it before, wherever the collector is (web.go:141-220).
THEOREM SnapshotTornByOne == Spec => []TornByOne
<1>1. IInv => TornByOne
  BY DEF IInv, ReadInStep, TornByOne
<1> QED BY <1>1, Invariant, PTL

LEMMA NextServes == IInv /\ IInv' /\ [Next]_vars => [Goroutine!Next]_Goroutine!vars
<1> SUFFICES ASSUME IInv, IInv', [Next]_vars
             PROVE  \/ Goroutine!Next
                    \/ /\ phase' = phase /\ store' = store
                       /\ (loop' \notin {"none", "exited"}) = (loop \notin {"none", "exited"})
  BY DEF Goroutine!vars
<1>0. Control /\ store' \in [Series -> 0 .. MaxRound]
  BY DEF IInv, TypeOK
<1>1. CASE UNCHANGED vars
  BY <1>1 DEF vars, owner
<1>2. CASE \/ \E d \in Device : Unplug(d) \/ Plug(d)
           \/ Tick \/ BeginSnapshot \/ ReaderStep
  <2>1. phase' = phase /\ store' = store /\ loop' = loop
    BY <1>2 DEF Unplug, Plug, Tick, BeginSnapshot, ReaderStep, ReadLatest, DeviceNames,
                InterfaceNames, ListNames, EndSnapshot, owner
  <2> QED BY <2>1
<1>3. CASE Start
  <2>1. phase = "setup" /\ phase' = "running" /\ store' = store
    BY <1>3 DEF Start, BeginCollect
  <2> QED BY <2>1 DEF Goroutine!Next, Goroutine!Start
<1>4. CASE TakeTick
  <2>1. loop = "select" /\ loop' = "collect" /\ phase' = phase /\ store' = store
    BY <1>4 DEF TakeTick, BeginCollect
  <2> QED BY <2>1
<1>5. CASE Stop
  <2>1. phase = "running" /\ phase' = "stopping" /\ loop' = loop /\ store' = store
    BY <1>5 DEF Stop
  <2> QED BY <2>1 DEF Goroutine!Next, Goroutine!Stop
<1>6. CASE LoopExit
  <2>1. /\ phase = "stopping" /\ phase' = phase /\ loop = "select" /\ loop' = "exited"
        /\ store' = store
    BY <1>6 DEF LoopExit
  <2> QED BY <2>1 DEF Goroutine!Next, Goroutine!End
<1>7. CASE StopReturns
  <2>1. /\ phase = "stopping" /\ phase' = "stopped" /\ loop = "exited" /\ loop' = loop
        /\ store' = store
    BY <1>7 DEF StopReturns
  <2> QED BY <2>1 DEF Goroutine!Next, Goroutine!StopReturns
<1>8. CASE CollectStep
  <2>1. loop = "collect" /\ loop' \in {"collect", "select"} /\ phase' = phase
    <3>1. CASE ReadFile
      BY <3>1 DEF ReadFile, owner
    <3>2. CASE Push
      <4>1. opened
        BY <1>0, <3>2 DEF Push, Control
      <4> QED BY <1>0, <3>2, <4>1 DEF Push, Control, owner
    <3>3. CASE EndFile
      BY <1>0, <3>3 DEF EndFile, NextFile, Control
    <3>4. CASE \E d \in Device : Seed(d) \/ Reread(d) \/ RereadRestarted(d) \/ Gauge(d)
      <4>1. PICK d \in Device : InHand(d)
        BY <3>4 DEF Seed, Reread, RereadRestarted, Gauge
      <4> QED BY <1>0, <4>1 DEF InHand, Control, owner
    <3> QED BY <1>8, <3>1, <3>2, <3>3, <3>4 DEF CollectStep
  <2>2. Goroutine!Work
    BY <1>0, <2>1 DEF Goroutine!Work
  <2> QED BY <2>2 DEF Goroutine!Next
<1> QED BY <1>1, <1>2, <1>3, <1>4, <1>5, <1>6, <1>7, <1>8 DEF Next

\* The collector takes the steps of a service and no others: nothing is pushed
\* before Start or after Stop has returned, whoever reads beside it
\* (collector.go:46-104).
THEOREM CollectorServes ==
  Spec => Goroutine!Init /\ [][Goroutine!Next]_Goroutine!vars
<1>1. Init => Goroutine!Init
  <2> SUFFICES ASSUME Init PROVE Goroutine!Init
    OBVIOUS
  <2>1. store \in [Series -> 0 .. MaxRound]
    BY InitInv DEF IInv, TypeOK
  <2> QED BY <2>1 DEF Init, Goroutine!Init
<1> QED BY <1>1, NextServes, Invariant, PTL DEF Spec
=============================================================================
