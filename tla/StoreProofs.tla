---------------------------- MODULE StoreProofs ----------------------------
(***************************************************************************)
(* The ring buffer implements the bounded log, for every capacity and      *)
(* every set of samples.  The store, for any names, callers and requests   *)
(* too: the pointers that are used outside its lock are never stale, and   *)
(* its calls, each of several steps, behave as if they were atomic.        *)
(***************************************************************************)
EXTENDS Store, RingBuffer, SequenceTheorems, TLAPS

(***************************************************************************)
(* One ring buffer.  Its variable, ring, plays no part in the store.       *)
(***************************************************************************)
\* The capacity is positive whatever New is called with.
LEMMA CapPositive == Cap \in Nat \ {0}
BY CapAssumption DEF Cap

\* The indices computed by Push and Last lie below 3 * Cap: what % does there.
LEMMA ModWindow ==
  ASSUME NEW x \in Int, NEW k \in 0 .. 2, k * Cap <= x, x < (k + 1) * Cap
  PROVE  x % Cap = x - k * Cap
<1>1. Cap \in Nat \ {0}
  BY CapPositive
<1> DEFINE q == x \div Cap
           m == x % Cap
<1>2. q \in Int /\ m \in 0 .. Cap - 1 /\ x = Cap * q + m
  BY <1>1
<1> HIDE DEF q, m
<1>3. ~ (q >= k + 1)
  <2>1. ASSUME q >= k + 1 PROVE Cap * q >= Cap * (k + 1)
    BY <1>1, <1>2, <2>1
  <2> QED BY <1>1, <1>2, <2>1
<1>4. ~ (q <= k - 1)
  <2>1. ASSUME q <= k - 1 PROVE Cap * q <= Cap * (k - 1)
    BY <1>1, <1>2, <2>1
  <2> QED BY <1>1, <1>2, <2>1
<1>5. q = k
  BY <1>2, <1>3, <1>4
<1> QED BY <1>1, <1>2, <1>5 DEF m

LEMMA NewRingType == NewRing \in Rings
BY CapPositive DEF NewRing, Rings, Slot

LEMMA PushRingType ==
  ASSUME NEW r \in Rings, NEW s \in Sample
  PROVE  PushRing(r, s) \in Rings
<1>1. Cap \in Nat \ {0}
  BY CapPositive
<1>2. (r.head + 1) % Cap \in Slot
  BY <1>1 DEF Rings, Slot
<1>3. [r.data EXCEPT ![r.head] = s] \in [Slot -> Sample \cup {Blank}]
  BY DEF Rings
<1>4. (IF r.size < Cap THEN r.size + 1 ELSE r.size) \in 0 .. Cap
  BY <1>1 DEF Rings
<1> QED BY <1>2, <1>3, <1>4 DEF Rings, PushRing

\* The slot of the i-th oldest of the most recent n samples: what Last
\* computes with % is a step back from the write position, wrapped once.
SlotOf(h, n, i) == (((h - n + Cap * 2) % Cap) + (i - 1)) % Cap

Back(h, n, i) == IF h - n + i - 1 >= 0 THEN h - n + i - 1 ELSE h - n + i - 1 + Cap

LEMMA LastIndex ==
  ASSUME NEW h \in Slot, NEW n \in 0 .. Cap, NEW i \in 1 .. n
  PROVE  SlotOf(h, n, i) = Back(h, n, i) /\ Back(h, n, i) \in Slot
<1> DEFINE tail == (h - n + Cap * 2) % Cap
           k == (tail + (i - 1)) % Cap
<1>1. Cap \in Nat \ {0} /\ h \in 0 .. Cap - 1
  BY CapPositive DEF Slot
<1>2. CASE h >= n
  <2>1. tail = h - n
    BY <1>1, <1>2, ModWindow, 2 \in 0 .. 2
  <2>2. k = h - n + i - 1
    BY <1>1, <1>2, <2>1, ModWindow, 0 \in 0 .. 2
  <2> QED BY <1>1, <1>2, <2>2 DEF Slot, SlotOf, Back
<1>3. CASE h < n
  <2>1. tail = h - n + Cap
    BY <1>1, <1>3, ModWindow, 1 \in 0 .. 2
  <2>2. CASE h - n + i - 1 >= 0
    <3>1. k = h - n + i - 1
      BY <1>1, <1>3, <2>1, <2>2, ModWindow, 1 \in 0 .. 2
    <3> QED BY <1>1, <1>3, <2>2, <3>1 DEF Slot, SlotOf, Back
  <2>3. CASE h - n + i - 1 < 0
    <3>1. k = h - n + i - 1 + Cap
      BY <1>1, <1>3, <2>1, <2>3, ModWindow, 0 \in 0 .. 2
    <3> QED BY <1>1, <1>3, <2>3, <3>1 DEF Slot, SlotOf, Back
  <2> QED BY <1>1, <2>2, <2>3
<1> QED BY <1>1, <1>2, <1>3

\* Pushing on a buffer that is not full moves no sample that it holds.
LEMMA BackBeforeFull ==
  ASSUME NEW h \in Slot, NEW n \in 0 .. Cap - 1,
         NEW h2 \in Slot, h2 = IF h + 1 < Cap THEN h + 1 ELSE 0
  PROVE  /\ \A i \in 1 .. n : /\ Back(h2, n + 1, i) = Back(h, n, i)
                              /\ Back(h, n, i) \in Slot
                              /\ Back(h, n, i) # h
         /\ Back(h2, n + 1, n + 1) = h
BY CapPositive DEF Back, Slot

LEMMA HeldShape ==
  ASSUME NEW r \in Rings
  PROVE  /\ LastOf(r, 0) \in Seq(Sample \cup {Blank})
         /\ Len(LastOf(r, 0)) = r.size
         /\ \A i \in 1 .. r.size :
              LastOf(r, 0)[i] = r.data[Back(r.head, r.size, i)]
<1>1. /\ r.size \in 0 .. Cap /\ r.size \in Nat /\ r.head \in Slot
      /\ r.data \in [Slot -> Sample \cup {Blank}]
  BY CapPositive DEF Rings
<1>2. Count(r, 0) = r.size
  BY DEF Count
<1>3. LastOf(r, 0) = [i \in 1 .. r.size |-> r.data[SlotOf(r.head, r.size, i)]]
  BY <1>2 DEF LastOf, SlotOf
<1>4. \A i \in 1 .. r.size :
        /\ SlotOf(r.head, r.size, i) = Back(r.head, r.size, i)
        /\ Back(r.head, r.size, i) \in Slot
  BY <1>1, LastIndex
<1>5. LastOf(r, 0) \in [1 .. r.size -> Sample \cup {Blank}]
  BY <1>1, <1>3, <1>4
<1>6. LastOf(r, 0) \in Seq(Sample \cup {Blank})
  BY <1>1, <1>5, SeqDef
<1>7. Len(LastOf(r, 0)) = r.size
  BY <1>1, <1>5, <1>6, LenProperties
<1> QED BY <1>3, <1>4, <1>6, <1>7

\* One push on the ring is one push on the log it holds.
LEMMA PushExtends ==
  ASSUME NEW r \in Rings, NEW s \in Sample
  PROVE  LastOf(PushRing(r, s), 0) = Log!Extend(LastOf(r, 0), s)
<1> DEFINE r2 == PushRing(r, s)
           old == LastOf(r, 0)
           new == LastOf(r2, 0)
           S == Sample \cup {Blank}
<1>1. /\ Cap \in Nat \ {0} /\ r.size \in 0 .. Cap /\ r.head \in Slot
      /\ Slot = 0 .. Cap - 1 /\ r.data \in [Slot -> S]
  BY CapPositive DEF Rings, Slot
<1>2. r2 \in Rings
  BY PushRingType
<1>3. /\ r2.data = [r.data EXCEPT ![r.head] = s]
      /\ r2.head = IF r.head + 1 < Cap THEN r.head + 1 ELSE 0
      /\ r2.size = IF r.size < Cap THEN r.size + 1 ELSE r.size
  <2>1. (r.head + 1) % Cap = IF r.head + 1 < Cap THEN r.head + 1 ELSE 0
    BY <1>1, ModWindow, 0 \in 0 .. 2, 1 \in 0 .. 2
  <2> QED BY <2>1 DEF PushRing
<1>4. /\ old \in Seq(S) /\ Len(old) = r.size
      /\ \A i \in 1 .. r.size : old[i] = r.data[Back(r.head, r.size, i)]
  BY HeldShape
<1>5. /\ new \in Seq(S) /\ Len(new) = r2.size
      /\ \A i \in 1 .. r2.size : new[i] = r2.data[Back(r2.head, r2.size, i)]
  BY <1>2, HeldShape
<1> HIDE DEF r2, old, new
<1> s \in S
  OBVIOUS
<1>6. CASE r.size < Cap
  <2> DEFINE n == r.size
  <2>0. /\ n \in 0 .. Cap - 1 /\ r2.size = n + 1 /\ r2.head \in Slot
        /\ 1 .. n \subseteq 1 .. n + 1 /\ n + 1 \in 1 .. n + 1
    BY <1>1, <1>3, <1>6
  <2> HIDE DEF n
  <2>1. \A i \in 1 .. r.size : new[i] = old[i]
    <3> TAKE i \in 1 .. r.size
    <3>1. /\ Back(r2.head, n + 1, i) = Back(r.head, n, i)
          /\ Back(r.head, n, i) \in Slot /\ Back(r.head, n, i) # r.head
      BY <1>1, <1>3, <2>0, BackBeforeFull DEF n
    <3>2. new[i] = r2.data[Back(r.head, n, i)]
      BY <1>5, <2>0, <3>1 DEF n
    <3> QED BY <1>1, <1>3, <1>4, <3>1, <3>2 DEF n
  <2>2. new[r.size + 1] = s
    <3>1. Back(r2.head, n + 1, n + 1) = r.head
      <4>1. r.head \in Slot /\ n \in 0 .. Cap - 1 /\ r2.head \in Slot
            /\ r2.head = IF r.head + 1 < Cap THEN r.head + 1 ELSE 0
        BY <1>1, <1>3, <2>0
      <4> QED BY ONLY <4>1, BackBeforeFull
    <3>2. new[n + 1] = r2.data[r.head]
      BY <1>5, <2>0, <3>1
    <3> QED BY <1>1, <1>3, <3>2 DEF n
  <2>3. new = Append(old, s)
    <3>1. /\ Append(old, s) \in Seq(S) /\ Len(Append(old, s)) = r.size + 1
          /\ \A i \in 1 .. r.size : Append(old, s)[i] = old[i]
          /\ Append(old, s)[r.size + 1] = s
      BY <1>4, AppendProperties
    <3>2. \A i \in 1 .. r.size + 1 : new[i] = Append(old, s)[i]
      BY <1>1, <2>1, <2>2, <3>1
    <3>3. Len(new) = r.size + 1
      BY <1>3, <1>5, <1>6
    <3> HIDE DEF S
    <3> QED BY <1>5, <3>1, <3>2, <3>3, SeqEqual
  <2> QED BY <1>4, <1>6, <2>3 DEF Log!Extend, r2, old, new
<1>7. CASE r.size = Cap
  <2>1. \A i \in 1 .. Cap - 1 : new[i] = old[i + 1]
    <3> TAKE i \in 1 .. Cap - 1
    <3>1. Back(r2.head, r2.size, i) = Back(r.head, r.size, i + 1)
      BY <1>1, <1>3, <1>7 DEF Back
    <3>2. /\ Back(r.head, r.size, i + 1) \in Slot
          /\ Back(r.head, r.size, i + 1) # r.head
      BY <1>1, <1>7 DEF Back
    <3>3. new[i] = r2.data[Back(r.head, r.size, i + 1)]
      BY <1>1, <1>3, <1>5, <1>7, <3>1
    <3>4. old[i + 1] = r.data[Back(r.head, r.size, i + 1)]
      BY <1>1, <1>4, <1>7
    <3> QED BY <1>1, <1>3, <3>2, <3>3, <3>4
  <2>2. new[Cap] = s
    BY <1>1, <1>3, <1>5, <1>7 DEF Back
  <2>3. /\ Tail(old) \in Seq(S) /\ Len(Tail(old)) = Cap - 1
        /\ \A i \in 1 .. Cap - 1 : Tail(old)[i] = old[i + 1]
    <3>1. old # << >>
      BY <1>1, <1>4, <1>7, EmptySeq
    <3> HIDE DEF S
    <3> QED BY <1>1, <1>4, <1>7, <3>1, HeadTailProperties
  <2>4. new = Append(Tail(old), s)
    <3> DEFINE app == Append(Tail(old), s)
    <3>1. /\ app \in Seq(S) /\ Len(app) = Cap
          /\ \A i \in 1 .. Cap - 1 : app[i] = Tail(old)[i]
          /\ app[Cap] = s
      BY <1>1, <2>3, AppendProperties
    <3> HIDE DEF app
    <3>2. \A i \in 1 .. Cap : new[i] = app[i]
      BY <1>1, <2>1, <2>2, <2>3, <3>1
    <3>3. Len(new) = Cap
      BY <1>1, <1>3, <1>5, <1>7
    <3> HIDE DEF S
    <3>4. new = app
      BY <1>5, <3>1, <3>2, <3>3, SeqEqual
    <3> QED BY <3>4 DEF app
  <2> QED BY <1>1, <1>4, <1>7, <2>4 DEF Log!Extend, r2, old, new
<1> QED BY <1>1, <1>6, <1>7

-----------------------------------------------------------------------------
\* Head and size stay within the capacity.
THEOREM TypeCorrect == RSpec => []RTypeOK
<1>1. RInit => RTypeOK
  BY NewRingType DEF RInit, RTypeOK
<1>2. RTypeOK /\ [RNext]_ring => RTypeOK'
  BY PushRingType DEF RTypeOK, RNext, Push
<1> QED BY <1>1, <1>2, PTL DEF RSpec

\* The circular buffer implements the bounded log (ringbuf.go:33-64).
THEOREM RingIsBoundedLog == RSpec => BoundedLog
<1>1. RInit => Log!Init
  BY CapPositive DEF RInit, NewRing, Log!Init, Held, LastOf, Count
<1>2. RTypeOK /\ [RNext]_ring => [Log!Next]_Held
  <2> SUFFICES ASSUME RTypeOK, [RNext]_ring PROVE [Log!Next]_Held
    OBVIOUS
  <2>1. ASSUME NEW s \in Sample, Push(s) PROVE Log!Push(s)
    BY <2>1, PushExtends DEF RTypeOK, Push, Log!Push, Held
  <2>2. CASE UNCHANGED ring
    BY <2>2 DEF Held
  <2> QED BY <2>1, <2>2 DEF RNext, Log!Next
<1> QED BY <1>1, <1>2, TypeCorrect, PTL DEF RSpec, BoundedLog, Log!Spec


(***************************************************************************)
(* The operators of Ring, as a reader of the store sees them.              *)
(***************************************************************************)

\* What Last(n) returns, slot by slot.
LEMMA LastShape ==
  ASSUME NEW r \in Rings, NEW n \in Int
  PROVE  /\ Count(r, n) \in 0 .. r.size
         /\ LastOf(r, n) \in Seq(Sample \cup {Blank})
         /\ Len(LastOf(r, n)) = Count(r, n)
         /\ \A i \in 1 .. Count(r, n) :
              LastOf(r, n)[i] = r.data[Back(r.head, Count(r, n), i)]
<1> DEFINE k == Count(r, n)
<1>1. /\ r.size \in 0 .. Cap /\ r.head \in Slot
      /\ r.data \in [Slot -> Sample \cup {Blank}]
  BY CapPositive DEF Rings
<1>2. k \in 0 .. r.size /\ k \in 0 .. Cap /\ k \in Nat
  BY <1>1, CapPositive DEF Count
<1>3. LastOf(r, n) = [i \in 1 .. k |-> r.data[SlotOf(r.head, k, i)]]
  BY DEF LastOf, SlotOf
<1> HIDE DEF k
<1>4. \A i \in 1 .. k : /\ SlotOf(r.head, k, i) = Back(r.head, k, i)
                        /\ Back(r.head, k, i) \in Slot
  BY <1>1, <1>2, LastIndex
<1>5. LastOf(r, n) \in [1 .. k -> Sample \cup {Blank}]
  BY <1>1, <1>3, <1>4
<1>6. LastOf(r, n) \in Seq(Sample \cup {Blank})
  BY <1>2, <1>5, SeqDef
<1>7. Len(LastOf(r, n)) = k
  BY <1>2, <1>5, <1>6, LenProperties
<1> QED BY <1>2, <1>3, <1>4, <1>6, <1>7 DEF k

LEMMA NewRingEmpty == LastOf(NewRing, 0) = <<>>
BY CapPositive DEF NewRing, LastOf, Count

\* Last(n) is the end of the log that Last(0) shows.
LEMMA LastIsRecent ==
  ASSUME NEW r \in Rings, NEW n \in Int
  PROVE  LastOf(r, n) = Promise!Recent(LastOf(r, 0), n)
<1> DEFINE S == Sample \cup {Blank}
           log == LastOf(r, 0)
           last == LastOf(r, n)
<1>1. r.size \in Nat
  BY CapPositive DEF Rings
<1>2. /\ log \in Seq(S) /\ Len(log) = r.size
      /\ \A i \in 1 .. r.size : log[i] = r.data[Back(r.head, r.size, i)]
  BY HeldShape
<1>3. /\ last \in Seq(S) /\ Len(last) = Count(r, n)
      /\ \A i \in 1 .. Count(r, n) : last[i] = r.data[Back(r.head, Count(r, n), i)]
  BY LastShape
<1>4. r.head \in Int
  BY CapPositive DEF Rings, Slot
<1>5. CASE n <= 0 \/ n > r.size
  <2>1. Count(r, n) = r.size /\ Count(r, 0) = r.size
    BY <1>5 DEF Count
  <2> QED BY <1>2, <1>5, <2>1 DEF Promise!Recent, LastOf
<1>6. CASE n \in 1 .. r.size
  <2> DEFINE end == SubSeq(log, Len(log) - n + 1, Len(log))
  <2>1. Count(r, n) = n
    BY <1>1, <1>6 DEF Count
  <2> HIDE DEF log, last, S
  <2>2. \A i \in r.size - n + 1 .. r.size : log[i] \in S
    BY <1>1, <1>2, <1>6, ElementOfSeq
  <2>3. /\ end \in Seq(S) /\ Len(end) = n
        /\ \A i \in 1 .. n : end[i] = log[r.size - n + i]
    BY <1>1, <1>2, <1>6, <2>2, SubSeqProperties
  <2>4. \A i \in 1 .. n : last[i] = end[i]
    <3> TAKE i \in 1 .. n
    <3>1. Back(r.head, n, i) = Back(r.head, r.size, r.size - n + i)
      BY <1>1, <1>4, <1>6, CapPositive DEF Back
    <3>2. r.size - n + i \in 1 .. r.size
      BY <1>1, <1>6
    <3> QED BY <1>2, <1>3, <2>1, <2>3, <3>1, <3>2
  <2> HIDE DEF end
  <2>5. last = end
    BY <1>3, <2>1, <2>3, <2>4, SeqEqual
  <2> QED BY <1>1, <1>2, <1>6, <2>5 DEF Promise!Recent, end, log, last
<1> QED BY <1>1, <1>5, <1>6

\* Latest of a buffer that holds samples is Last(1).
LEMMA LatestIsLast ==
  ASSUME NEW r \in Rings, r.size # 0
  PROVE  <<LatestOf(r)>> = LastOf(r, 1)
<1>1. /\ Cap \in Nat \ {0} /\ r.size \in 1 .. Cap /\ r.head \in 0 .. Cap - 1
      /\ r.data \in [Slot -> Sample \cup {Blank}] /\ r.head \in Slot
  BY CapPositive DEF Rings, Slot
<1>2. Count(r, 1) = 1
  BY <1>1 DEF Count
<1>3. (r.head - 1 + Cap) % Cap = Back(r.head, 1, 1)
  <2>1. CASE r.head = 0
    BY <1>1, <2>1, ModWindow, 0 \in 0 .. 2 DEF Back
  <2>2. CASE r.head > 0
    BY <1>1, <2>2, ModWindow, 1 \in 0 .. 2 DEF Back
  <2> QED BY <1>1, <2>1, <2>2
<1>4. /\ LastOf(r, 1) \in Seq(Sample \cup {Blank}) /\ Len(LastOf(r, 1)) = 1
      /\ LastOf(r, 1)[1] = LatestOf(r)
  <2>1. /\ LastOf(r, 1) \in Seq(Sample \cup {Blank}) /\ Len(LastOf(r, 1)) = 1
        /\ \A i \in 1 .. 1 : LastOf(r, 1)[i] = r.data[Back(r.head, 1, i)]
    BY <1>2, LastShape, 1 \in Int
  <2>2. LatestOf(r) = r.data[Back(r.head, 1, 1)]
    BY <1>1, <1>3 DEF LatestOf
  <2> QED BY <2>1, <2>2
<1> DEFINE one == LastOf(r, 1)
<1>5. one = [i \in 1 .. 1 |-> LatestOf(r)]
  <2> HIDE DEF one
  <2>1. one = [i \in 1 .. 1 |-> one[i]]
    BY <1>4, LenProperties DEF one
  <2> QED BY <1>4, <2>1 DEF one
<1> QED BY <1>5

(***************************************************************************)
(* TypeOK and PointersAgree are inductive together: a pointer that a       *)
(* caller holds stays in the heap only because no buffer is ever dropped,  *)
(* and it stays the one of its name because the map gives no name a        *)
(* second buffer.  The refinement needs one more clause.                   *)
(***************************************************************************)
\* A call of Latest asks for one sample.
LatestAsksForOne ==
  \A r \in Reader : read[r].pc = "found" /\ read[r].call = "latest" => read[r].n = 1

IInv == TypeOK /\ PointersAgree /\ LatestAsksForOne

-----------------------------------------------------------------------------
\* The job of a Push that is under way.
LEMMA JobType ==
  ASSUME TypeOK, NEW p \in Pusher, push[p].pc # "idle"
  PROVE  push[p] \in Jobs /\ push[p].pc \in {"create", "append"}
BY DEF TypeOK, NotPushing, Jobs

LEMMA LookupType ==
  ASSUME TypeOK, NEW r \in Reader, read[r].pc # "idle"
  PROVE  read[r] \in Lookups /\ read[r].pc = "found"
BY DEF TypeOK, NotReading, Lookups

\* What a step that leaves the heap as long as it is keeps.
LEMMA SameHeap ==
  ASSUME TypeOK, Len(heap') = Len(heap)
  PROVE  Jobs' = Jobs /\ Lookups' = Lookups
BY DEF Jobs, Lookups

LEMMA LookupPushInv ==
  ASSUME IInv, NEW p \in Pusher, NEW n \in Name, NEW s \in Sample, LookupPush(p, n, s)
  PROVE  IInv'
<1> USE DEF IInv, TypeOK, LookupPush
<1>1. Jobs' = Jobs /\ Lookups' = Lookups
  BY SameHeap
<1>2. push'[p] \in Jobs /\ push' \in [Pusher -> {NotPushing} \cup Jobs]
  BY DEF Jobs
<1>3. TypeOK'
  BY <1>1, <1>2
<1>4. PointersAgree' /\ LatestAsksForOne'
  BY <1>2 DEF PointersAgree, LatestAsksForOne
<1> QED BY <1>3, <1>4

\* The heap after New.
LEMMA HeapGrows ==
  ASSUME TypeOK, heap' = Append(heap, NewRing)
  PROVE  /\ heap' \in Seq(Rings) /\ Len(heap') = Len(heap) + 1
         /\ Len(heap) \in Nat
         /\ \A b \in 1 .. Len(heap) : heap'[b] = heap[b]
         /\ heap'[Len(heap) + 1] = NewRing
         /\ Jobs \subseteq Jobs' /\ Lookups \subseteq Lookups'
<1>1. /\ heap' \in Seq(Rings) /\ Len(heap') = Len(heap) + 1
      /\ \A b \in 1 .. Len(heap) : heap'[b] = heap[b]
      /\ heap'[Len(heap) + 1] = NewRing
  BY NewRingType, AppendProperties DEF TypeOK
<1>2. Len(heap) \in Nat
  BY LenProperties DEF TypeOK
<1> QED BY <1>1, <1>2 DEF Jobs, Lookups

LEMMA CreateInv ==
  ASSUME IInv, NEW p \in Pusher, Create(p)
  PROVE  IInv'
<1>1. TypeOK /\ push[p] \in Jobs /\ push[p].pc = "create"
  BY JobType DEF IInv, Create
<1> DEFINE n == push[p].name
<1>2. n \in Name
  BY <1>1 DEF Jobs
<1>3. CASE buffers[n] = 0
  <2>1. /\ heap' = Append(heap, NewRing)
        /\ buffers' = [buffers EXCEPT ![n] = Len(heap) + 1]
        /\ push' = [push EXCEPT ![p].pc = "append", ![p].buf = Len(heap) + 1]
        /\ read' = read
    BY <1>3 DEF Create
  <2>2. /\ heap' \in Seq(Rings) /\ Len(heap') = Len(heap) + 1
        /\ Len(heap) \in Nat
        /\ Jobs \subseteq Jobs' /\ Lookups \subseteq Lookups'
    BY <1>1, <2>1, HeapGrows
  <2>3. /\ push'[p] \in Jobs' /\ push'[p].name = n
        /\ push'[p].pc = "append" /\ push'[p].buf = Len(heap) + 1
        /\ \A q \in Pusher \ {p} : push'[q] = push[q]
    BY <1>1, <2>1, <2>2 DEF TypeOK, Jobs
  <2>4. TypeOK'
    <3>1. push' \in [Pusher -> {NotPushing} \cup Jobs']
      BY <1>1, <2>1, <2>2, <2>3 DEF TypeOK
    <3>2. buffers' \in [Name -> 0 .. Len(heap) + 1]
      <4>1. Len(heap) + 1 \in 0 .. Len(heap) + 1 /\ 0 .. Len(heap) \subseteq 0 .. Len(heap) + 1
        BY <2>2
      <4> QED BY <1>1, <2>1, <4>1 DEF TypeOK
    <3>3. read' \in [Reader -> {NotReading} \cup Lookups']
      BY <1>1, <2>1, <2>2 DEF TypeOK
    <3> QED BY <2>2, <3>1, <3>2, <3>3 DEF TypeOK, NotPushing, NotReading
  <2>5. \A m \in Name : buffers'[m] = IF m = n THEN Len(heap) + 1 ELSE buffers[m]
    BY <1>1, <2>1 DEF TypeOK
  <2>6. \A q \in Pusher : push'[q].pc = "append" =>
          push'[q].buf # 0 /\ push'[q].buf = buffers'[push'[q].name]
    <3> SUFFICES ASSUME NEW q \in Pusher, push'[q].pc = "append", q # p
                 PROVE  push[q].buf # 0 /\ push[q].buf = buffers'[push[q].name]
      BY <1>2, <2>2, <2>3, <2>5
    <3>1. push[q] \in Jobs /\ push[q].name \in Name
      BY <1>1, <2>3, JobType DEF Jobs
    <3> QED BY <1>3, <2>3, <2>5, <3>1 DEF IInv, PointersAgree
  <2>7. \A r \in Reader : read'[r].pc = "found" =>
          read'[r].buf = buffers'[read'[r].name]
    <3> SUFFICES ASSUME NEW r \in Reader, read[r].pc = "found"
                 PROVE  read[r].buf = buffers'[read[r].name]
      BY <2>1
    <3>1. read[r] \in Lookups /\ read[r].name \in Name /\ read[r].buf # 0
      BY <1>1, <2>2, LookupType DEF Lookups
    <3> QED BY <1>3, <2>5, <3>1 DEF IInv, PointersAgree
  <2>8. \A l, m \in Name : buffers'[l] = buffers'[m] /\ buffers'[l] # 0 => l = m
    <3>1. \A m \in Name : buffers[m] \in 0 .. Len(heap)
      BY <1>1 DEF TypeOK
    <3> QED BY <2>2, <2>5, <3>1 DEF IInv, PointersAgree
  <2> QED BY <2>1, <2>4, <2>6, <2>7, <2>8 DEF IInv, PointersAgree, LatestAsksForOne
<1>4. CASE buffers[n] # 0
  <2>1. /\ push' = [push EXCEPT ![p].pc = "append", ![p].buf = buffers[n]]
        /\ heap' = heap /\ buffers' = buffers /\ read' = read
    BY <1>4 DEF Create
  <2>2. Jobs' = Jobs /\ Lookups' = Lookups
    BY <1>1, <2>1, SameHeap
  <2>3. /\ push'[p] \in Jobs /\ push'[p].name = n
        /\ push'[p].pc = "append" /\ push'[p].buf = buffers[n]
        /\ \A q \in Pusher \ {p} : push'[q] = push[q]
    BY <1>1, <1>2, <2>1 DEF TypeOK, Jobs
  <2>4. TypeOK'
    <3>1. push' \in [Pusher -> {NotPushing} \cup Jobs]
      BY <1>1, <2>1, <2>3 DEF TypeOK
    <3>2. heap' \in Seq(Rings) /\ buffers' \in [Name -> 0 .. Len(heap')]
      BY <1>1, <2>1 DEF TypeOK
    <3>3. read' \in [Reader -> {NotReading} \cup Lookups']
      BY <1>1, <2>1, <2>2 DEF TypeOK
    <3> QED BY <2>2, <3>1, <3>2, <3>3 DEF TypeOK, NotPushing, NotReading
  <2>5. \A q \in Pusher : push'[q].pc = "append" =>
          push'[q].buf # 0 /\ push'[q].buf = buffers'[push'[q].name]
    <3> SUFFICES ASSUME NEW q \in Pusher, push'[q].pc = "append"
                 PROVE  push'[q].buf # 0 /\ push'[q].buf = buffers[push'[q].name]
      BY <2>1
    <3>1. CASE q = p
      BY <1>4, <2>3, <3>1
    <3>2. CASE q # p
      BY <2>3, <3>2 DEF IInv, PointersAgree
    <3> QED BY <3>1, <3>2
  <2>6. /\ \A r \in Reader : read'[r].pc = "found" =>
             read'[r].buf = buffers'[read'[r].name]
        /\ \A l, m \in Name : buffers'[l] = buffers'[m] /\ buffers'[l] # 0 => l = m
    BY <2>1 DEF IInv, PointersAgree
  <2> QED BY <2>1, <2>4, <2>5, <2>6 DEF IInv, PointersAgree, LatestAsksForOne
<1> QED BY <1>3, <1>4

\* The buffer that an append goes to.
LEMMA AppendTarget ==
  ASSUME IInv, NEW p \in Pusher, push[p].pc = "append"
  PROVE  /\ push[p].name \in Name /\ push[p].sample \in Sample
         /\ push[p].buf = buffers[push[p].name]
         /\ push[p].buf \in 1 .. Len(heap)
         /\ heap[push[p].buf] \in Rings
<1>1. push[p] \in Jobs /\ heap \in Seq(Rings)
  BY JobType DEF IInv, TypeOK
<1>2. /\ push[p].name \in Name /\ push[p].sample \in Sample
      /\ push[p].buf = buffers[push[p].name]
      /\ push[p].buf \in 0 .. Len(heap) /\ push[p].buf # 0
  BY <1>1 DEF Jobs, IInv, PointersAgree
<1>3. push[p].buf \in 1 .. Len(heap)
  BY <1>1, <1>2, LenProperties
<1> QED BY <1>1, <1>2, <1>3, ElementOfSeq

LEMMA HeapPushed ==
  ASSUME IInv, NEW p \in Pusher, AppendSample(p)
  PROVE  /\ heap' \in Seq(Rings) /\ Len(heap') = Len(heap)
         /\ \A b \in 1 .. Len(heap) :
              heap'[b] = IF b = push[p].buf THEN PushRing(heap[b], push[p].sample)
                                            ELSE heap[b]
<1> DEFINE b == push[p].buf
           pushed == PushRing(heap[b], push[p].sample)
<1>1. push[p].pc = "append" /\ heap' = [heap EXCEPT ![b] = pushed]
  BY DEF AppendSample
<1>2. b \in 1 .. Len(heap) /\ pushed \in Rings /\ heap \in Seq(Rings)
  BY <1>1, AppendTarget, PushRingType DEF IInv, TypeOK
<1> HIDE DEF b, pushed
<1>3. /\ heap' \in Seq(Rings) /\ Len(heap') = Len(heap)
      /\ \A c \in 1 .. Len(heap) : heap'[c] = IF c = b THEN pushed ELSE heap[c]
  BY <1>1, <1>2, ExceptSeq
<1> QED BY <1>3 DEF b, pushed

LEMMA AppendSampleInv ==
  ASSUME IInv, NEW p \in Pusher, AppendSample(p)
  PROVE  IInv'
<1>1. /\ push' = [push EXCEPT ![p] = NotPushing]
      /\ UNCHANGED <<buffers, read>> /\ TypeOK
  BY DEF AppendSample, IInv
<1>2. /\ heap' \in Seq(Rings) /\ Len(heap') = Len(heap)
      /\ Jobs' = Jobs /\ Lookups' = Lookups
  BY <1>1, HeapPushed, SameHeap
<1>3. TypeOK'
  BY <1>1, <1>2 DEF TypeOK, NotPushing, NotReading
<1>4. PointersAgree' /\ LatestAsksForOne'
  BY <1>1 DEF IInv, TypeOK, PointersAgree, LatestAsksForOne, NotPushing
<1> QED BY <1>3, <1>4 DEF IInv

LEMMA LookupReadInv ==
  ASSUME IInv, NEW r \in Reader, NEW call \in Calls, NEW n \in Name, NEW k \in Request,
         LookupRead(r, call, n, k)
  PROVE  IInv'
<1>1. TypeOK /\ UNCHANGED <<buffers, heap, push>>
  BY DEF IInv, LookupRead
<1>2. Jobs' = Jobs /\ Lookups' = Lookups
  BY <1>1, SameHeap
<1>3. CASE buffers[n] = 0
  <2>1. UNCHANGED <<buffers, heap, push, read>>
    BY <1>3 DEF LookupRead
  <2> QED BY <1>2, <2>1 DEF IInv, TypeOK, PointersAgree, LatestAsksForOne,
                            NotPushing, NotReading
<1>4. CASE buffers[n] # 0
  <2> DEFINE found == [pc |-> "found", call |-> call, name |-> n, n |-> k,
                       buf |-> buffers[n]]
  <2>1. read' = [read EXCEPT ![r] = found]
    BY <1>4 DEF LookupRead
  <2>2. found \in Lookups
    BY <1>1, <1>4 DEF TypeOK, Lookups
  <2>3. TypeOK'
    <3> HIDE DEF found
    <3> QED BY <1>1, <1>2, <2>1, <2>2 DEF TypeOK, NotPushing, NotReading
  <2>4. PointersAgree' /\ LatestAsksForOne'
    BY <1>1, <2>1 DEF IInv, TypeOK, PointersAgree, LatestAsksForOne, LookupRead
  <2> QED BY <2>3, <2>4 DEF IInv
<1> QED BY <1>3, <1>4

LEMMA ReadBufferInv ==
  ASSUME IInv, NEW r \in Reader, ReadBuffer(r)
  PROVE  IInv'
<1>1. TypeOK /\ UNCHANGED <<buffers, heap, push>> /\ read' = [read EXCEPT ![r] = NotReading]
  BY DEF IInv, ReadBuffer
<1>2. Jobs' = Jobs /\ Lookups' = Lookups
  BY <1>1, SameHeap
<1>3. TypeOK'
  BY <1>1, <1>2 DEF TypeOK, NotPushing, NotReading
<1>4. PointersAgree' /\ LatestAsksForOne'
  BY <1>1 DEF IInv, TypeOK, PointersAgree, LatestAsksForOne, NotReading
<1> QED BY <1>3, <1>4 DEF IInv

LEMMA StoreInvariant == Spec => []IInv
<1>1. Init => IInv
  <2> SUFFICES ASSUME Init PROVE IInv
    OBVIOUS
  <2>1. heap \in Seq(Rings) /\ Len(heap) = 0
    BY EmptySeq DEF Init
  <2>2. TypeOK
    BY <2>1 DEF Init, TypeOK
  <2>3. PointersAgree /\ LatestAsksForOne
    BY DEF Init, PointersAgree, LatestAsksForOne, NotPushing, NotReading
  <2> QED BY <2>2, <2>3 DEF IInv
<1>2. IInv /\ [Next]_vars => IInv'
  <2> SUFFICES ASSUME IInv, [Next]_vars PROVE IInv'
    OBVIOUS
  <2>1. CASE UNCHANGED vars
    BY <2>1 DEF vars, IInv, TypeOK, PointersAgree, LatestAsksForOne,
                Jobs, Lookups, NotPushing, NotReading
  <2>2. CASE Next
    BY <2>2, LookupPushInv, CreateInv, AppendSampleInv, LookupReadInv, ReadBufferInv
       DEF Next
  <2> QED BY <2>1, <2>2
<1> QED BY <1>1, <1>2, PTL DEF Spec

\* Every pointer into the heap is allocated, and the state of every call fits
\* the step it is in.
THEOREM StoreTypeCorrect == Spec => []TypeOK
BY StoreInvariant, PTL DEF IInv

\* The pointers that Push, Last and Latest keep across an unlock never go stale,
\* and no buffer serves two names (ringbuf.go:99-135).
THEOREM PointersNeverStale == Spec => []PointersAgree
BY StoreInvariant, PTL DEF IInv

-----------------------------------------------------------------------------
(* The promise, step by step: what it sees of a state of the store.        *)

Logs == [n \in Name |-> Series(n)]
Pending == [p \in Pusher |-> IF push[p].pc = "idle" THEN NoPush
                             ELSE <<push[p].name, push[p].sample>>]

LEMMA PendingJob ==
  ASSUME IInv, NEW p \in Pusher, push[p].pc # "idle"
  PROVE  /\ Pending[p] # NoPush
         /\ Pending[p][1] = push[p].name /\ push[p].name \in Name
         /\ Pending[p][2] = push[p].sample /\ push[p].sample \in Sample
<1>1. push[p] \in Jobs
  BY JobType DEF IInv
<1>2. push[p].name \in Name /\ push[p].sample \in Sample
  BY <1>1 DEF Jobs
<1> QED BY <1>2, NoPushAssumption DEF Pending

\* The first lookup of a Push is its call.
LEMMA LookupPushCalls ==
  ASSUME IInv, NEW p \in Pusher, NEW n \in Name, NEW s \in Sample, LookupPush(p, n, s)
  PROVE  Promise!Call(p, n, s)
<1>1. /\ push[p].pc = "idle" /\ push \in [Pusher -> {NotPushing} \cup Jobs]
      /\ UNCHANGED <<buffers, heap, seen>>
  BY DEF LookupPush, NotPushing, IInv, TypeOK
<1>2. /\ push'[p].pc # "idle" /\ push'[p].name = n /\ push'[p].sample = s
      /\ \A q \in Pusher \ {p} : push'[q] = push[q]
  BY <1>1 DEF LookupPush
<1>3. Pending[p] = NoPush
  BY <1>1 DEF Pending
<1>4. Pending' = [Pending EXCEPT ![p] = <<n, s>>]
  BY <1>2 DEF Pending
<1>5. Logs' = Logs /\ Names' = Names
  BY <1>1 DEF Logs, Series, Names
<1> QED BY <1>1, <1>3, <1>4, <1>5 DEF Promise!Call, Logs, Pending

\* The second lookup lists the name, which it may find listed already.
LEMMA CreateLists ==
  ASSUME IInv, NEW p \in Pusher, Create(p)
  PROVE  Promise!List(p)
<1> DEFINE n == push[p].name
<1>1. push[p].pc = "create" /\ seen' = seen
  BY DEF Create
<1>2. Pending[p] # NoPush /\ Pending[p][1] = n /\ n \in Name
  BY <1>1, PendingJob
<1>3. /\ push \in [Pusher -> {NotPushing} \cup Jobs] /\ push[p] \in Jobs
      /\ buffers \in [Name -> 0 .. Len(heap)] /\ Len(heap) \in Nat
      /\ heap \in Seq(Rings)
  BY <1>1, JobType, LenProperties DEF IInv, TypeOK
<1>4. Pending' = Pending
  <2>1. /\ push'[p].pc # "idle" /\ push'[p].name = push[p].name
        /\ push'[p].sample = push[p].sample
        /\ \A q \in Pusher \ {p} : push'[q] = push[q]
    BY <1>3 DEF Create, Jobs
  <2> QED BY <1>1, <2>1 DEF Pending
<1>5. CASE buffers[n] # 0
  <2>1. heap' = heap /\ buffers' = buffers
    BY <1>5 DEF Create
  <2>2. Logs' = Logs /\ Names' = Names
    BY <2>1 DEF Logs, Series, Names
  <2>3. Names \cup {n} = Names
    BY <1>2, <1>5 DEF Names
  <2> QED BY <1>1, <1>2, <1>4, <2>2, <2>3 DEF Promise!List, Logs, Pending
<1>6. CASE buffers[n] = 0
  <2>1. heap' = Append(heap, NewRing) /\ buffers' = [buffers EXCEPT ![n] = Len(heap) + 1]
    BY <1>6 DEF Create
  <2>2. /\ \A b \in 1 .. Len(heap) : heap'[b] = heap[b]
        /\ heap'[Len(heap) + 1] = NewRing
    BY <2>1, HeapGrows DEF IInv
  <2>3. \A m \in Name : buffers'[m] = IF m = n THEN Len(heap) + 1 ELSE buffers[m]
    BY <1>3, <2>1
  <2>4. Names' = Names \cup {n}
    BY <1>2, <1>3, <2>3 DEF Names
  <2>5. \A m \in Name : Series(m)' = Series(m)
    <3> TAKE m \in Name
    <3>1. CASE m = n
      BY <1>3, <1>6, <2>2, <2>3, <3>1, NewRingEmpty DEF Series
    <3>2. CASE m # n /\ buffers[m] = 0
      BY <2>3, <3>2 DEF Series
    <3>3. CASE m # n /\ buffers[m] # 0
      <4>1. buffers[m] \in 1 .. Len(heap)
        BY <1>3, <3>3
      <4> QED BY <2>2, <2>3, <3>3, <4>1 DEF Series
    <3> QED BY <3>1, <3>2, <3>3
  <2>6. Logs' = Logs
    BY <2>5 DEF Logs
  <2> QED BY <1>1, <1>2, <1>4, <2>4, <2>6 DEF Promise!List, Logs, Pending
<1> QED BY <1>5, <1>6

\* The append is the push; no other series sees it.
LEMMA AppendCommits ==
  ASSUME IInv, NEW p \in Pusher, AppendSample(p)
  PROVE  Promise!Commit(p)
<1> DEFINE n == push[p].name
           s == push[p].sample
<1>1. /\ push[p].pc = "append" /\ push' = [push EXCEPT ![p] = NotPushing]
      /\ UNCHANGED <<buffers, seen>>
  BY DEF AppendSample
<1>2. /\ Pending[p] # NoPush /\ Pending[p][1] = n /\ Pending[p][2] = s
      /\ n \in Name /\ s \in Sample
  BY <1>1, PendingJob
<1>3. /\ buffers[n] = push[p].buf /\ buffers[n] \in 1 .. Len(heap)
      /\ heap[buffers[n]] \in Rings
  BY <1>1, AppendTarget
<1>4. \A b \in 1 .. Len(heap) :
        heap'[b] = IF b = buffers[n] THEN PushRing(heap[b], s) ELSE heap[b]
  BY <1>3, HeapPushed
<1>5. buffers \in [Name -> 0 .. Len(heap)] /\ Len(heap) \in Nat
  BY LenProperties DEF IInv, TypeOK
<1>6. Pending' = [Pending EXCEPT ![p] = NoPush]
  <2>1. push \in [Pusher -> {NotPushing} \cup Jobs]
    BY DEF IInv, TypeOK
  <2> QED BY <1>1, <2>1 DEF Pending, NotPushing
<1>7. Names' = Names /\ n \in Names
  BY <1>1, <1>2, <1>3 DEF Names
<1>8. \A m \in Name :
        Series(m)' = IF m = n THEN Promise!Log!Extend(Series(n), s) ELSE Series(m)
  <2> TAKE m \in Name
  <2>1. CASE m = n
    <3>1. Series(n) = LastOf(heap[buffers[n]], 0)
      BY <1>3 DEF Series
    <3>2. Series(m)' = LastOf(PushRing(heap[buffers[n]], s), 0)
      BY <1>1, <1>3, <1>4, <2>1 DEF Series
    <3>3. LastOf(PushRing(heap[buffers[n]], s), 0)
            = Promise!Log!Extend(LastOf(heap[buffers[n]], 0), s)
      BY <1>2, <1>3, PushExtends DEF Log!Extend, Promise!Log!Extend
    <3> QED BY <2>1, <3>1, <3>2, <3>3
  <2>2. CASE m # n /\ buffers[m] # 0
    <3>1. buffers[m] # buffers[n] /\ buffers[m] \in 1 .. Len(heap)
      BY <1>2, <1>3, <1>5, <2>2 DEF IInv, PointersAgree
    <3> QED BY <1>1, <1>4, <2>2, <3>1 DEF Series
  <2>3. CASE m # n /\ buffers[m] = 0
    BY <1>1, <2>3 DEF Series
  <2> QED BY <2>1, <2>2, <2>3
<1>9. Logs' = [Logs EXCEPT ![n] = Promise!Log!Extend(Logs[n], s)]
  BY <1>2, <1>8 DEF Logs
<1> QED BY <1>1, <1>2, <1>6, <1>7, <1>9 DEF Promise!Commit, Logs, Pending

\* A read of a name that has no buffer is over with the lookup.
LEMMA LookupReadReads ==
  ASSUME IInv, NEW r \in Reader, NEW call \in Calls, NEW n \in Name, NEW k \in Request,
         LookupRead(r, call, n, k)
  PROVE  Promise!Read(r) \/ UNCHANGED <<Logs, Names, Pending, seen>>
<1>1. UNCHANGED <<buffers, heap, push>>
  BY DEF LookupRead
<1>2. Logs' = Logs /\ Names' = Names /\ Pending' = Pending
  BY <1>1 DEF Logs, Series, Names, Pending
<1>3. CASE buffers[n] = 0
  <2>1. seen' = [seen EXCEPT ![r] = Answer(n, k, <<>>)]
    BY <1>3 DEF LookupRead
  <2>2. Logs[n] = <<>>
    BY <1>3 DEF Logs, Series
  <2>3. Promise!Recent(<<>>, k) = <<>>
    <3>1. k \in Int /\ Len(<<>>) = 0
      BY RequestAssumption
    <3> QED BY <3>1 DEF Promise!Recent
  <2>4. seen' = [seen EXCEPT ![r] = Promise!Answer(n, k, Promise!Recent(Logs[n], k))]
    BY <2>1, <2>2, <2>3 DEF Answer, Promise!Answer
  <2> QED BY <1>2, <2>4 DEF Promise!Read, Logs, Pending
<1>4. CASE buffers[n] # 0
  BY <1>2, <1>4 DEF LookupRead
<1> QED BY <1>3, <1>4

\* The read of the buffer found, however long ago, is the read of the log.
LEMMA ReadBufferReads ==
  ASSUME IInv, NEW r \in Reader, ReadBuffer(r)
  PROVE  Promise!Read(r)
<1> DEFINE q == read[r]
           b == heap[q.buf]
<1>1. /\ q.pc = "found" /\ UNCHANGED <<buffers, heap, push>>
      /\ seen' = [seen EXCEPT ![r] = Answer(q.name, q.n, Result(q.call, b, q.n))]
  BY DEF ReadBuffer
<1>2. /\ q \in Lookups /\ q.name \in Name /\ q.n \in Request /\ q.n \in Int
      /\ q.buf = buffers[q.name] /\ q.buf \in 1 .. Len(heap)
  <2>1. q \in Lookups
    BY <1>1, LookupType DEF IInv
  <2> QED BY <1>1, <2>1, RequestAssumption DEF Lookups, IInv, PointersAgree
<1>3. b \in Rings
  BY <1>2, ElementOfSeq DEF IInv, TypeOK
<1>4. Logs[q.name] = LastOf(b, 0)
  <2>1. q.buf # 0
    BY <1>2
  <2> QED BY <1>2, <2>1 DEF Logs, Series
<1> HIDE DEF q, b
<1>5. Result(q.call, b, q.n) = Promise!Recent(Logs[q.name], q.n)
  <2>1. CASE q.call = "last"
    BY <1>2, <1>3, <1>4, <2>1, LastIsRecent DEF Result
  <2>2. CASE q.call = "latest"
    <3>1. q.n = 1 /\ LastOf(b, 1) = Promise!Recent(Logs[q.name], 1)
      BY <1>1, <1>3, <1>4, <2>2, LastIsRecent DEF IInv, LatestAsksForOne, q
    <3>2. CASE b.size = 0
      <4>1. LastOf(b, 0) = <<>>
        BY <3>2 DEF LastOf, Count
      <4>2. Promise!Recent(<<>>, 1) = <<>>
        BY DEF Promise!Recent
      <4> QED BY <1>4, <2>2, <3>1, <3>2, <4>1, <4>2 DEF Result
    <3>3. CASE b.size # 0
      BY <1>3, <2>2, <3>1, <3>3, LatestIsLast DEF Result
    <3> QED BY <3>2, <3>3
  <2> QED BY <1>2, <2>1, <2>2 DEF Lookups, Calls
<1>6. Logs' = Logs /\ Names' = Names /\ Pending' = Pending
  BY <1>1 DEF Logs, Series, Names, Pending
<1>7. seen' = [seen EXCEPT ![r] =
         Promise!Answer(q.name, q.n, Promise!Recent(Logs[q.name], q.n))]
  BY <1>1, <1>5 DEF Answer, Promise!Answer
<1> QED BY <1>2, <1>6, <1>7 DEF Promise!Read, Logs, Pending

LEMMA NextKeepsPromise ==
  IInv /\ [Next]_vars => [Promise!Next]_Promise!vars
<1> SUFFICES ASSUME IInv, [Next]_vars PROVE [Promise!Next]_Promise!vars
  OBVIOUS
<1> USE DEF Promise!Next
<1>1. ASSUME NEW p \in Pusher, NEW n \in Name, NEW s \in Sample, LookupPush(p, n, s)
      PROVE  Promise!Next
  BY <1>1, LookupPushCalls
<1>2. ASSUME NEW p \in Pusher, Create(p) PROVE Promise!Next
  BY <1>2, CreateLists
<1>3. ASSUME NEW p \in Pusher, AppendSample(p) PROVE Promise!Next
  BY <1>3, AppendCommits
<1>4. ASSUME NEW r \in Reader, NEW call \in Calls, NEW n \in Name, NEW k \in Request,
             LookupRead(r, call, n, k)
      PROVE  [Promise!Next]_Promise!vars
  BY <1>4, LookupReadReads DEF Promise!vars, Logs, Pending
<1>5. ASSUME NEW r \in Reader, ReadBuffer(r) PROVE Promise!Next
  BY <1>5, ReadBufferReads
<1>6. CASE UNCHANGED vars
  BY <1>6 DEF vars, Promise!vars, Series, Names
<1> QED BY <1>1, <1>2, <1>3, <1>4, <1>5, <1>6 DEF Next

\* Push, Last and Latest behave as if each were one atomic operation on one
\* bounded log per name (ringbuf.go:99-135).
THEOREM StoreIsAtomic == Spec => AtomicStore
<1>1. Init => Promise!Init
  BY DEF Init, Promise!Init, Series, Names, NotPushing, NothingSeen, Promise!NothingSeen
<1> QED BY <1>1, NextKeepsPromise, StoreInvariant, PTL DEF Spec, AtomicStore, Promise!Spec
=============================================================================
