------------------------------- MODULE Store -------------------------------
(***************************************************************************)
(* ringbuf.Store: one RingBuffer per metric name, created by the first     *)
(* Push of the name.  A Push is a lookup under the read lock, on a miss a  *)
(* second lookup and the creation under the write lock, and the append     *)
(* under the lock of the buffer; Last and Latest are a lookup and a read   *)
(* of the buffer found.  Between these steps any other caller may run: the *)
(* collector loop, one goroutine per plugin run, the alert engine, the     *)
(* tsdb writer and the HTTP handlers.                                      *)
(***************************************************************************)
EXTENDS Ring

CONSTANTS
  Name, Pusher, Reader, NoPush,
  Request   (* the n that callers of Last ask for                          *)

ASSUME RequestAssumption == Request \subseteq Int /\ 1 \in Request

\* What the promise has for a pusher that is in no Push is no push.
ASSUME NoPushAssumption == NoPush \notin Name \X Sample

VARIABLES
  buffers,   (* Store.buffers: name -> pointer into heap, 0 for no entry   *)
  heap,      (* the RingBuffers allocated so far                           *)
  push,      (* push[p]: the Push p is in, with its local variables        *)
  read,      (* read[r]: the Last or Latest r is in                        *)
  seen       (* seen[r]: what the last call of r returned                  *)

vars == <<buffers, heap, push, read, seen>>

NotPushing == [pc |-> "idle"]
NotReading == [pc |-> "idle"]
NothingSeen == [asked |-> FALSE]

Answer(name, n, samples) ==
  [asked |-> TRUE, name |-> name, n |-> n, samples |-> samples]

\* The n of Last(n); a call of Latest is "latest" and asks for one sample.
Calls == {"last", "latest"}

Jobs == [pc : {"create", "append"}, name : Name, sample : Sample,
         buf : 0 .. Len(heap)]
Lookups == [pc : {"found"}, call : Calls, name : Name, n : Request,
            buf : 1 .. Len(heap)]

TypeOK ==
  /\ heap \in Seq(Rings)
  /\ buffers \in [Name -> 0 .. Len(heap)]
  /\ push \in [Pusher -> {NotPushing} \cup Jobs]
  /\ read \in [Reader -> {NotReading} \cup Lookups]

Init ==
  /\ heap = <<>>
  /\ buffers = [n \in Name |-> 0]
  /\ push = [p \in Pusher |-> NotPushing]
  /\ read = [r \in Reader |-> NotReading]
  /\ seen = [r \in Reader |-> NothingSeen]

-----------------------------------------------------------------------------
\* Push, the first lookup under RLock.
LookupPush(p, n, s) ==
  /\ push[p] = NotPushing
  /\ push' = [push EXCEPT ![p] =
       [pc |-> IF buffers[n] = 0 THEN "create" ELSE "append",
        name |-> n, sample |-> s, buf |-> buffers[n]]]
  /\ UNCHANGED <<buffers, heap, read, seen>>

\* Slip: the miss of the first lookup is trusted under the write lock.
CreateBlind(p) ==
  /\ push[p].pc = "create"
  /\ heap' = Append(heap, NewRing)
  /\ buffers' = [buffers EXCEPT ![push[p].name] = Len(heap) + 1]
  /\ push' = [push EXCEPT ![p].pc = "append", ![p].buf = Len(heap) + 1]
  /\ UNCHANGED <<read, seen>>

\* Push, the second lookup and the creation under Lock.
Create(p) ==
  /\ push[p].pc = "create"
  /\ LET n == push[p].name
     IN  \/ /\ buffers[n] = 0
            /\ heap' = Append(heap, NewRing)
            /\ buffers' = [buffers EXCEPT ![n] = Len(heap) + 1]
            /\ push' = [push EXCEPT ![p].pc = "append", ![p].buf = Len(heap) + 1]
         \/ /\ buffers[n] # 0
            /\ push' = [push EXCEPT ![p].pc = "append", ![p].buf = buffers[n]]
            /\ UNCHANGED <<heap, buffers>>
  /\ UNCHANGED <<read, seen>>

\* buf.Push(sample), under the lock of the buffer.
AppendSample(p) ==
  /\ push[p].pc = "append"
  /\ heap' = [heap EXCEPT ![push[p].buf] = PushRing(@, push[p].sample)]
  /\ push' = [push EXCEPT ![p] = NotPushing]
  /\ UNCHANGED <<buffers, read, seen>>

\* Last and Latest, the lookup: a name without a buffer has no samples.
LookupRead(r, call, name, n) ==
  /\ read[r] = NotReading
  /\ call = "latest" => n = 1
  /\ IF buffers[name] = 0
       THEN /\ seen' = [seen EXCEPT ![r] = Answer(name, n, <<>>)]
            /\ UNCHANGED read
       ELSE /\ read' = [read EXCEPT ![r] =
                 [pc |-> "found", call |-> call, name |-> name, n |-> n,
                  buf |-> buffers[name]]]
            /\ UNCHANGED seen
  /\ UNCHANGED <<buffers, heap, push>>

\* What RingBuffer.Last or RingBuffer.Latest returns.
Result(call, b, n) ==
  IF call = "last" THEN LastOf(b, n)
  ELSE IF b.size = 0 THEN <<>> ELSE <<LatestOf(b)>>

ReadBuffer(r) ==
  /\ read[r].pc = "found"
  /\ LET q == read[r]
     IN  seen' = [seen EXCEPT ![r] =
           Answer(q.name, q.n, Result(q.call, heap[q.buf], q.n))]
  /\ read' = [read EXCEPT ![r] = NotReading]
  /\ UNCHANGED <<buffers, heap, push>>

Next ==
  \/ \E p \in Pusher : \/ \E n \in Name, s \in Sample : LookupPush(p, n, s)
                       \/ Create(p)
                       \/ AppendSample(p)
  \/ \E r \in Reader :
       \/ \E call \in Calls, n \in Name, k \in Request : LookupRead(r, call, n, k)
       \/ ReadBuffer(r)

Spec == Init /\ [][Next]_vars

-----------------------------------------------------------------------------
\* A pointer to a buffer that a caller kept across an unlock is still the one
\* the map has for that name, and no buffer serves two names: the pointers
\* that Push, Last and Latest use outside Store.mu (ringbuf.go:112, 123, 134)
\* never go stale.
PointersAgree ==
  /\ \A p \in Pusher : push[p].pc = "append" =>
       push[p].buf # 0 /\ push[p].buf = buffers[push[p].name]
  /\ \A r \in Reader : read[r].pc = "found" => read[r].buf = buffers[read[r].name]
  /\ \A m, n \in Name : buffers[m] = buffers[n] /\ buffers[m] # 0 => m = n

Series(n) == IF buffers[n] = 0 THEN <<>> ELSE LastOf(heap[buffers[n]], 0)

\* Names: the keys of the map.
Names == {n \in Name : buffers[n] # 0}

Promise == INSTANCE StoreSpec WITH
  logs <- [n \in Name |-> Series(n)],
  listed <- Names,
  pending <- [p \in Pusher |-> IF push[p].pc = "idle" THEN NoPush
                               ELSE <<push[p].name, push[p].sample>>]

\* The three-step Push and the two-step reads behave as if each were atomic:
\* two first pushes of one name that both miss end in the same buffer, and no
\* sample pushed through a kept pointer is lost (ringbuf.go:99-135).
AtomicStore == Promise!Spec
=============================================================================
