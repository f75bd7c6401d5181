------------------------------- MODULE Ring -------------------------------
(***************************************************************************)
(* The circular buffer of internal/ringbuf/ringbuf.go as operators on a    *)
(* record r with the fields of type RingBuffer: r.data, r.head (the next   *)
(* write position) and r.size (the number of valid entries).  Every method *)
(* of RingBuffer holds r.mu from its first to its last access, so each is  *)
(* one atomic step of whoever calls it.                                    *)
(***************************************************************************)
EXTENDS Integers, Sequences

CONSTANTS
  RequestedCap,   (* the cap argument of New (flag -history)               *)
  DefaultCap,     (* const DefaultCap, 3600 in the code                    *)
  Sample,         (* the samples that are pushed                           *)
  Blank           (* the zero Sample: what a fresh slot holds, and what    *)
                  (* Latest returns together with ok = false               *)

ASSUME CapAssumption ==
  /\ RequestedCap \in Int
  /\ DefaultCap \in Nat \ {0}

ASSUME BlankAssumption == Blank \notin Sample

Cap == IF RequestedCap <= 0 THEN DefaultCap ELSE RequestedCap

Slot == 0 .. Cap - 1

NewRing == [data |-> [i \in Slot |-> Blank], head |-> 0, size |-> 0]

Rings == [data : [Slot -> Sample \cup {Blank}], head : Slot, size : 0 .. Cap]

\* Slip: the write position is not wrapped.
PushNoWrap(r, s) ==
  [ data |-> [r.data EXCEPT ![r.head] = s],
    head |-> r.head + 1,
    size |-> IF r.size < Cap THEN r.size + 1 ELSE r.size ]

\* Slip: the buffer is taken for full one sample too early.
PushShort(r, s) ==
  [ data |-> [r.data EXCEPT ![r.head] = s],
    head |-> (r.head + 1) % Cap,
    size |-> IF r.size < Cap - 1 THEN r.size + 1 ELSE r.size ]

PushRing(r, s) ==
  [ data |-> [r.data EXCEPT ![r.head] = s],
    head |-> (r.head + 1) % Cap,
    size |-> IF r.size < Cap THEN r.size + 1 ELSE r.size ]

\* How many samples a request for n returns.
Count(r, n) == IF n <= 0 \/ n > r.size THEN r.size ELSE n

\* Slip: the oldest n samples instead of the most recent n.
LastOldest(r, n) ==
  LET tail == (r.head - r.size + Cap * 2) % Cap
  IN  [i \in 1 .. Count(r, n) |-> r.data[(tail + (i - 1)) % Cap]]

LastOf(r, n) ==
  LET tail == (r.head - Count(r, n) + Cap * 2) % Cap
  IN  [i \in 1 .. Count(r, n) |-> r.data[(tail + (i - 1)) % Cap]]

LatestOf(r) ==
  IF r.size = 0 THEN Blank ELSE r.data[(r.head - 1 + Cap) % Cap]
=============================================================================
