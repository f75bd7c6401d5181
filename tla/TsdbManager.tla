---------------------------- MODULE TsdbManager ----------------------------
(***************************************************************************)
(* tsdb.Manager: a goroutine that on every tick collects from each series  *)
(* the samples newer than the cursor of that series and hands them to      *)
(* every writer; Stop waits for it and flushes once more.  The producers   *)
(* push while a flush is under way; main stops them before the manager.    *)
(*                                                                         *)
(* A sample is its stamp, the reading of the wall clock in seconds with    *)
(* which the round of its producer began.  It may be any: the wall clock   *)
(* may be set while the ticker follows the monotonic one, and two plugin   *)
(* files of one name, foo.sh and foo.py, feed one series with overlapping  *)
(* rounds.                                                                 *)
(***************************************************************************)
EXTENDS Integers, Sequences, FiniteSetsExt, SequencesExt

CONSTANTS
  Metric,     (* series names, as naturals in their sort order             *)
  Writers,    (* Manager.writers, in order                                 *)
  Window,     (* 60, or the capacity of the buffers if that is smaller     *)
  MaxTick,    (* bound on the ticks                                        *)
  MaxTime,    (* bound on the stamps                                       *)
  MaxPush     (* MaxPush[m]: bound on the pushes to series m               *)

ASSUME MetricAssumption == Metric \subseteq Nat
ASSUME WritersAssumption == Len(Writers) \in Nat \ {0}
ASSUME BoundAssumption ==
  /\ Window \in Nat \ {0} /\ MaxTick \in Nat /\ MaxTime \in Nat \ {0} /\ MaxPush \in [Metric -> Nat]

VARIABLES
  ticks,      (* the ticks so far                                          *)
  tick,       (* the ticker's channel holds a tick                         *)
  phase,      (* "running", "stopping", "draining", "stopped"              *)
  loop,       (* the goroutine: "select", "flush", "exited"                *)
  pushed,     (* pushed[m]: the stamps of all samples pushed to m          *)
  flush,      (* the flush: "none", "collect", "write"                     *)
  todo,       (* the names it has not visited                              *)
  points,     (* its points: points[m], positions in pushed[m]; a series   *)
              (* is visited once, so the slice has them name by name       *)
  left,       (* the writers it has not called                             *)
  cursors,    (* Manager.cursors, 0 for no entry                           *)
  refused,    (* refused[i]: the points of the last Write of writer i, if  *)
              (* it returned an error                                      *)
  handed,     (* history: handed[i][m], those given to writer i, in order  *)
  sent,       (* history: sent[m], the ids put into batches, in order      *)
  visited,    (* history: the length of pushed[m] at the last visit        *)
  crowded     (* history: crowded[m]: those already pushed out of the      *)
              (* window when they were first looked for                    *)

env == <<ticks, tick, pushed>>
work == <<flush, todo, points, left>>
out == <<refused, handed>>
hist == <<sent, visited, crowded>>
vars == <<env, phase, loop, work, cursors, out, hist>>

WriterIds == 1 .. Len(Writers)
Batch == [Metric -> Seq(Nat)]
NoPoints == [m \in Metric |-> <<>>]
PointsOf(ps) == \A m \in Metric : Range(ps[m]) \subseteq 1 .. Len(pushed[m])

TypeOK ==
  /\ ticks \in 0 .. MaxTick /\ tick \in BOOLEAN
  /\ phase \in {"running", "stopping", "draining", "stopped"}
  /\ loop \in {"select", "flush", "exited"}
  /\ flush \in {"none", "collect", "write"}
  /\ pushed \in [Metric -> Seq(1 .. MaxTime)] /\ \A m \in Metric : Len(pushed[m]) <= MaxPush[m]
  /\ cursors \in [Metric -> Nat] /\ \A m \in Metric : cursors[m] \in {0} \cup Range(pushed[m])
  /\ todo \subseteq Metric /\ left \in 0 .. Len(Writers)
  /\ points \in Batch /\ sent \in Batch
  /\ handed \in [WriterIds -> Batch] /\ refused \in [WriterIds -> Batch]
  /\ PointsOf(points) /\ \A i \in WriterIds : PointsOf(refused[i])
  /\ flush = "none" => points = NoPoints /\ todo = {}
  /\ visited \in [Metric -> Nat] /\ crowded \in [Metric -> SUBSET Nat]

Init ==
  /\ ticks = 0 /\ tick = FALSE
  /\ phase = "running" /\ loop = "select"
  /\ pushed = NoPoints
  /\ flush = "none" /\ todo = {} /\ points = NoPoints /\ left = 0
  /\ cursors = [m \in Metric |-> 0]
  /\ refused = [i \in WriterIds |-> NoPoints]
  /\ handed = [i \in WriterIds |-> NoPoints]
  /\ sent = NoPoints
  /\ visited = [m \in Metric |-> 0] /\ crowded = [m \in Metric |-> {}]

-----------------------------------------------------------------------------
(* The environment.                                                        *)

Tick ==
  /\ loop # "exited" /\ ~tick /\ ticks < MaxTick
  /\ tick' = TRUE /\ ticks' = ticks + 1
  /\ UNCHANGED <<pushed, phase, loop, work, cursors, out, hist>>

\* A push of a round that began at s.
Produce(m, s) ==
  /\ phase = "running"
  /\ Len(pushed[m]) < MaxPush[m]
  /\ pushed' = [pushed EXCEPT ![m] = Append(@, s)]
  /\ UNCHANGED <<ticks, tick, phase, loop, work, cursors, out, hist>>

-----------------------------------------------------------------------------
(* flush                                                                   *)

\* store.Names(): a series exists from its first push on.
Names == {m \in Metric : pushed[m] # <<>>}

StartFlush ==
  /\ flush' = "collect"
  /\ todo' = Names
  /\ points' = NoPoints
  /\ left' = Len(Writers)

\* The positions of what store.Last(m, 60) returns, oldest first.
LastIds(m) ==
  LET n == Len(pushed[m])
      k == IF n > Window THEN Window ELSE n
  IN  [i \in 1 .. k |-> n - k + i]

\* The loop over them, which skips some: kept[k] is what it has appended after
\* the first k.
Kept(ids, keep) ==
  LET kept[k \in 0 .. Len(ids)] ==
        IF k = 0 THEN <<>>
        ELSE IF ids[k] \in keep THEN Append(kept[k - 1], ids[k]) ELSE kept[k - 1]
  IN  kept

\* Slip: a sample of the second of the cursor is sent again.
FreshLoose(m) ==
  LET newer == {i \in 1 .. Len(pushed[m]) : pushed[m][i] >= cursors[m]}
  IN  Kept(LastIds(m), newer)[Len(LastIds(m))]

Fresh(m) ==
  LET newer == {i \in 1 .. Len(pushed[m]) : pushed[m][i] > cursors[m]}
  IN  Kept(LastIds(m), newer)[Len(LastIds(m))]

\* Slip: one cursor for all series.
NewCursorShared(m) == Max(UNION {Range(pushed[n]) : n \in Metric})

\* Slip: the cursor moves past the newest sample.
NewCursorPast(m) == pushed[m][Len(pushed[m])] + 1

NewCursor(m) ==
  LET newest == pushed[m][Len(pushed[m])]
  IN  IF newest > cursors[m] THEN newest ELSE cursors[m]

Visit(m) ==
  /\ flush = "collect" /\ m \in todo /\ \A n \in todo : m <= n
  /\ todo' = todo \ {m}
  /\ points' = [points EXCEPT ![m] = Fresh(m)]
  /\ cursors' = [cursors EXCEPT ![m] = NewCursor(m)]
  /\ sent' = [sent EXCEPT ![m] = @ \o Fresh(m)]
  /\ visited' = [visited EXCEPT ![m] = Len(pushed[m])]
  /\ crowded' = [crowded EXCEPT ![m] = @ \cup (visited[m] + 1 .. Len(pushed[m]) - Window)]
  /\ UNCHANGED <<env, phase, loop, flush, left, out>>

\* What follows a flush: the loop selects again, or Stop returns.
Return ==
  /\ flush' = "none" /\ todo' = {} /\ points' = NoPoints /\ left' = 0
  /\ IF loop = "flush" THEN loop' = "select" /\ UNCHANGED phase
                       ELSE phase' = "stopped" /\ UNCHANGED loop

Collected ==
  /\ flush = "collect" /\ todo = {}
  /\ \/ points = NoPoints /\ Return
     \/ points # NoPoints /\ flush' = "write" /\ UNCHANGED <<todo, points, left, phase, loop>>
  /\ UNCHANGED <<env, cursors, out, hist>>

Turn == Len(Writers) - left + 1

Extended(ps) == [m \in Metric |-> ps[m] \o points[m]]

\* Slip: the first error keeps the batch from the writers that follow.
WriteOrGiveUp(ok) ==
  /\ flush = "write" /\ left > 0
  /\ handed' = [handed EXCEPT ![Turn] = Extended(@)]
  /\ refused' = [refused EXCEPT ![Turn] = IF ok THEN NoPoints ELSE points]
  /\ left' = IF ok THEN left - 1 ELSE 0
  /\ UNCHANGED <<env, phase, loop, flush, todo, points, cursors, hist>>

Write(ok) ==
  /\ flush = "write" /\ left > 0
  /\ handed' = [handed EXCEPT ![Turn] = Extended(@)]
  /\ refused' = [refused EXCEPT ![Turn] = IF ok THEN NoPoints ELSE points]
  /\ left' = left - 1
  /\ UNCHANGED <<env, phase, loop, flush, todo, points, cursors, hist>>

EndFlush ==
  /\ flush = "write" /\ left = 0
  /\ Return
  /\ UNCHANGED <<env, cursors, out, hist>>

FlushStep ==
  \/ \E m \in Metric : Visit(m)
  \/ Collected
  \/ \E ok \in BOOLEAN : Write(ok)
  \/ EndFlush

-----------------------------------------------------------------------------
(* The goroutine and Stop.                                                 *)

TakeTick ==
  /\ loop = "select" /\ tick
  /\ tick' = FALSE
  /\ loop' = "flush"
  /\ StartFlush
  /\ UNCHANGED <<ticks, pushed, phase, cursors, out, hist>>

LoopExit ==
  /\ loop = "select" /\ phase = "stopping"
  /\ loop' = "exited"
  /\ UNCHANGED <<env, phase, work, cursors, out, hist>>

Stop ==
  /\ phase = "running"
  /\ phase' = "stopping"
  /\ UNCHANGED <<env, loop, work, cursors, out, hist>>

\* Slip: Stop does not flush.
FinalFlushMissing ==
  /\ phase = "stopping" /\ loop = "exited"
  /\ phase' = "stopped"
  /\ UNCHANGED <<env, loop, work, cursors, out, hist>>

FinalFlush ==
  /\ phase = "stopping" /\ loop = "exited"
  /\ phase' = "draining"
  /\ StartFlush
  /\ UNCHANGED <<env, loop, cursors, out, hist>>

Next ==
  \/ Tick
  \/ \E m \in Metric, s \in 1 .. MaxTime : Produce(m, s)
  \/ FlushStep
  \/ TakeTick \/ LoopExit \/ Stop \/ FinalFlush

Spec == Init /\ [][Next]_vars

-----------------------------------------------------------------------------
\* A sample with an earlier stamp was pushed after this one: the clock was set
\* back, or another producer of the series had read it before.
SetBack(m, id) == \E k \in id + 1 .. Len(pushed[m]) : pushed[m][k] < pushed[m][id]

\* The samples of a series are sent in the order they were pushed, each at most
\* once, although samples arrive while the flush goes on; only a sample that an
\* earlier stamp follows may be sent again, against "to avoid re-sending"
\* (writer.go:51).
InOrderAtMostOnce ==
  \A m \in Metric : \A i, j \in 1 .. Len(sent[m]) :
    i < j => sent[m][i] < sent[m][j] \/ SetBack(m, sent[m][j])

\* A sample pushed before with the same or a later stamp was sent.
Overtaken(m, id) == \E j \in Range(sent[m]) : j < id /\ pushed[m][j] >= pushed[m][id]

\* The only samples that a flush leaves behind for good are those it finds
\* pushed out of its window and those stamped no later than one already sent
\* (writer.go:121-126); in particular no sample is lost because it was pushed
\* during a flush, or because a Write failed for another writer.
LossesExplained ==
  \A m \in Metric : \A id \in 1 .. visited[m] :
    id \in Range(sent[m]) \/ id \in crowded[m] \/ Overtaken(m, id)

\* When Stop returns, every sample that was pushed has been looked at: the
\* final flush leaves nothing behind (writer.go:106, "drain remaining samples").
DrainedAtStop ==
  phase = "stopped" => \A m \in Metric : visited[m] = Len(pushed[m])

\* Between flushes every writer has been handed, of each series and in order,
\* exactly the points that the cursors were moved for, whichever Write failed
\* (writer.go:148-154).
SameBatches == flush = "none" => \A i \in WriterIds : handed[i] = sent

-----------------------------------------------------------------------------
\* writer.go:31-33: after a failed Write, "the Manager will log and retry on
\* the next flush interval": the next batch contains what was refused.
RetriedNextFlush ==
  flush = "write" =>
    \A i \in WriterIds, m \in Metric : i >= Turn => Range(refused[i][m]) \subseteq Range(points[m])
=============================================================================
