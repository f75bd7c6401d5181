---------------------------- MODULE AlertEngine ----------------------------
(***************************************************************************)
(* alert.Engine: a goroutine that on every tick runs each rule's state     *)
(* machine against the latest sample of its metric.  The mutex is held for *)
(* a whole evaluation, but the store is not frozen: between two rules of   *)
(* one evaluation the collector may push, and time goes on.  Stop closes a *)
(* channel and waits for the goroutine.                                    *)
(***************************************************************************)
EXTENDS Integers, Sequences

CONSTANTS
  Rule,         (* the names of the rules                                  *)
  Def,          (* Def[r]: metric, op, threshold and forDuration of r      *)
  Metric,
  Value,        (* the values of samples                                   *)
  NoSample,     (* Latest returned ok = false                              *)
  Interval,     (* period of the ticker                                    *)
  EventCap,     (* capacity of eventCh, 64 in the code                     *)
  MaxTime       (* bound on the clock                                      *)

Ops == {"gt", "gte", "lt", "lte"}

ASSUME DefAssumption ==
  Def \in [Rule -> [metric : Metric, op : Ops, threshold : Int, forDuration : Nat]]
ASSUME ValueAssumption == Value \subseteq Int /\ NoSample \notin Value
ASSUME BoundAssumption ==
  /\ Interval \in Nat \ {0}
  /\ EventCap \in Nat
  /\ MaxTime \in Nat \ {0}

VARIABLES
  phase,      (* of the owner: "setup", "running", "stopping", "stopped"   *)
  loop,       (* the goroutine: "none", "select", "eval", "exited"         *)
  clock,      (* monotonic time; 0 is the zero time.Time                   *)
  tick,       (* the ticker's channel, of capacity one, holds a tick       *)
  now,        (* the local now of evaluate                                 *)
  todo,       (* the rules the running evaluation has not visited          *)
  latest,     (* latest[m]: what store.Latest(m) returns                   *)
  rules,      (* the keys of Engine.states                                 *)
  rs,         (* rs[r]: the ruleState of r                                 *)
  queued,     (* length of eventCh; nobody in the agent receives from it   *)
  notices,    (* notices[r]: the calls of e.notify for r, in order         *)
  lastClear   (* history: when r was last evaluated with a false condition *)

time == <<clock, tick>>
alerts == <<rs, queued, notices, lastClear>>
vars == <<phase, loop, time, now, todo, latest, rules, alerts>>

ZeroTime == 0
Stamp == 0 .. MaxTime

RuleStates == [current : {"ok", "pending", "firing"}, pendingSince : Stamp,
               firedAt : Stamp, lastValue : Int]
FreshState == [current |-> "ok", pendingSince |-> ZeroTime,
               firedAt |-> ZeroTime, lastValue |-> 0]

TypeOK ==
  /\ phase \in {"setup", "running", "stopping", "stopped"}
  /\ loop \in {"none", "select", "eval", "exited"}
  /\ clock \in 1 .. MaxTime /\ tick \in BOOLEAN /\ now \in Stamp
  /\ rules \subseteq Rule /\ todo \subseteq rules
  /\ latest \in [Metric -> Value \cup {NoSample}]
  /\ rs \in [Rule -> RuleStates]
  /\ queued \in 0 .. EventCap
  /\ notices \in [Rule -> Seq({"firing", "resolved"})]
  /\ lastClear \in [Rule -> Stamp]

Init ==
  /\ phase = "setup" /\ loop = "none"
  /\ clock = 1 /\ tick = FALSE /\ now = ZeroTime
  /\ rules = {} /\ todo = {}
  /\ latest = [m \in Metric |-> NoSample]
  /\ rs = [r \in Rule |-> FreshState]
  /\ queued = 0
  /\ notices = [r \in Rule |-> <<>>]
  /\ lastClear = [r \in Rule |-> ZeroTime]

-----------------------------------------------------------------------------
(* The owner: main.                                                        *)

AddRule(r) ==
  /\ phase = "setup"
  /\ rules' = rules \cup {r}
  /\ rs' = [rs EXCEPT ![r] = FreshState]
  /\ UNCHANGED <<phase, loop, time, now, todo, latest, queued, notices, lastClear>>

Start ==
  /\ phase = "setup"
  /\ phase' = "running" /\ loop' = "select"
  /\ UNCHANGED <<time, now, todo, latest, rules, alerts>>

\* close(stopCh)
Stop ==
  /\ phase = "running"
  /\ phase' = "stopping"
  /\ UNCHANGED <<loop, time, now, todo, latest, rules, alerts>>

\* Slip: Stop returns without wg.Wait().
StopNoWait ==
  /\ phase = "stopping"
  /\ phase' = "stopped"
  /\ UNCHANGED <<loop, time, now, todo, latest, rules, alerts>>

\* wg.Wait() returns.
StopReturns ==
  /\ phase = "stopping" /\ loop = "exited"
  /\ phase' = "stopped"
  /\ UNCHANGED <<loop, time, now, todo, latest, rules, alerts>>

-----------------------------------------------------------------------------
(* The environment: time, the ticker, and whoever pushes samples.          *)

\* The ticker of the loop fires every Interval after Start and drops the
\* tick when the last one was not taken.
Advance ==
  /\ phase # "setup" /\ clock < MaxTime
  /\ clock' = clock + 1
  /\ tick' = (tick \/ (loop \in {"select", "eval"} /\ clock % Interval = 0))
  /\ UNCHANGED <<phase, loop, now, todo, latest, rules, alerts>>

Collect(m, v) ==
  /\ latest' = [latest EXCEPT ![m] = v]
  /\ UNCHANGED <<phase, loop, time, now, todo, rules, alerts>>

-----------------------------------------------------------------------------
(* The goroutine.                                                          *)

\* case <-ticker.C, up to the loop over e.states.
BeginEvaluate ==
  /\ loop = "select" /\ tick
  /\ loop' = "eval" /\ tick' = FALSE
  /\ now' = clock
  /\ todo' = rules
  /\ UNCHANGED <<phase, clock, latest, rules, alerts>>

\* case <-e.stopCh: select takes either case when both are ready.
LoopExit ==
  /\ loop = "select" /\ phase \in {"stopping", "stopped"}
  /\ loop' = "exited"
  /\ UNCHANGED <<phase, time, now, todo, latest, rules, alerts>>

EndEvaluate ==
  /\ loop = "eval" /\ todo = {}
  /\ loop' = "select"
  /\ UNCHANGED <<phase, time, now, todo, latest, rules, alerts>>

OpEval(op, v, t) ==
  \/ op = "gt" /\ v > t
  \/ op = "gte" /\ v >= t
  \/ op = "lt" /\ v < t
  \/ op = "lte" /\ v <= t

Read(r) == latest[Def[r].metric]
Triggered(r) == OpEval(Def[r].op, Read(r), Def[r].threshold)

Visit(r) ==
  /\ loop = "eval" /\ r \in todo
  /\ todo' = todo \ {r}
  /\ UNCHANGED <<phase, loop, time, now, latest, rules>>

VisitData(r, isTriggered) ==
  /\ Visit(r)
  /\ Read(r) # NoSample
  /\ Triggered(r) = isTriggered
  /\ lastClear' = IF isTriggered THEN lastClear ELSE [lastClear EXCEPT ![r] = now]

\* The send on eventCh with a default case.
Emit == queued' = IF queued < EventCap THEN queued + 1 ELSE queued

Notify(r, what) == notices' = [notices EXCEPT ![r] = Append(@, what)]

NoData(r) ==
  /\ Visit(r)
  /\ Read(r) = NoSample
  /\ UNCHANGED alerts

EnterPending(r) ==
  /\ VisitData(r, TRUE)
  /\ rs[r].current = "ok"
  /\ rs' = [rs EXCEPT ![r].current = "pending", ![r].pendingSince = now,
                      ![r].lastValue = Read(r)]
  /\ Emit
  /\ UNCHANGED notices

DropPending(r) ==
  /\ VisitData(r, FALSE)
  /\ rs[r].current = "pending"
  /\ rs' = [rs EXCEPT ![r].current = "ok", ![r].pendingSince = ZeroTime,
                      ![r].lastValue = Read(r)]
  /\ Emit
  /\ UNCHANGED notices

\* Slip: the duration has to be exceeded.
DueStrict(r) ==
  Def[r].forDuration = 0 \/ now - rs[r].pendingSince > Def[r].forDuration

\* Slip: any two evaluations in a row are enough.
DueAlways(r) == now >= rs[r].pendingSince

Due(r) ==
  Def[r].forDuration = 0 \/ now - rs[r].pendingSince >= Def[r].forDuration

Fire(r) ==
  /\ VisitData(r, TRUE)
  /\ rs[r].current = "pending" /\ Due(r)
  /\ rs' = [rs EXCEPT ![r].current = "firing", ![r].firedAt = now,
                      ![r].lastValue = Read(r)]
  /\ Emit
  /\ Notify(r, "firing")

\* Slip: the end of the alert is not announced.
ResolveSilently(r) ==
  /\ VisitData(r, FALSE)
  /\ rs[r].current = "firing"
  /\ rs' = [rs EXCEPT ![r] = [FreshState EXCEPT !.lastValue = Read(r)]]
  /\ Emit
  /\ UNCHANGED notices

Resolve(r) ==
  /\ VisitData(r, FALSE)
  /\ rs[r].current = "firing"
  /\ rs' = [rs EXCEPT ![r] = [FreshState EXCEPT !.lastValue = Read(r)]]
  /\ Emit
  /\ Notify(r, "resolved")

\* No transition: only the value is recorded.
Stay(r) ==
  /\ \/ VisitData(r, FALSE) /\ rs[r].current = "ok"
     \/ VisitData(r, TRUE) /\ rs[r].current = "pending" /\ ~Due(r)
     \/ VisitData(r, TRUE) /\ rs[r].current = "firing"
  /\ rs' = [rs EXCEPT ![r].lastValue = Read(r)]
  /\ UNCHANGED <<queued, notices>>

Evaluate(r) ==
  \/ NoData(r) \/ Stay(r)
  \/ EnterPending(r) \/ DropPending(r) \/ Fire(r) \/ Resolve(r)

Loop ==
  \/ BeginEvaluate \/ EndEvaluate \/ LoopExit
  \/ \E r \in Rule : Evaluate(r)

Environment == Advance \/ \E m \in Metric, v \in Value : Collect(m, v)

Next ==
  \/ \E r \in Rule : AddRule(r)
  \/ Start \/ Stop \/ StopReturns
  \/ Loop
  \/ Environment

Spec == Init /\ [][Next]_vars

-----------------------------------------------------------------------------
\* A rule fires only after its condition was true at every evaluation during
\* at least ForDuration: no evaluation since pendingSince found it false
\* (engine.go:89, "how long the condition must hold before transitioning").
FiringWasHeld ==
  \A r \in Rule :
    /\ rs[r].current # "ok" => lastClear[r] < rs[r].pendingSince
    /\ rs[r].current = "firing" =>
         rs[r].firedAt - rs[r].pendingSince >= Def[r].forDuration

\* A rule that is visited while its condition has held for ForDuration does
\* not stay Pending, however late the tick was taken: what is still Pending
\* entered in this very evaluation or is not due (engine.go:273-285).
NoneOverdue ==
  \A r \in rules \ todo :
    rs[r].current = "pending" =>
      \/ rs[r].pendingSince = now
      \/ now - rs[r].pendingSince < Def[r].forDuration

Life == INSTANCE AlertLifecycle WITH
  state <- [r \in Rule |-> rs[r].current], told <- notices

\* Every rule lives the life of the package comment (engine.go:3-7), and the
\* engine announces exactly its entries into Firing and its returns from it.
Lifecycle == Life!Spec

\* Once Stop has returned, no rule changes state and nothing is announced: the
\* goroutine is waited for, also when it was inside evaluate (engine.go:176-179).
QuietAfterStop == [][phase = "stopped" => UNCHANGED alerts]_vars

=============================================================================
