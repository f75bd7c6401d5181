------------------------- MODULE AlertEngineProofs -------------------------
(***************************************************************************)
(* The safety properties of the alert engine for any rules, durations,     *)
(* metrics, values and event capacity, and any bound on the clock.         *)
(***************************************************************************)
EXTENDS AlertDelivery, SequenceTheorems, TLAPS

(***************************************************************************)
(* The inductive invariant, in named parts.                                *)
(***************************************************************************)

\* The owner and the goroutine.
LoopOfPhase ==
  /\ phase = "setup" => loop = "none"
  /\ phase = "stopped" => loop = "exited"

\* No rule leaves "ok" before the loop runs.
CalmAtSetup == phase = "setup" => \A r \in Rule : rs[r].current = "ok"

\* A tick comes after the evaluation that took the tick before it.
TickIsNew == now <= clock /\ (tick => now < clock)

\* The evaluation that goes on has not yet looked at the rules in todo.
ClearBefore ==
  \A r \in Rule :
    /\ lastClear[r] <= now
    /\ loop = "eval" /\ r \in todo => lastClear[r] < now

\* A rule is pending since an evaluation that has begun.
PendingBefore == \A r \in Rule : rs[r].current # "ok" => rs[r].pendingSince <= now

\* A rule has left "ok" on data, and a series keeps its latest sample.
DataSeen == \A r \in Rule : rs[r].current # "ok" => Read(r) # NoSample

IInv ==
  /\ TypeOK
  /\ LoopOfPhase /\ CalmAtSetup /\ TickIsNew
  /\ ClearBefore /\ PendingBefore /\ DataSeen
  /\ FiringWasHeld /\ NoneOverdue

-----------------------------------------------------------------------------
LEMMA DefOfRule ==
  ASSUME NEW r \in Rule
  PROVE  /\ Def[r].metric \in Metric
         /\ Def[r].threshold \in Int
         /\ Def[r].forDuration \in Nat
BY DefAssumption

\* What a visit that finds data reads is a value.
LEMMA ReadIsInt ==
  ASSUME TypeOK, NEW r \in Rule, Read(r) # NoSample
  PROVE  Read(r) \in Int
BY DefOfRule, ValueAssumption DEF TypeOK, Read

LEMMA FreshType == FreshState \in RuleStates /\ ZeroTime \in Stamp
BY BoundAssumption DEF FreshState, RuleStates, Stamp, ZeroTime

LEMMA InitType == Init => TypeOK
<1> SUFFICES ASSUME Init PROVE TypeOK
  OBVIOUS
<1> USE DEF Init
<1>1. clock \in 1 .. MaxTime /\ queued \in 0 .. EventCap
  BY BoundAssumption
<1>2. /\ rs \in [Rule -> RuleStates]
      /\ lastClear \in [Rule -> Stamp]
      /\ now \in Stamp
  BY FreshType
<1>3. notices \in [Rule -> Seq({"firing", "resolved"})]
  OBVIOUS
<1> QED BY <1>1, <1>2, <1>3 DEF TypeOK

\* The steps of the owner, the environment and the loop around the rules.
LEMMA FrameType ==
  ASSUME TypeOK,
         \/ \E r \in Rule : AddRule(r)
         \/ Start \/ Stop \/ StopReturns
         \/ BeginEvaluate \/ EndEvaluate \/ LoopExit
         \/ Environment
  PROVE  TypeOK'
<1> USE DEF TypeOK, vars, time, alerts
<1>1. ASSUME NEW r \in Rule, AddRule(r) PROVE TypeOK'
  <2>1. rs' \in [Rule -> RuleStates]
    BY <1>1, FreshType DEF AddRule
  <2> QED BY <1>1, <2>1 DEF AddRule
<1>2. CASE Start \/ Stop \/ StopReturns
  BY <1>2 DEF Start, Stop, StopReturns
<1>3. CASE BeginEvaluate
  <2>1. now' \in Stamp
    BY <1>3, BoundAssumption DEF BeginEvaluate, Stamp
  <2> QED BY <1>3, <2>1 DEF BeginEvaluate
<1>6. CASE EndEvaluate \/ LoopExit
  BY <1>6 DEF EndEvaluate, LoopExit
<1>4. CASE Advance
  BY <1>4, BoundAssumption DEF Advance
<1>5. ASSUME NEW m \in Metric, NEW v \in Value, Collect(m, v) PROVE TypeOK'
  BY <1>5 DEF Collect
<1> QED BY <1>1, <1>2, <1>3, <1>4, <1>5, <1>6 DEF Environment

\* What every visit of a rule leaves behind.
LEMMA VisitType ==
  ASSUME TypeOK, NEW r \in Rule, Visit(r)
  PROVE  /\ phase' \in {"setup", "running", "stopping", "stopped"}
         /\ loop' \in {"none", "select", "eval", "exited"}
         /\ clock' \in 1 .. MaxTime /\ tick' \in BOOLEAN /\ now' \in Stamp
         /\ rules' \subseteq Rule /\ todo' \subseteq rules'
         /\ latest' \in [Metric -> Value \cup {NoSample}]
BY DEF TypeOK, Visit, time

LEMMA VisitDataType ==
  ASSUME TypeOK, NEW r \in Rule, NEW b \in BOOLEAN, VisitData(r, b)
  PROVE  /\ Visit(r) /\ Read(r) \in Int
         /\ lastClear' \in [Rule -> Stamp]
BY ReadIsInt DEF TypeOK, VisitData

LEMMA EmitType ==
  ASSUME TypeOK, Emit
  PROVE  queued' \in 0 .. EventCap
BY BoundAssumption DEF TypeOK, Emit

LEMMA NotifyType ==
  ASSUME TypeOK, NEW r \in Rule, NEW what \in {"firing", "resolved"}, Notify(r, what)
  PROVE  notices' \in [Rule -> Seq({"firing", "resolved"})]
BY DEF TypeOK, Notify

LEMMA EvaluateType ==
  ASSUME TypeOK, NEW r \in Rule, Evaluate(r)
  PROVE  TypeOK'
<1>0. rs \in [Rule -> RuleStates] /\ now \in Stamp /\ ZeroTime \in Stamp
  BY BoundAssumption DEF TypeOK, Stamp, ZeroTime
<1>1. CASE NoData(r)
  BY <1>1, VisitType DEF NoData, TypeOK, alerts
<1>2. CASE Stay(r)
  <2>1. PICK b \in BOOLEAN : VisitData(r, b)
    BY <1>2 DEF Stay
  <2>2. rs' \in [Rule -> RuleStates]
    BY <1>0, <1>2, <2>1, VisitDataType DEF Stay, RuleStates
  <2> QED BY <1>2, <2>1, <2>2, VisitType, VisitDataType DEF Stay, TypeOK
<1>3. CASE EnterPending(r)
  <2>1. VisitData(r, TRUE) /\ Emit /\ UNCHANGED notices
    BY <1>3 DEF EnterPending
  <2>2. rs' \in [Rule -> RuleStates]
    BY <1>0, <1>3, <2>1, VisitDataType DEF EnterPending, RuleStates
  <2> QED BY <2>1, <2>2, VisitType, VisitDataType, EmitType DEF TypeOK
<1>4. CASE DropPending(r)
  <2>1. VisitData(r, FALSE) /\ Emit /\ UNCHANGED notices
    BY <1>4 DEF DropPending
  <2>2. rs' \in [Rule -> RuleStates]
    BY <1>0, <1>4, <2>1, VisitDataType DEF DropPending, RuleStates
  <2> QED BY <2>1, <2>2, VisitType, VisitDataType, EmitType DEF TypeOK
<1>5. CASE Fire(r)
  <2>1. VisitData(r, TRUE) /\ Emit /\ Notify(r, "firing")
    BY <1>5 DEF Fire
  <2>2. rs' \in [Rule -> RuleStates]
    BY <1>0, <1>5, <2>1, VisitDataType DEF Fire, RuleStates
  <2> QED BY <2>1, <2>2, VisitType, VisitDataType, EmitType, NotifyType DEF TypeOK
<1>6. CASE Resolve(r)
  <2>1. VisitData(r, FALSE) /\ Emit /\ Notify(r, "resolved")
    BY <1>6 DEF Resolve
  <2>2. [FreshState EXCEPT !.lastValue = Read(r)] \in RuleStates
    BY <2>1, FreshType, VisitDataType DEF RuleStates
  <2>3. rs' \in [Rule -> RuleStates]
    BY <1>0, <1>6, <2>2 DEF Resolve
  <2> QED BY <2>1, <2>3, VisitType, VisitDataType, EmitType, NotifyType DEF TypeOK
<1> QED BY <1>1, <1>2, <1>3, <1>4, <1>5, <1>6 DEF Evaluate

-----------------------------------------------------------------------------
(* What the visit of a rule does, in one formula.                          *)

\* The condition was true, and the rule moved along its life or stayed.
Held(r) ==
  /\ lastClear' = lastClear
  /\ \/ /\ rs[r].current = "ok"
        /\ rs'[r].current = "pending" /\ rs'[r].pendingSince = now
     \/ /\ rs[r].current = "pending" /\ ~Due(r)
        /\ rs'[r].current = "pending" /\ rs'[r].pendingSince = rs[r].pendingSince
     \/ /\ rs[r].current = "pending" /\ Due(r)
        /\ rs'[r].current = "firing" /\ rs'[r].pendingSince = rs[r].pendingSince
        /\ rs'[r].firedAt = now
     \/ /\ rs[r].current = "firing"
        /\ rs'[r].current = "firing" /\ rs'[r].pendingSince = rs[r].pendingSince
        /\ rs'[r].firedAt = rs[r].firedAt

Outcome(r) ==
  \/ Read(r) = NoSample /\ rs' = rs /\ lastClear' = lastClear
  \/ Read(r) # NoSample /\ rs'[r].current = "ok" /\ lastClear'[r] = now
  \/ Read(r) # NoSample /\ Held(r)

OthersStay(r) ==
  \A q \in Rule \ {r} : rs'[q] = rs[q] /\ lastClear'[q] = lastClear[q]

LEMMA VisitOutcome ==
  ASSUME TypeOK, NEW r \in Rule, Evaluate(r)
  PROVE  Visit(r) /\ Outcome(r) /\ OthersStay(r)
<1>0. rs \in [Rule -> RuleStates] /\ lastClear \in [Rule -> Stamp]
  BY DEF TypeOK
<1> USE DEF VisitData, Outcome, Held, OthersStay
<1>1. CASE NoData(r)
  BY <1>1 DEF NoData, alerts
<1>2. CASE Stay(r)
  BY <1>0, <1>2 DEF Stay, RuleStates
<1>3. CASE EnterPending(r)
  BY <1>0, <1>3 DEF EnterPending, RuleStates
<1>4. CASE DropPending(r)
  BY <1>0, <1>4 DEF DropPending, RuleStates
<1>5. CASE Fire(r)
  BY <1>0, <1>5 DEF Fire, RuleStates
<1>6. CASE Resolve(r)
  BY <1>0, <1>6 DEF Resolve, RuleStates, FreshState
<1> QED BY <1>1, <1>2, <1>3, <1>4, <1>5, <1>6 DEF Evaluate

\* The numbers that the invariant compares.
LEMMA Stamps ==
  ASSUME TypeOK, NEW q \in Rule
  PROVE  /\ lastClear[q] \in Nat /\ now \in Nat /\ clock \in Nat
         /\ rs[q].pendingSince \in Nat /\ rs[q].firedAt \in Nat
         /\ rs[q].current \in {"ok", "pending", "firing"}
         /\ Def[q].forDuration \in Nat
<1>1. rs[q] \in RuleStates /\ lastClear[q] \in Stamp /\ now \in Stamp
  BY DEF TypeOK
<1> QED BY <1>1, DefOfRule, BoundAssumption DEF TypeOK, RuleStates, Stamp

-----------------------------------------------------------------------------
(* The visit of a rule preserves the invariant.                            *)

LEMMA EvaluateKeeps ==
  ASSUME IInv, NEW r \in Rule, Evaluate(r)
  PROVE  IInv'
<1>1. TypeOK /\ TypeOK'
  BY EvaluateType DEF IInv
<1>2. Visit(r) /\ Outcome(r) /\ OthersStay(r)
  BY <1>1, VisitOutcome
<1>3. /\ loop = "eval" /\ r \in todo /\ todo' = todo \ {r}
      /\ phase' = phase /\ loop' = loop /\ clock' = clock /\ tick' = tick
      /\ now' = now /\ latest' = latest /\ rules' = rules
  BY <1>2 DEF Visit, time
<1>4. LoopOfPhase' /\ CalmAtSetup' /\ TickIsNew'
  BY <1>3 DEF IInv, LoopOfPhase, CalmAtSetup, TickIsNew
<1>5. ASSUME NEW q \in Rule, q # r
      PROVE  /\ rs'[q] = rs[q] /\ lastClear'[q] = lastClear[q]
             /\ q \in todo' <=> q \in todo
  BY <1>2, <1>3, <1>5 DEF OthersStay
<1>6. lastClear[r] < now
  BY <1>3 DEF IInv, ClearBefore
<1>7. ClearBefore'
  <2> SUFFICES ASSUME NEW q \in Rule
               PROVE  /\ lastClear'[q] <= now
                      /\ q \in todo' => lastClear'[q] < now
    BY <1>3 DEF ClearBefore
  <2>1. CASE q # r
    BY <1>3, <1>5, <2>1 DEF IInv, ClearBefore
  <2>2. CASE q = r
    <3>1. lastClear'[r] = lastClear[r] \/ lastClear'[r] = now
      BY <1>2 DEF Outcome, Held
    <3> QED BY <1>1, <1>3, <1>6, <2>2, <3>1, Stamps
  <2> QED BY <2>1, <2>2
<1>8. PendingBefore'
  <2> SUFFICES ASSUME NEW q \in Rule, rs'[q].current # "ok"
               PROVE  rs'[q].pendingSince <= now
    BY <1>3 DEF PendingBefore
  <2>1. CASE q # r
    BY <1>5, <2>1 DEF IInv, PendingBefore
  <2>2. CASE q = r
    BY <1>1, <1>2, <2>2, Stamps DEF IInv, PendingBefore, Outcome, Held
  <2> QED BY <2>1, <2>2
<1>9. DataSeen'
  <2>1. ASSUME NEW q \in Rule PROVE Read(q)' = Read(q)
    BY <1>3 DEF Read
  <2> SUFFICES ASSUME NEW q \in Rule, rs'[q].current # "ok"
               PROVE  Read(q) # NoSample
    BY <2>1 DEF DataSeen
  <2>2. CASE q # r
    BY <1>5, <2>2 DEF IInv, DataSeen
  <2>3. CASE q = r
    BY <1>2, <2>3 DEF IInv, DataSeen, Outcome
  <2> QED BY <2>2, <2>3
<1>10. FiringWasHeld'
  <2> SUFFICES ASSUME NEW q \in Rule
               PROVE  /\ rs'[q].current # "ok" => lastClear'[q] < rs'[q].pendingSince
                      /\ rs'[q].current = "firing" =>
                           rs'[q].firedAt - rs'[q].pendingSince >= Def[q].forDuration
    BY DEF FiringWasHeld
  <2>1. CASE q # r
    BY <1>5, <2>1 DEF IInv, FiringWasHeld
  <2>2. CASE q = r
    <3>1. /\ rs[r].current # "ok" => lastClear[r] < rs[r].pendingSince
          /\ rs[r].current = "firing" =>
               rs[r].firedAt - rs[r].pendingSince >= Def[r].forDuration
          /\ rs[r].current # "ok" => rs[r].pendingSince <= now
      BY DEF IInv, FiringWasHeld, PendingBefore
    <3>2. Due(r) /\ rs[r].current = "pending" =>
            now - rs[r].pendingSince >= Def[r].forDuration
      BY <1>1, <3>1, Stamps DEF Due
    <3> QED BY <1>1, <1>2, <1>6, <2>2, <3>1, <3>2, Stamps DEF Outcome, Held
  <2> QED BY <2>1, <2>2
<1>11. NoneOverdue'
  <2> SUFFICES ASSUME NEW q \in rules \ todo', rs'[q].current = "pending"
               PROVE  \/ rs'[q].pendingSince = now
                      \/ now - rs'[q].pendingSince < Def[q].forDuration
    BY <1>3 DEF NoneOverdue
  <2>0. q \in Rule
    BY <1>1 DEF TypeOK
  <2>1. CASE q # r
    BY <1>3, <1>5, <2>0, <2>1 DEF IInv, NoneOverdue
  <2>2. CASE q = r
    <3>1. ~(Read(r) = NoSample /\ rs' = rs)
      BY <2>0, <2>2 DEF IInv, DataSeen
    <3>2. ~Due(r) => now - rs[r].pendingSince < Def[r].forDuration
      BY <1>1, Stamps DEF Due
    <3> QED BY <1>2, <2>2, <3>1, <3>2 DEF Outcome, Held
  <2> QED BY <2>1, <2>2
<1> QED BY <1>1, <1>4, <1>7, <1>8, <1>9, <1>10, <1>11 DEF IInv

-----------------------------------------------------------------------------
(* The steps that visit no rule preserve it.                               *)

LEMMA AddRuleKeeps ==
  ASSUME IInv, NEW r \in Rule, AddRule(r)
  PROVE  IInv'
<1> USE DEF IInv
<1>1. TypeOK /\ TypeOK'
  BY FrameType
<1>2. /\ phase = "setup" /\ loop = "none" /\ phase' = phase /\ loop' = loop
      /\ clock' = clock /\ tick' = tick /\ now' = now /\ latest' = latest
      /\ todo' = todo /\ lastClear' = lastClear /\ rules' = rules \cup {r}
  BY DEF AddRule, LoopOfPhase, time
<1>3. \A q \in Rule : rs'[q].current = "ok"
  BY <1>1, <1>2 DEF AddRule, CalmAtSetup, TypeOK, FreshState
<1>4. LoopOfPhase' /\ CalmAtSetup' /\ TickIsNew' /\ ClearBefore'
  BY <1>2, <1>3 DEF LoopOfPhase, CalmAtSetup, TickIsNew, ClearBefore
<1>5. PendingBefore' /\ DataSeen' /\ FiringWasHeld'
  BY <1>3 DEF PendingBefore, DataSeen, FiringWasHeld
<1>6. NoneOverdue'
  BY <1>1, <1>3 DEF NoneOverdue, TypeOK
<1> QED BY <1>1, <1>4, <1>5, <1>6

LEMMA BeginEvaluateKeeps ==
  ASSUME IInv, BeginEvaluate
  PROVE  IInv'
<1> USE DEF IInv
<1>1. TypeOK /\ TypeOK'
  BY FrameType
<1>2. /\ loop = "select" /\ loop' = "eval" /\ tick' = FALSE /\ now' = clock
      /\ todo' = rules /\ rules' = rules /\ phase' = phase /\ clock' = clock
      /\ latest' = latest /\ rs' = rs /\ lastClear' = lastClear
  BY DEF BeginEvaluate, alerts
<1>3. now < clock
  BY DEF BeginEvaluate, TickIsNew
<1>4. clock \in Nat /\ now \in Nat
  BY <1>1, BoundAssumption DEF TypeOK, Stamp
<1>5. LoopOfPhase' /\ CalmAtSetup' /\ TickIsNew'
  BY <1>2, <1>4 DEF LoopOfPhase, CalmAtSetup, TickIsNew
<1>6. ClearBefore' /\ PendingBefore'
  <2> SUFFICES ASSUME NEW q \in Rule
               PROVE  /\ lastClear[q] < clock
                      /\ rs[q].current # "ok" => rs[q].pendingSince <= clock
    BY <1>1, <1>2, Stamps DEF ClearBefore, PendingBefore
  <2> QED BY <1>1, <1>3, Stamps DEF ClearBefore, PendingBefore
<1>7. DataSeen' /\ FiringWasHeld'
  BY <1>2 DEF DataSeen, FiringWasHeld, Read
<1>8. NoneOverdue'
  BY <1>2 DEF NoneOverdue
<1> QED BY <1>1, <1>5, <1>6, <1>7, <1>8

LEMMA CollectKeeps ==
  ASSUME IInv, NEW m \in Metric, NEW v \in Value, Collect(m, v)
  PROVE  IInv'
<1> USE DEF IInv
<1>1. TypeOK /\ TypeOK'
  BY FrameType DEF Environment
<1>2. DataSeen'
  BY <1>1, ValueAssumption, DefOfRule DEF Collect, DataSeen, Read, alerts, TypeOK
<1>3. /\ LoopOfPhase' /\ CalmAtSetup' /\ TickIsNew' /\ ClearBefore'
      /\ PendingBefore' /\ FiringWasHeld' /\ NoneOverdue'
  BY DEF Collect, LoopOfPhase, CalmAtSetup, TickIsNew, ClearBefore, PendingBefore,
         FiringWasHeld, NoneOverdue, time, alerts
<1> QED BY <1>1, <1>2, <1>3

\* What is left moves the clock, the owner or the loop, and no rule.
LEMMA QuietKeeps ==
  ASSUME IInv,
         \/ Start \/ Stop \/ StopReturns
         \/ EndEvaluate \/ LoopExit \/ Advance \/ UNCHANGED vars
  PROVE  IInv'
<1> USE DEF IInv
<1>1. TypeOK /\ TypeOK'
  <2>1. CASE UNCHANGED vars
    BY <2>1 DEF TypeOK, vars, time, alerts
  <2> QED BY <2>1, FrameType DEF Environment
<1>2. /\ now' = now /\ todo' = todo /\ latest' = latest /\ rules' = rules
      /\ rs' = rs /\ lastClear' = lastClear
      /\ loop' = "eval" => loop = "eval"
  BY DEF Start, Stop, StopReturns, EndEvaluate, LoopExit, Advance, vars, alerts
<1>3. TickIsNew'
  <2>1. clock \in Nat /\ now \in Nat
    BY <1>1, BoundAssumption DEF TypeOK, Stamp
  <2>2. CASE Advance
    BY <2>1, <2>2 DEF TickIsNew, Advance
  <2>3. CASE UNCHANGED time
    BY <1>2, <2>3 DEF TickIsNew, time
  <2> QED BY <2>2, <2>3 DEF Start, Stop, StopReturns, EndEvaluate, LoopExit, vars
<1>4. LoopOfPhase'
  BY DEF LoopOfPhase, Start, Stop, StopReturns, EndEvaluate, LoopExit, Advance, vars
<1>5. CalmAtSetup'
  BY <1>2 DEF CalmAtSetup, Start, Stop, StopReturns, EndEvaluate, LoopExit, Advance, vars
<1>6. ClearBefore' /\ PendingBefore' /\ DataSeen' /\ FiringWasHeld' /\ NoneOverdue'
  BY <1>2 DEF ClearBefore, PendingBefore, DataSeen, FiringWasHeld, NoneOverdue, Read
<1> QED BY <1>1, <1>3, <1>4, <1>5, <1>6

LEMMA InitInvariant == Init => IInv
<1> SUFFICES ASSUME Init PROVE IInv
  OBVIOUS
<1>1. TypeOK
  BY InitType
<1>2. LoopOfPhase /\ CalmAtSetup /\ TickIsNew /\ ClearBefore
  BY DEF Init, LoopOfPhase, CalmAtSetup, TickIsNew, ClearBefore, FreshState, ZeroTime
<1>3. PendingBefore /\ DataSeen /\ FiringWasHeld /\ NoneOverdue
  BY DEF Init, PendingBefore, DataSeen, FiringWasHeld, NoneOverdue, FreshState
<1> QED BY <1>1, <1>2, <1>3 DEF IInv

LEMMA NextInvariant == IInv /\ [Next]_vars => IInv'
<1> SUFFICES ASSUME IInv, [Next]_vars PROVE IInv'
  OBVIOUS
<1>1. ASSUME NEW r \in Rule, AddRule(r) PROVE IInv'
  BY <1>1, AddRuleKeeps
<1>2. ASSUME NEW r \in Rule, Evaluate(r) PROVE IInv'
  BY <1>2, EvaluateKeeps
<1>3. CASE BeginEvaluate
  BY <1>3, BeginEvaluateKeeps
<1>4. ASSUME NEW m \in Metric, NEW v \in Value, Collect(m, v) PROVE IInv'
  BY <1>4, CollectKeeps
<1>5. CASE \/ Start \/ Stop \/ StopReturns
           \/ EndEvaluate \/ LoopExit \/ Advance \/ UNCHANGED vars
  BY <1>5, QuietKeeps
<1> QED BY <1>1, <1>2, <1>3, <1>4, <1>5 DEF Next, Loop, Environment

\* Every reachable state has its type and the parts of the invariant.
THEOREM Invariant == Spec => []IInv
<1> QED BY InitInvariant, NextInvariant, PTL DEF Spec

-----------------------------------------------------------------------------
\* Every rule that fires was true at each evaluation over its duration, for any
\* rules and durations, any samples, and ticks that come late or not at all.
THEOREM FiresOnlyIfHeld == Spec => []FiringWasHeld
<1>1. IInv => FiringWasHeld
  BY DEF IInv
<1> QED BY <1>1, Invariant, PTL

\* No rule that is due stays Pending after it was visited.
THEOREM FiresWhenDue == Spec => []NoneOverdue
<1>1. IInv => NoneOverdue
  BY DEF IInv
<1> QED BY <1>1, Invariant, PTL

\* After Stop returned the rules and the announcements are at rest: the
\* goroutine has exited, and nothing else touches them.
THEOREM QuietOnceStopped == Spec => QuietAfterStop
<1>1. IInv /\ [Next]_vars => [phase = "stopped" => UNCHANGED alerts]_vars
  <2> SUFFICES ASSUME IInv, [Next]_vars, phase = "stopped" PROVE UNCHANGED alerts
    OBVIOUS
  <2>1. loop = "exited"
    BY DEF IInv, LoopOfPhase
  <2>2. ASSUME NEW r \in Rule, Evaluate(r) PROVE FALSE
    BY <2>1, <2>2 DEF Evaluate, NoData, Stay, EnterPending, DropPending, Fire, Resolve,
                      VisitData, Visit
  <2>3. ASSUME NEW r \in Rule, AddRule(r) PROVE FALSE
    BY <2>3 DEF AddRule
  <2>4. CASE Environment
    BY <2>4 DEF Environment, Advance, Collect
  <2> QED BY <2>1, <2>2, <2>3, <2>4
          DEF Next, Loop, Start, Stop, StopReturns, BeginEvaluate, EndEvaluate, LoopExit, vars
<1> QED BY <1>1, Invariant, PTL DEF Spec, QuietAfterStop

-----------------------------------------------------------------------------
(* The engine implements the life of an alert.                             *)

States == [r \in Rule |-> rs[r].current]

\* A visit is a step of the life of the rule it visits, or none.
LEMMA EvaluateLives ==
  ASSUME TypeOK, NEW r \in Rule, Evaluate(r)
  PROVE  [Life!Next]_<<States, notices>>
<1>0. rs \in [Rule -> RuleStates]
  BY DEF TypeOK
<1> USE DEF States, Life!Next, Life!Goto, Life!Tell
<1>1. CASE NoData(r)
  BY <1>1 DEF NoData, alerts
<1>2. CASE Stay(r)
  BY <1>0, <1>2 DEF Stay, RuleStates
<1>3. CASE EnterPending(r)
  <2>1. Life!Cross(r)
    BY <1>0, <1>3 DEF EnterPending, Life!Cross, RuleStates
  <2> QED BY <2>1
<1>4. CASE DropPending(r)
  <2>1. Life!Drop(r)
    BY <1>0, <1>4 DEF DropPending, Life!Drop, RuleStates
  <2> QED BY <2>1
<1>5. CASE Fire(r)
  <2>1. Life!Fire(r)
    BY <1>0, <1>5 DEF Fire, Notify, Life!Fire, RuleStates
  <2> QED BY <2>1
<1>6. CASE Resolve(r)
  <2>1. Life!Resolve(r)
    BY <1>0, <1>6 DEF Resolve, Notify, Life!Resolve, RuleStates, FreshState
  <2> QED BY <2>1
<1> QED BY <1>1, <1>2, <1>3, <1>4, <1>5, <1>6 DEF Evaluate

LEMMA NextLives ==
  IInv /\ [Next]_vars => [Life!Next]_<<States, notices>>
<1> SUFFICES ASSUME IInv, [Next]_vars PROVE [Life!Next]_<<States, notices>>
  OBVIOUS
<1>1. ASSUME NEW r \in Rule, Evaluate(r) PROVE [Life!Next]_<<States, notices>>
  BY <1>1, EvaluateLives DEF IInv
<1>2. ASSUME NEW r \in Rule, AddRule(r) PROVE UNCHANGED <<States, notices>>
  <2>1. rs \in [Rule -> RuleStates] /\ rs[r].current = "ok"
    BY <1>2 DEF IInv, TypeOK, CalmAtSetup, AddRule
  <2> QED BY <1>2, <2>1 DEF AddRule, States, FreshState
<1>3. CASE \/ Start \/ Stop \/ StopReturns \/ Environment
           \/ BeginEvaluate \/ EndEvaluate \/ LoopExit \/ UNCHANGED vars
  BY <1>3 DEF Start, Stop, StopReturns, Environment, Advance, Collect,
              BeginEvaluate, EndEvaluate, LoopExit, vars, alerts, States
<1> QED BY <1>1, <1>2, <1>3 DEF Next, Loop

\* Every rule lives the life that the package comment draws, and exactly its
\* entries into Firing and its returns are announced, in that order.
THEOREM EngineImplementsLife == Spec => Lifecycle
<1>1. Init => Life!Init
  BY DEF Init, Life!Init, FreshState
<1>2. IInv /\ [Next]_vars => [Life!Next]_Life!vars
  BY NextLives DEF Life!vars, States
<1> QED BY <1>1, <1>2, Invariant, PTL DEF Spec, Lifecycle, Life!Spec

-----------------------------------------------------------------------------
\* With its notifiers the engine is still the engine: the goroutines that
\* deliver, panics and the end of the process included, never touch it.  So the
\* theorems above hold of AlertDelivery.
THEOREM DeliveryIsEngine == DSpec => Spec
<1>1. DInit => Init
  BY DEF DInit
<1>2. [DNext]_dvars => [Next]_vars
  BY DEF DNext, EngineStep, Deliver, Panic, Try, Exit, dvars
<1> QED BY <1>1, <1>2, PTL DEF DSpec, Spec

(***************************************************************************)
(* The goroutines that deliver.                                            *)
(***************************************************************************)
LEMMA ThreeInARow ==
  ASSUME NEW x, NEW y, NEW z
  PROVE  LET s == (<<x>> \o <<y>>) \o <<z>>
         IN  Len(s) = 3 /\ s[1] = x /\ s[2] = y /\ s[3] = z
<1> DEFINE S == {x, y, z}
           s == <<x>> \o <<y>>
<1>1. <<x>> \in Seq(S) /\ <<y>> \in Seq(S) /\ <<z>> \in Seq(S)
  OBVIOUS
<1>2. s \in Seq(S) /\ Len(s) = 2 /\ s[1] = x /\ s[2] = y
  <2>1. /\ s \in Seq(S)
        /\ Len(s) = Len(<<x>>) + Len(<<y>>)
        /\ \A i \in 1 .. Len(<<x>>) + Len(<<y>>) :
             s[i] = IF i <= Len(<<x>>) THEN <<x>>[i] ELSE <<y>>[i - Len(<<x>>)]
    BY <1>1, ConcatProperties, Zenon
  <2> QED BY <2>1
<1> HIDE DEF s, S
<1>3. /\ Len(s \o <<z>>) = Len(s) + Len(<<z>>)
      /\ \A i \in 1 .. Len(s) + Len(<<z>>) :
           (s \o <<z>>)[i] = IF i <= Len(s) THEN s[i] ELSE <<z>>[i - Len(s)]
  BY <1>1, <1>2, ConcatProperties, Zenon
<1>4. Len(s \o <<z>>) = 3
  BY <1>2, <1>3
<1>5. (s \o <<z>>)[1] = x /\ (s \o <<z>>)[2] = y /\ (s \o <<z>>)[3] = z
  BY <1>2, <1>3
<1> QED BY <1>4, <1>5 DEF s

\* No notifier that main hands to NewMultiNotifier is skipped, configured or
\* not: a nil pointer in an interface is not the nil interface.
LEMMA NotifiersAre ==
  /\ Len(Notifiers) = 3
  /\ Notifiers[1] = Entry("log") /\ Notifiers[2] = Entry("slack") /\ Notifiers[3] = Entry("email")
<1>1. ASSUME NEW c \in {"log", "slack", "email"} PROVE NonNil(Entry(c)) = <<Entry(c)>>
  <2>1. Entry(c).type # NilInterface.type
    BY DEF Entry, NilInterface
  <2> QED BY <2>1 DEF NonNil
<1>2. Notifiers = (<<Entry("log")>> \o <<Entry("slack")>>) \o <<Entry("email")>>
  BY <1>1 DEF Notifiers
<1> QED BY <1>2, ThreeInARow

Jobs == [stage : 1 .. 4, tried : Seq({"log", "slack", "email"})]

\* Every notification has had its goroutine, and only one.
OneJobEach ==
  /\ configured \in Configurations /\ process \in {"up", "panicked", "exited"}
  /\ job \in [Rule -> Seq(Jobs)]
  /\ \A r \in Rule : Len(job[r]) = Len(notices[r])

\* The notifiers that are not configured are those that panic.
PanicIsNil == process = "panicked" => ~ {"slack", "email"} \subseteq configured

DInv == TypeOK /\ OneJobEach /\ PanicIsNil

\* A step of the engine announces at most one thing of a rule.
LEMMA NoticesGrow ==
  ASSUME TypeOK, Next, NEW r \in Rule
  PROVE  notices'[r] = notices[r] \/ \E what : notices'[r] = Append(notices[r], what)
<1>0. notices \in [Rule -> Seq({"firing", "resolved"})]
  BY DEF TypeOK
<1>1. ASSUME NEW q \in Rule, NEW what, Notify(q, what)
      PROVE  notices'[r] = notices[r] \/ notices'[r] = Append(notices[r], what)
  BY <1>0, <1>1 DEF Notify
<1>2. ASSUME NEW q \in Rule, Evaluate(q)
      PROVE  \/ notices' = notices
             \/ \E what : Notify(q, what)
  BY <1>2 DEF Evaluate, NoData, Stay, EnterPending, DropPending, Fire, Resolve, alerts
<1>3. CASE ~ \E q \in Rule : Evaluate(q)
  BY <1>3 DEF Next, AddRule, Start, Stop, StopReturns, Loop, BeginEvaluate, EndEvaluate,
              LoopExit, Environment, Advance, Collect, alerts
<1> QED BY <1>1, <1>2, <1>3

LEMMA EngineStepInv == DInv /\ EngineStep => DInv'
<1> SUFFICES ASSUME DInv, EngineStep PROVE DInv'
  OBVIOUS
<1>1. TypeOK'
  BY FrameType, EvaluateType DEF DInv, EngineStep, Next, Loop
<1>2. configured' = configured /\ process' = process /\ job' = Spawned
  BY DEF EngineStep, Carried
<1>3. NewJob \in Jobs
  BY DEF NewJob, Jobs
<1>4. ASSUME NEW r \in Rule
      PROVE  job'[r] \in Seq(Jobs) /\ Len(job'[r]) = Len(notices'[r])
  <2>1. job'[r] = IF Len(notices'[r]) > Len(notices[r]) THEN Append(job[r], NewJob) ELSE job[r]
    BY <1>2 DEF Spawned
  <2>2. job[r] \in Seq(Jobs) /\ Len(job[r]) = Len(notices[r]) /\ Len(notices[r]) \in Nat
    BY DEF DInv, OneJobEach, TypeOK
  <2>3. CASE notices'[r] = notices[r]
    BY <2>1, <2>2, <2>3
  <2>4. ASSUME NEW what, notices'[r] = Append(notices[r], what)
        PROVE  job'[r] \in Seq(Jobs) /\ Len(job'[r]) = Len(notices'[r])
    <3>1. Len(notices'[r]) = Len(notices[r]) + 1
      BY <2>4 DEF DInv, TypeOK
    <3>2. job'[r] = Append(job[r], NewJob)
      BY <2>1, <2>2, <3>1
    <3> QED BY <1>3, <2>2, <3>1, <3>2
  <2> QED BY <2>3, <2>4, NoticesGrow DEF DInv, EngineStep
<1>5. job' \in [Rule -> Seq(Jobs)]
  BY <1>2, <1>4 DEF Spawned
<1>6. OneJobEach' /\ PanicIsNil'
  BY <1>2, <1>4, <1>5 DEF DInv, OneJobEach, PanicIsNil
<1> QED BY <1>1, <1>6 DEF DInv

LEMMA DeliverInv ==
  ASSUME DInv, NEW r \in Rule, NEW k \in 1 .. Len(job[r]), Deliver(r, k)
  PROVE  DInv'
<1>1. UNCHANGED <<vars, configured>>
  BY DEF Deliver, Panic, Try
<1>2. TypeOK'
  BY <1>1 DEF DInv, TypeOK, vars, time, alerts
<1>3. job[r] \in Seq(Jobs) /\ job[r][k] \in Jobs /\ job[r][k].stage \in 1 .. 3
  <2>1. job[r] \in Seq(Jobs) /\ job[r][k] \in Jobs
    BY DEF DInv, OneJobEach
  <2>2. ~ job[r][k].stage > 3
    BY NotifiersAre DEF Deliver, Panic, Try, Finished
  <2> QED BY <2>1, <2>2 DEF Jobs
<1>4. \E c \in {"log", "slack", "email"} : Turn(r, k) = Entry(c)
  <2>1. job[r][k].stage = 1 \/ job[r][k].stage = 2 \/ job[r][k].stage = 3
    BY <1>3
  <2> QED BY <2>1, NotifiersAre DEF Turn
<1>5. CASE Panic(r, k)
  <2>1. PICK c \in {"log", "slack", "email"} : Turn(r, k) = Entry(c)
    BY <1>4
  <2>2. Turn(r, k).type = c /\ Turn(r, k).nilPointer = (c \notin configured \cup {"log"})
    BY <2>1 DEF Entry
  <2>3. c # "log" /\ Turn(r, k).nilPointer
    BY <1>5, <2>2 DEF Panic, Outcomes, LogNotify, SlackNotify, EmailNotify
  <2>4. c \notin configured
    BY <2>2, <2>3
  <2>5. PanicIsNil'
    BY <1>1, <2>3, <2>4 DEF PanicIsNil
  <2>6. OneJobEach'
    BY <1>1, <1>5 DEF Panic, DInv, OneJobEach, vars, alerts
  <2> QED BY <1>2, <2>5, <2>6 DEF DInv
<1>6. CASE Try(r, k)
  <2> DEFINE new == [stage |-> job[r][k].stage + 1,
                     tried |-> Append(job[r][k].tried, Turn(r, k).type)]
  <2>1. new \in Jobs
    <3>1. Turn(r, k).type \in {"log", "slack", "email"}
      BY <1>4 DEF Entry
    <3> QED BY <1>3, <3>1 DEF Jobs
  <2>2. job' = [job EXCEPT ![r] = [job[r] EXCEPT ![k] = new]]
    BY <1>6 DEF Try
  <2> HIDE DEF new
  <2>3. [job[r] EXCEPT ![k] = new] \in Seq(Jobs) /\ Len([job[r] EXCEPT ![k] = new]) = Len(job[r])
    BY <1>3, <2>1
  <2>4. job' \in [Rule -> Seq(Jobs)] /\ \A q \in Rule : Len(job'[q]) = Len(job[q])
    BY <2>2, <2>3 DEF DInv, OneJobEach
  <2>5. process' = process /\ notices' = notices
    BY <1>1, <1>6 DEF Try, vars, alerts
  <2>6. OneJobEach' /\ PanicIsNil'
    BY <1>1, <2>4, <2>5 DEF DInv, OneJobEach, PanicIsNil
  <2> QED BY <1>2, <2>6 DEF DInv
<1> QED BY <1>5, <1>6 DEF Deliver

LEMMA DeliveryInvariant == DSpec => []DInv
<1>1. DInit => DInv
  <2> SUFFICES ASSUME DInit PROVE DInv
    OBVIOUS
  <2>1. TypeOK
    BY InitType DEF DInit
  <2>2. OneJobEach /\ PanicIsNil
    BY DEF DInit, Init, OneJobEach, PanicIsNil
  <2> QED BY <2>1, <2>2 DEF DInv
<1>2. DInv /\ [DNext]_dvars => DInv'
  <2> SUFFICES ASSUME DInv, [DNext]_dvars PROVE DInv'
    OBVIOUS
  <2>1. CASE Exit \/ UNCHANGED dvars
    <3>1. TypeOK'
      BY <2>1 DEF Exit, dvars, DInv, TypeOK, vars, time, alerts
    <3>2. OneJobEach' /\ PanicIsNil'
      BY <2>1 DEF Exit, dvars, DInv, OneJobEach, PanicIsNil, vars, alerts
    <3> QED BY <3>1, <3>2 DEF DInv
  <2> QED BY <2>1, EngineStepInv, DeliverInv DEF DNext
<1> QED BY <1>1, <1>2, PTL DEF DSpec

\* Every notification has one goroutine, from the call of e.notify on, and it
\* never runs past the notifiers it was given (engine.go:312, notifier.go:40-51).
THEOREM DeliveryTypeCorrect == DSpec => []DTypeOK
<1>1. DInv => DTypeOK
  <2> SUFFICES ASSUME DInv, NEW r \in Rule, NEW k \in 1 .. Len(job[r])
               PROVE  job[r][k].stage \in 1 .. Len(Notifiers) + 1
    BY DEF DInv, OneJobEach, DTypeOK
  <2>1. job[r][k] \in Jobs
    BY DEF DInv, OneJobEach
  <2> QED BY <2>1, NotifiersAre DEF Jobs
<1> QED BY <1>1, DeliveryInvariant, PTL

\* With Slack and e-mail configured no notifier panics: the panics come from the
\* notifiers that are not configured, which are called nevertheless
\* (notifier.go:29-36, 97-105, main.go:76-97).
THEOREM PanicsOnlyUnconfigured == DSpec => []PanicIsNil
<1>1. DInv => PanicIsNil
  BY DEF DInv
<1> QED BY <1>1, DeliveryInvariant, PTL
=============================================================================
