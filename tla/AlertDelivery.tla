--------------------------- MODULE AlertDelivery ---------------------------
(***************************************************************************)
(* The alert engine with its notifier as main builds it: every call of     *)
(* e.notify spawns a goroutine that runs MultiNotifier.Notify over the     *)
(* log, Slack and e-mail notifiers in turn.  The goroutines are not waited *)
(* for by Stop, and they die with the process.                             *)
(***************************************************************************)
EXTENDS AlertEngine, FiniteSets, Functions

CONSTANT Configurations   (* sets of the notifiers whose flags are set: what *)
                          (* the operator may choose                         *)

ASSUME ConfigurationsAssumption ==
  Configurations \subseteq SUBSET {"slack", "email"}

VARIABLES
  configured, (* the choice of the operator                                *)
  process,   (* "up", "panicked" or "exited" (main returned)               *)
  job        (* job[r][k]: the goroutine of the k-th notification of r     *)

dvars == <<vars, configured, process, job>>

-----------------------------------------------------------------------------
(* NewMultiNotifier: what main passes are pointers in an interface.        *)

NilInterface == [type |-> "none", nilPointer |-> TRUE]

\* NewSlackNotifier and NewEmailNotifier return a nil pointer of their type
\* when they are not configured; as a Notifier it is not the nil interface.
Entry(c) == [type |-> c, nilPointer |-> c \notin configured \cup {"log"}]

\* The loop of NewMultiNotifier keeps what is not nil.
NonNil(n) == IF n = NilInterface THEN <<>> ELSE <<n>>

\* Slip: e-mail, which may hang, comes before Slack.
NotifiersEmailFirst ==
  NonNil(Entry("log")) \o NonNil(Entry("email")) \o NonNil(Entry("slack"))

Notifiers ==
  NonNil(Entry("log")) \o NonNil(Entry("slack")) \o NonNil(Entry("email"))

NewJob == [stage |-> 1, tried |-> <<>>]

DInit ==
  /\ Init
  /\ configured \in Configurations
  /\ process = "up" /\ job = [r \in Rule |-> <<>>]

\* Slip: leaving Pending spawns a goroutine as well.
SpawnedOften == [r \in Rule |->
  IF rs'[r].current # rs[r].current THEN Append(job[r], NewJob) ELSE job[r]]

Spawned == [r \in Rule |->
  IF Len(notices'[r]) > Len(notices[r]) THEN Append(job[r], NewJob) ELSE job[r]]

Finished(r, k) == job[r][k].stage > Len(Notifiers)

\* Slip: Notify is called without go, so evaluate goes on when it returned.
CarriedSync ==
  /\ process = "up"
  /\ loop = "eval" => \A r \in Rule : \A k \in 1 .. Len(job[r]) : Finished(r, k)
  /\ job' = Spawned
  /\ UNCHANGED <<configured, process>>

\* What a step of the engine does to the goroutines: go func() { ... }().
Carried ==
  /\ process = "up"
  /\ job' = Spawned
  /\ UNCHANGED <<configured, process>>

EngineStep == Next /\ Carried

\* The notifier whose turn it is in the loop of MultiNotifier.Notify.
Turn(r, k) == Notifiers[job[r][k].stage]

\* The outcomes of a call of Notify: the log notifier prints and cannot fail;
\* the others read the fields of their receiver, and fail like their service.
LogNotify(n) == {"ok"}
SlackNotify(n) == IF n.nilPointer THEN {"panic"} ELSE {"ok", "error"}
EmailNotify(n) == IF n.nilPointer THEN {"panic"} ELSE {"ok", "error"}

Outcomes(n) ==
  CASE n.type = "log" -> LogNotify(n)
    [] n.type = "slack" -> SlackNotify(n)
    [] n.type = "email" -> EmailNotify(n)

\* The panic of a goroutine ends the process.
Panic(r, k) ==
  /\ process = "up" /\ ~Finished(r, k)
  /\ "panic" \in Outcomes(Turn(r, k))
  /\ process' = "panicked"
  /\ UNCHANGED <<vars, configured, job>>

\* The notifier returns; the loop goes on whether it failed or not, and the
\* error it leads to is only logged.
Try(r, k) ==
  /\ process = "up" /\ ~Finished(r, k)
  /\ \E outcome \in Outcomes(Turn(r, k)) : outcome # "panic"
  /\ job' = [job EXCEPT ![r][k] =
       [stage |-> @.stage + 1, tried |-> Append(@.tried, Turn(r, k).type)]]
  /\ UNCHANGED <<vars, configured, process>>

\* main returns after its deferred calls: the process ends with every
\* goroutine that is still in a notifier.
Exit ==
  /\ process = "up" /\ phase = "stopped"
  /\ process' = "exited"
  /\ UNCHANGED <<vars, configured, job>>

Deliver(r, k) == Panic(r, k) \/ Try(r, k)

DNext ==
  \/ EngineStep
  \/ \E r \in Rule : \E k \in 1 .. Len(job[r]) : Deliver(r, k)
  \/ Exit

DSpec == DInit /\ [][DNext]_dvars

\* Every notification takes an evaluation, and the first evaluation none.
Serial == 1 .. MaxTime - 2

InTurn(r, k) == k \in 1 .. Len(job[r]) /\ ~Finished(r, k)

\* The log notifier prints, and the Slack client has a timeout of ten seconds;
\* smtp.SendMail has none, so the e-mail notifier may never return.
Prompt(r, k) ==
  InTurn(r, k) /\ Turn(r, k).type \in {"log", "slack"} /\ Deliver(r, k)

LoopStep == Loop /\ Carried
ExitStep == LoopExit /\ Carried
WaitStep == StopReturns /\ Carried

\* The engine's goroutine is scheduled; a select that finds stopCh closed again
\* and again takes that case in the end (Go picks uniformly among the ready
\* cases); Wait returns once the goroutine has exited.
DFairness ==
  /\ WF_dvars(LoopStep) /\ SF_dvars(ExitStep) /\ WF_dvars(WaitStep)
  /\ \A r \in Rule : \A k \in Serial : WF_dvars(Prompt(r, k))

DFairSpec == DSpec /\ DFairness

-----------------------------------------------------------------------------
DTypeOK ==
  /\ TypeOK
  /\ configured \in Configurations
  /\ process \in {"up", "panicked", "exited"}
  /\ \A r \in Rule :
       /\ Len(job[r]) = Len(notices[r])
       /\ \A k \in 1 .. Len(job[r]) : job[r][k].stage \in 1 .. Len(Notifiers) + 1

\* Every notification reaches the log, and Slack where that is configured,
\* although an e-mail of an earlier one never returns and whatever fails,
\* unless the process ends first (engine.go:312, notifier.go:40-51).
\* Time is bounded, so notifications are: there is a last one, and after it
\* all of them have arrived.
SlackReached ==
  []<>(\/ process # "up"
       \/ \A r \in Rule : \A k \in 1 .. Len(job[r]) :
            {"log"} \cup (configured \cap {"slack"}) \subseteq Range(job[r][k].tried))

\* Stop returns although a notification hangs in smtp.SendMail, unless a
\* notifier panics (engine.go:176-179, notifier.go:241).
StopDespiteHang ==
  phase = "stopping" ~> (phase = "stopped" \/ process = "panicked")

\* notifier.go:29, "Nil entries are skipped so callers can conditionally
\* include notifiers": a notifier that is not configured is never called.
NoPanic == process # "panicked"
=============================================================================
