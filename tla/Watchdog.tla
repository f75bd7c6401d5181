------------------------------ MODULE Watchdog ------------------------------
(***************************************************************************)
(* The watchdog of selfmon.Monitor: components register a callback and     *)
(* send heartbeats; a loop looks at all of them on every tick and calls    *)
(* back for those not heard of for longer than a timeout.  The mutex is    *)
(* given up while the callback is started.                                 *)
(*                                                                         *)
(* There are two timeouts.  A component registers with one, and beats      *)
(* within it; the check goes by another, the argument of StartWatchdog.    *)
(* Time is measured by ages, which stop counting beyond the longer one.    *)
(***************************************************************************)
EXTENDS Integers

CONSTANTS
  Component,
  Registered,     (* Registered[c]: c is to beat within it                 *)
  Timeouts,       (* given to StartWatchdog; 0 is that of a missing key    *)
  Default,        (* the timeout of those without one, 60 s                *)
  Interval,       (* between two checks                                    *)
  Registers,      (* the components that call RegisterWatchdog             *)
  Beats           (* the components that call Heartbeat                    *)

ASSUME TimeoutAssumption ==
  /\ Registered \in [Component -> Nat \ {0}]
  /\ Timeouts \in [Component -> Int] /\ Default \in Nat \ {0}
ASSUME IntervalAssumption == Interval \in Nat \ {0}
ASSUME UseAssumption == Registers \subseteq Component /\ Beats \subseteq Component

VARIABLES
  cbs,        (* the components with a callback                            *)
  seen,       (* the keys of lastSeen                                      *)
  age,        (* age[c]: since lastSeen[c]                                 *)
  since,      (* history: since the last callback for c                    *)
  alive,      (* alive[c]: c is not stuck                                  *)
  hung,       (* history: those that were since their last callback        *)
  phase,      (* of the ticker: time since its last tick                   *)
  tick,       (* its channel holds a tick                                  *)
  loop,       (* "off", "wait", "check"; "call", "reset" without the mutex *)
  todo,       (* the entries the check has still to visit                  *)
  silent,     (* the entry that was found silent, a set of at most one     *)
  called      (* callbacks started and not run                             *)

table == <<cbs, seen>>
timing == <<age, since, phase, tick>>
checking == <<loop, todo, silent>>
health == <<alive, hung>>
wvars == <<table, timing, health, checking, called>>

\* The timeout that the check goes by.
timeout(c) == IF Timeouts[c] <= 0 THEN Default ELSE Timeouts[c]

\* The check gives c the time that c registered with, or more.
Granted(c) == Registered[c] <= timeout(c)

Expired(c) == 1 + (IF Granted(c) THEN timeout(c) ELSE Registered[c])

WTypeOK ==
  /\ cbs \subseteq seen /\ seen \subseteq Component
  /\ age \in [Component -> Nat] /\ since \in [Component -> Nat]
  /\ \A c \in Component : age[c] <= Expired(c) /\ since[c] <= Expired(c)
  /\ alive \in [Component -> BOOLEAN]
  /\ phase \in 0 .. Interval - 1 /\ tick \in BOOLEAN
  /\ loop \in {"off", "wait", "check", "call", "reset"}
  /\ loop \in {"call", "reset"} <=> silent # {}
  /\ todo \subseteq seen /\ silent \subseteq seen \ todo
  /\ called \subseteq Component /\ hung \subseteq Component

WInit ==
  /\ cbs = {} /\ seen = {}
  /\ age = [c \in Component |-> 0] /\ since = [c \in Component |-> Expired(c)]
  /\ alive = [c \in Component |-> TRUE] /\ hung = {}
  /\ phase = 0 /\ tick = FALSE
  /\ loop = "off" /\ todo = {} /\ silent = {} /\ called = {}

-----------------------------------------------------------------------------
Older(a) == [c \in Component |-> IF a[c] < Expired(c) THEN a[c] + 1 ELSE a[c]]

\* Components that are not stuck beat within the timeout they registered with.
Advance ==
  /\ \A c \in seen \cap Beats : alive[c] => age[c] < Registered[c]
  /\ age' = Older(age) /\ since' = Older(since)
  /\ phase' = (phase + 1) % Interval
  /\ tick' = (tick \/ (loop # "off" /\ phase' = 0))
  /\ UNCHANGED <<table, health, checking, called>>

\* lastSeen[c] is set, with the mutex.  A check that has given it up visits an
\* entry made meanwhile or not, as the iteration over a map does.
See(c) ==
  /\ loop # "check"
  /\ seen' = seen \cup {c}
  /\ age' = [age EXCEPT ![c] = 0]
  /\ todo' \in {todo} \cup {todo \cup ({c} \ seen) : l \in {loop} \cap {"call", "reset"}}
  /\ UNCHANGED <<since, phase, tick, health, loop, silent, called>>

\* d is the timeout, of which the code makes no use.
RegisterWatchdog(c, d) ==
  /\ c \in Registers \ cbs
  /\ cbs' = cbs \cup {c}
  /\ See(c)

Heartbeat(c) ==
  /\ c \in Beats /\ alive[c]
  /\ See(c)
  /\ UNCHANGED cbs

Hang(c) ==
  /\ alive[c]
  /\ alive' = [alive EXCEPT ![c] = FALSE]
  /\ hung' = hung \cup {c}
  /\ UNCHANGED <<table, timing, checking, called>>

\* The goroutine of the callback.
Restart(c) ==
  /\ c \in called
  /\ called' = called \ {c}
  /\ alive' = [alive EXCEPT ![c] = TRUE]
  /\ UNCHANGED <<table, timing, hung, checking>>

-----------------------------------------------------------------------------
StartWatchdog ==
  /\ loop = "off"
  /\ loop' = "wait"
  /\ UNCHANGED <<table, timing, health, todo, silent, called>>

BeginCheck ==
  /\ loop = "wait" /\ tick
  /\ tick' = FALSE
  /\ loop' = "check" /\ todo' = seen
  /\ UNCHANGED <<table, age, since, phase, health, silent, called>>

\* Slip: an entry just as old as the timeout is taken for silent.
SilentAtTimeout(c) == age[c] >= timeout(c)

Silent(c) == age[c] > timeout(c)

\* Slip: the check goes on without taking the mutex again.
VisitGoesOn(c) ==
  /\ loop = "check" /\ c \in todo
  /\ todo' = todo \ {c}
  /\ silent' = IF Silent(c) THEN {c} ELSE silent
  /\ UNCHANGED <<table, timing, health, loop, called>>

\* An entry is looked at with the mutex held.
Visit(c) ==
  /\ loop = "check" /\ c \in todo
  /\ todo' = todo \ {c}
  /\ IF Silent(c) THEN loop' = "call" /\ silent' = {c} ELSE UNCHANGED <<loop, silent>>
  /\ UNCHANGED <<table, timing, health, called>>

\* Slip: the test for a callback is the wrong way round.
CallInverted(c) ==
  /\ loop = "call" /\ c \in silent
  /\ loop' = "reset"
  /\ called' = called \cup ({c} \ cbs)
  /\ UNCHANGED <<table, timing, health, todo, silent>>

\* go cb(), unless there is none.
Call(c) ==
  /\ loop = "call" /\ c \in silent
  /\ loop' = "reset"
  /\ called' = called \cup ({c} \cap cbs)
  /\ since' = IF c \in cbs THEN [since EXCEPT ![c] = 0] ELSE since
  /\ hung' = IF c \in cbs /\ alive[c] THEN hung \ {c} ELSE hung
  /\ UNCHANGED <<table, age, phase, tick, alive, todo, silent>>

\* The mutex is taken again.
Reset(c) ==
  /\ loop = "reset" /\ c \in silent
  /\ loop' = "check" /\ silent' = {}
  /\ age' = [age EXCEPT ![c] = 0]
  /\ UNCHANGED <<table, since, phase, tick, health, todo, called>>

EndCheck ==
  /\ loop = "check" /\ todo = {}
  /\ loop' = "wait"
  /\ UNCHANGED <<table, timing, health, todo, silent, called>>

Loop ==
  \/ BeginCheck \/ EndCheck
  \/ \E c \in Component : Visit(c) \/ Call(c) \/ Reset(c)

WNext ==
  \/ Advance \/ StartWatchdog \/ Loop
  \/ \E c \in Component :
       RegisterWatchdog(c, Registered[c]) \/ Heartbeat(c) \/ Hang(c) \/ Restart(c)

WSpec == WInit /\ [][WNext]_wvars

\* Time passes; the loop and the goroutines of the callbacks are scheduled;
\* components beat while they are not stuck, which lets time pass.
WFairSpec ==
  /\ WSpec
  /\ WF_wvars(Advance) /\ WF_wvars(StartWatchdog) /\ WF_wvars(Loop)
  /\ \A c \in Component :
       WF_wvars(Restart(c)) /\ WF_wvars(age[c] > 0 /\ Heartbeat(c))

-----------------------------------------------------------------------------
\* No component is called back twice within the timeout of the check, and one that
\* beats as it registered only if it hung since the callback before, however long
\* the check takes and whatever happens while the mutex is given up: lastSeen is
\* reset "so we don't fire repeatedly" (monitor.go:98-107).  The second holds only
\* of those whose time is granted: what is passed to RegisterWatchdog is ignored
\* (monitor.go:69-74, 94-97), and one that the check gives less time is called
\* back though it beats.
OnlyStuckIsCalled ==
  [][\A c \in Component : since'[c] < since[c] =>
       /\ since[c] > timeout(c)
       /\ c \in Beats /\ Granted(c) => c \in hung]_wvars

\* A registered component that is stuck is restarted, each time, with whichever
\* timeout the check goes by (monitor.go:67-68, 94-104).
StuckIsRestarted == \A c \in Component : c \in cbs /\ ~alive[c] ~> alive[c]
=============================================================================
