------------------------- MODULE PluginLoaderProofs -------------------------
(* What plugin.Loader lets into the store, for any plugins and outputs; and *)
(* its steps are steps of a service or stutter.                            *)
EXTENDS PluginLoader, Integers, TLAPS

\* runAll returns only when every run is over.
RunsOnlyInRunAll ==
  /\ loop # "runAll" => \A f \in File : run[f].pc \in {"idle", "done"}
  /\ phase = "setup" => loop = "none" /\ \A f \in File : run[f] = Idle
  /\ phase = "stopped" => loop \in {"none", "exited"}

\* The output of a run is parsed only if the run ended before its deadline.
ParsedInTime ==
  \A f \in File :
    /\ run[f].pc = "parse" \/ run[f].pushed # 0 => ~ run[f].expired
    /\ run[f].pc \in {"idle", "exec"} => run[f].pushed = 0
    /\ run[f].lines + run[f].pushed <= MaxLines

IInv == TypeOK /\ RunsOnlyInRunAll /\ ParsedInTime

USE MaxLinesAssumption

\* The fields of a run.
LEMMA RunIs ==
  ASSUME NEW r \in Runs
  PROVE  /\ r.pc \in {"idle", "exec", "parse", "done"} /\ r.expired \in BOOLEAN
         /\ r.lines \in 0 .. MaxLines /\ r.pushed \in 0 .. MaxLines
         /\ r.lines \in Nat /\ r.pushed \in Nat
BY DEF Runs

LEMMA FreshRuns ==
  /\ Idle \in Runs /\ Started \in Runs /\ [Idle EXCEPT !.pc = "done"] \in Runs
  /\ Idle.pc = "idle" /\ Idle.pushed = 0 /\ Idle.lines = 0 /\ ~ Idle.expired
  /\ Started.pc = "exec" /\ Started.pushed = 0 /\ Started.lines = 0 /\ ~ Started.expired
  /\ [Idle EXCEPT !.pc = "done"].pc = "done" /\ [Idle EXCEPT !.pc = "done"].pushed = 0
  /\ [Idle EXCEPT !.pc = "done"].lines = 0 /\ ~ [Idle EXCEPT !.pc = "done"].expired
<1>1. Idle \in Runs
  BY DEF Idle, Runs
<1>2. Idle.pc = "idle" /\ Idle.pushed = 0 /\ Idle.lines = 0 /\ ~ Idle.expired
  BY DEF Idle
<1>3. \A c \in {"exec", "done"} :
        /\ [Idle EXCEPT !.pc = c].pc = c
        /\ [Idle EXCEPT !.pc = c].pushed = 0
        /\ [Idle EXCEPT !.pc = c].lines = 0
        /\ ~ [Idle EXCEPT !.pc = c].expired
  BY DEF Idle
<1>4. \A c \in {"exec", "done"} : [Idle EXCEPT !.pc = c] \in Runs
  BY <1>1 DEF Runs
<1> QED BY <1>1, <1>2, <1>3, <1>4 DEF Started

LEMMA InitInv == Init => IInv
<1> SUFFICES ASSUME Init PROVE IInv
  OBVIOUS
<1>1. TypeOK
  BY FreshRuns DEF Init, TypeOK
<1>2. RunsOnlyInRunAll /\ ParsedInTime
  BY FreshRuns DEF Init, RunsOnlyInRunAll, ParsedInTime
<1> QED BY <1>1, <1>2 DEF IInv

-----------------------------------------------------------------------------
\* A step of the loop or the owner that starts no run and ends none.
LEMMA QuietInv ==
  ASSUME IInv, UNCHANGED <<proc, run>>,
         dir' \subseteq File, plugins' \subseteq File, tick' \in BOOLEAN,
         phase' \in {"setup", "running", "stopping", "stopped"},
         loop' \in {"none", "runAll", "select", "exited"},
         \/ loop' = loop
         \/ loop' = "runAll"
         \/ \A f \in File : run[f].pc \in {"idle", "done"},
         phase' = "setup" => phase = "setup" /\ loop' = loop,
         phase' = "stopped" => loop' \in {"none", "exited"}
  PROVE  IInv'
<1>1. TypeOK'
  BY DEF IInv, TypeOK
<1>2. RunsOnlyInRunAll'
  BY DEF IInv, RunsOnlyInRunAll
<1>3. ParsedInTime'
  BY DEF IInv, ParsedInTime
<1> QED BY <1>1, <1>2, <1>3 DEF IInv

\* The runs of a runAll begin when those of the one before are over.
LEMMA RunAllInv ==
  ASSUME IInv, loop # "runAll", NEW found \in SUBSET File, RunAll(found),
         UNCHANGED dir, plugins' \subseteq File, tick' \in BOOLEAN, loop' = "runAll",
         phase' \in {"running", "stopping"}
  PROVE  IInv'
<1>1. ASSUME NEW f \in File
      PROVE  /\ run[f] \in Runs /\ run[f].pc \in {"idle", "done"} /\ proc[f] = "none"
             /\ proc'[f] = IF f \in found \cap dir THEN "alive" ELSE "none"
             /\ run'[f] = IF f \in found \cap dir THEN Started
                          ELSE IF f \in found THEN [Idle EXCEPT !.pc = "done"] ELSE run[f]
  <2>1. run[f] \in Runs /\ run[f].pc \in {"idle", "done"} /\ proc[f] = "none"
    BY DEF IInv, TypeOK, RunsOnlyInRunAll
  <2>2. proc'[f] = IF f \in found \cap dir THEN "alive" ELSE proc[f]
    BY DEF RunAll
  <2>3. run'[f] = CASE f \in found \cap dir -> Started
                    [] f \in found \ dir -> [Idle EXCEPT !.pc = "done"]
                    [] OTHER -> run[f]
    BY Zenon DEF RunAll
  <2> QED BY <2>1, <2>2, <2>3
<1>2. proc' \in [File -> {"none", "alive", "orphan", "exited"}]
  BY <1>1 DEF RunAll
<1>3. run' \in [File -> Runs]
  <2>1. \A f \in File : run'[f] \in Runs
    BY <1>1, FreshRuns
  <2>2. DOMAIN run' = File /\ run' = [f \in File |-> run'[f]]
    BY Zenon DEF RunAll
  <2> QED BY <2>1, <2>2
<1>4. TypeOK'
  <2>1. \A f \in File : run'[f].pc \in {"idle", "parse", "done"} => proc'[f] = "none"
    BY <1>1, FreshRuns
  <2> QED BY <1>2, <1>3, <2>1 DEF IInv, TypeOK
<1>5. RunsOnlyInRunAll'
  BY DEF RunsOnlyInRunAll
<1>6. ParsedInTime'
  <2> SUFFICES ASSUME NEW f \in File
               PROVE  /\ run'[f].pc = "parse" \/ run'[f].pushed # 0 => ~ run'[f].expired
                      /\ run'[f].pc \in {"idle", "exec"} => run'[f].pushed = 0
                      /\ run'[f].lines + run'[f].pushed <= MaxLines
    BY DEF ParsedInTime
  <2>1. \/ run'[f] = Started
        \/ run'[f] = [Idle EXCEPT !.pc = "done"]
        \/ run'[f] = run[f]
    BY <1>1
  <2>2. CASE run'[f] = run[f]
    BY <2>2 DEF IInv, ParsedInTime
  <2>3. CASE run'[f] = Started \/ run'[f] = [Idle EXCEPT !.pc = "done"]
    <3>1. run'[f].pc \in {"exec", "done"} /\ ~ run'[f].expired
          /\ run'[f].pushed = 0 /\ run'[f].lines = 0
      BY <2>3, FreshRuns
    <3> QED BY <3>1
  <2> QED BY <2>1, <2>2, <2>3
<1> QED BY <1>4, <1>5, <1>6 DEF IInv

\* A step of one run.
LEMMA OneRunInv ==
  ASSUME IInv, NEW f \in File, UNCHANGED <<dir, plugins, phase, loop, tick>>,
         loop = "runAll",
         NEW r \in Runs, run' = [run EXCEPT ![f] = r],
         NEW p \in {"none", "alive", "orphan", "exited"}, proc' = [proc EXCEPT ![f] = p],
         r.pc \in {"idle", "parse", "done"} => p = "none",
         r.pc = "parse" \/ r.pushed # 0 => ~ r.expired,
         r.pc \in {"idle", "exec"} => r.pushed = 0,
         r.lines + r.pushed <= MaxLines
  PROVE  IInv'
<1>1. \A g \in File : /\ run'[g] = IF g = f THEN r ELSE run[g]
                      /\ proc'[g] = IF g = f THEN p ELSE proc[g]
  BY DEF IInv, TypeOK
<1>2. run' \in [File -> Runs] /\ proc' \in [File -> {"none", "alive", "orphan", "exited"}]
  BY DEF IInv, TypeOK
<1>3. TypeOK'
  <2>1. \A g \in File : run'[g].pc \in {"idle", "parse", "done"} => proc'[g] = "none"
    BY <1>1 DEF IInv, TypeOK
  <2> QED BY <1>2, <2>1 DEF IInv, TypeOK
<1>4. RunsOnlyInRunAll'
  BY DEF IInv, RunsOnlyInRunAll
<1>5. ParsedInTime'
  BY <1>1 DEF IInv, ParsedInTime
<1> QED BY <1>3, <1>4, <1>5 DEF IInv

\* A run that is not over has the loop waiting for it.
LEMMA RunningInRunAll ==
  ASSUME IInv, NEW f \in File, proc[f] # "none" \/ run[f].pc \in {"exec", "parse"}
  PROVE  /\ loop = "runAll" /\ run[f] \in Runs
         /\ run[f].lines \in Nat /\ run[f].pushed \in Nat
         /\ proc[f] # "none" => run[f].pc = "exec"
<1>1. run[f] \in Runs /\ (proc[f] # "none" => run[f].pc = "exec")
  BY RunIs DEF IInv, TypeOK
<1> QED BY <1>1, RunIs DEF IInv, RunsOnlyInRunAll

LEMMA ExitsInv ==
  ASSUME IInv, NEW f \in File, ProcessExits(f) \/ Deadline(f)
  PROVE  IInv'
<1>1. UNCHANGED <<dir, plugins, phase, loop, tick>>
  BY DEF ProcessExits, Deadline, owner
<1>2. /\ loop = "runAll" /\ run[f] \in Runs /\ run[f].pc = "exec" /\ run[f].pushed = 0
      /\ run \in [File -> Runs] /\ proc \in [File -> {"none", "alive", "orphan", "exited"}]
      /\ run[f].lines \in 0 .. MaxLines
  BY RunningInRunAll, RunIs DEF ProcessExits, Deadline, IInv, TypeOK, ParsedInTime
<1>3. PICK n \in 0 .. MaxLines, p \in {"none", "alive", "orphan", "exited"}, e \in BOOLEAN :
        /\ run' = [run EXCEPT ![f] = [run[f] EXCEPT !.expired = e, !.lines = n]]
        /\ proc' = [proc EXCEPT ![f] = p]
  <2>1. CASE ProcessExits(f)
    <3>1. PICK n \in 0 .. MaxLines, p \in {"orphan", "exited"} :
            run' = [run EXCEPT ![f].lines = n] /\ proc' = [proc EXCEPT ![f] = p]
      BY <2>1 DEF ProcessExits
    <3>2. [run[f] EXCEPT !.lines = n] = [run[f] EXCEPT !.expired = run[f].expired, !.lines = n]
      BY <1>2 DEF Runs
    <3>3. run[f].expired \in BOOLEAN
      BY <1>2, RunIs
    <3> QED BY <3>1, <3>2, <3>3
  <2>2. CASE Deadline(f) /\ proc[f] = "alive"
    <3>1. PICK n \in 0 .. MaxLines, p \in {"orphan", "exited"} :
            run' = [run EXCEPT ![f].expired = TRUE, ![f].lines = n] /\ proc' = [proc EXCEPT ![f] = p]
      BY <2>2 DEF Deadline
    <3>2. run' = [run EXCEPT ![f] = [run[f] EXCEPT !.expired = TRUE, !.lines = n]]
      BY <1>2, <3>1
    <3> QED BY <3>1, <3>2
  <2>3. CASE Deadline(f) /\ proc[f] # "alive"
    <3>1. run' = [run EXCEPT ![f].expired = TRUE] /\ proc' = proc
      BY <2>3 DEF Deadline
    <3>2. [run[f] EXCEPT !.expired = TRUE]
            = [run[f] EXCEPT !.expired = TRUE, !.lines = run[f].lines]
      BY <1>2 DEF Runs
    <3>3. proc' = [proc EXCEPT ![f] = proc[f]]
      BY <1>2, <3>1
    <3>4. proc[f] \in {"none", "alive", "orphan", "exited"}
      BY <1>2
    <3> QED BY <1>2, <3>1, <3>2, <3>3, <3>4
  <2> QED BY <2>1, <2>2, <2>3
<1> DEFINE r == [run[f] EXCEPT !.expired = e, !.lines = n]
<1>4. /\ r \in Runs /\ r.pc = "exec" /\ r.pushed = 0 /\ r.lines = n
      /\ n + 0 <= MaxLines
  <2>1. n \in 0 .. MaxLines /\ e \in BOOLEAN /\ n + 0 <= MaxLines
    OBVIOUS
  <2>2. r \in Runs
    BY <1>2, <2>1 DEF Runs
  <2>3. r.pc = run[f].pc /\ r.pushed = run[f].pushed /\ r.lines = n
    BY <1>2 DEF Runs
  <2> QED BY <1>2, <2>1, <2>2, <2>3
<1>5. run' = [run EXCEPT ![f] = r] /\ proc' = [proc EXCEPT ![f] = p]
  BY <1>3
<1> HIDE DEF r
<1> QED BY <1>1, <1>2, <1>4, <1>5, OneRunInv

LEMMA OrphanEndsInv ==
  ASSUME IInv, NEW f \in File, OrphanEnds(f)
  PROVE  IInv'
<1>1. /\ proc[f] = "orphan" /\ proc' = [proc EXCEPT ![f] = "exited"]
      /\ UNCHANGED <<dir, plugins, phase, loop, tick, run>>
  BY DEF OrphanEnds, owner
<1>2. loop = "runAll" /\ run[f] \in Runs /\ run[f].pc = "exec"
  BY <1>1, RunningInRunAll
<1>3. run' = [run EXCEPT ![f] = run[f]]
  BY <1>1 DEF IInv, TypeOK
<1> QED BY <1>1, <1>2, <1>3, OneRunInv DEF IInv, ParsedInTime

LEMMA RunReturnsInv ==
  ASSUME IInv, NEW f \in File, RunReturns(f)
  PROVE  IInv'
<1> DEFINE pc == IF run[f].expired THEN "done" ELSE "parse"
           r == [run[f] EXCEPT !.pc = pc]
<1>1. /\ run[f].pc = "exec" /\ proc' = [proc EXCEPT ![f] = "none"]
      /\ run' = [run EXCEPT ![f].pc = pc]
      /\ UNCHANGED <<dir, plugins, phase, loop, tick>>
  BY DEF RunReturns, owner
<1>2. loop = "runAll" /\ run[f] \in Runs
  BY <1>1, RunningInRunAll
<1>3. /\ r \in Runs /\ r.pc = pc /\ r.pushed = run[f].pushed /\ r.lines = run[f].lines
      /\ r.expired = run[f].expired
  BY <1>2 DEF Runs
<1>4. run' = [run EXCEPT ![f] = r]
  BY <1>1
<1>5. run[f].pushed = 0 /\ run[f].lines + run[f].pushed <= MaxLines
  BY <1>1 DEF IInv, ParsedInTime
<1>6. /\ pc \in {"parse", "done"} /\ (pc = "parse" => ~ run[f].expired)
  OBVIOUS
<1> HIDE DEF r, pc
<1> QED BY <1>1, <1>2, <1>3, <1>4, <1>5, <1>6, OneRunInv

LEMMA ParseInv ==
  ASSUME IInv, NEW f \in File, Parse(f)
  PROVE  IInv'
<1>1. /\ run[f].pc = "parse" /\ UNCHANGED <<dir, plugins, phase, loop, tick, proc>>
      /\ run' = IF run[f].lines = 0
                  THEN [run EXCEPT ![f].pc = "done"]
                  ELSE [run EXCEPT ![f].lines = @ - 1, ![f].pushed = @ + 1]
  BY DEF Parse, owner
<1>2. /\ loop = "runAll" /\ run[f] \in Runs /\ run[f].lines \in Nat /\ run[f].pushed \in Nat
      /\ run \in [File -> Runs] /\ proc[f] = "none" /\ proc' = [proc EXCEPT ![f] = "none"]
      /\ ~ run[f].expired /\ run[f].lines + run[f].pushed <= MaxLines
  <2>1. proc[f] = "none" /\ proc \in [File -> {"none", "alive", "orphan", "exited"}]
    BY <1>1 DEF IInv, TypeOK
  <2>2. proc' = [proc EXCEPT ![f] = "none"]
    BY <1>1, <2>1
  <2> QED BY <1>1, <2>1, <2>2, RunningInRunAll DEF IInv, TypeOK, ParsedInTime
<1>3. CASE run[f].lines = 0
  <2> DEFINE r == [run[f] EXCEPT !.pc = "done"]
  <2>1. /\ r \in Runs /\ r.pc = "done" /\ r.pushed = run[f].pushed /\ r.lines = run[f].lines
        /\ r.expired = run[f].expired
    BY <1>2 DEF Runs
  <2>2. run' = [run EXCEPT ![f] = r]
    BY <1>1, <1>3
  <2> HIDE DEF r
  <2> QED BY <1>1, <1>2, <2>1, <2>2, OneRunInv
<1>4. CASE run[f].lines # 0
  <2> DEFINE r == [run[f] EXCEPT !.lines = run[f].lines - 1, !.pushed = run[f].pushed + 1]
  <2>1. /\ r \in Runs /\ r.pc = "parse" /\ r.pushed = run[f].pushed + 1
        /\ r.lines = run[f].lines - 1 /\ r.expired = run[f].expired
    BY <1>1, <1>2, <1>4 DEF Runs
  <2>2. run' = [run EXCEPT ![f] = r]
    BY <1>1, <1>2, <1>4
  <2>3. r.lines + r.pushed <= MaxLines
    BY <1>2, <2>1
  <2> HIDE DEF r
  <2> QED BY <1>1, <1>2, <2>1, <2>2, <2>3, OneRunInv
<1> QED BY <1>3, <1>4

LEMMA OwnerInv ==
  ASSUME IInv,
         \/ \E f \in File : Install(f) \/ Remove(f)
         \/ Tick \/ Stop \/ StopReturns \/ AllDone \/ LoopExit
  PROVE  IInv'
<1>1. CASE \E f \in File : Install(f) \/ Remove(f)
  BY <1>1, QuietInv DEF Install, Remove, owner, IInv, TypeOK, RunsOnlyInRunAll
<1>2. CASE Tick
  BY <1>2, QuietInv DEF Tick, IInv, TypeOK, RunsOnlyInRunAll
<1>3. CASE Stop
  BY <1>3, QuietInv DEF Stop, IInv, TypeOK, RunsOnlyInRunAll
<1>4. CASE StopReturns
  BY <1>4, QuietInv DEF StopReturns, IInv, TypeOK, RunsOnlyInRunAll
<1>5. CASE AllDone
  <2>1. \A f \in File : run[f].pc \in {"idle", "done"}
    BY <1>5 DEF AllDone
  <2>2. phase # "setup" /\ phase # "stopped"
    BY <1>5 DEF AllDone, IInv, RunsOnlyInRunAll
  <2> QED BY <1>5, <2>1, <2>2, QuietInv DEF AllDone, IInv, TypeOK
<1>6. CASE LoopExit
  <2>1. \A f \in File : run[f].pc \in {"idle", "done"}
    BY <1>6 DEF LoopExit, IInv, RunsOnlyInRunAll
  <2> QED BY <1>6, <2>1, QuietInv DEF LoopExit, IInv, TypeOK
<1> QED BY <1>1, <1>2, <1>3, <1>4, <1>5, <1>6

LEMMA FoundInDir ==
  ASSUME TypeOK, Discover
  PROVE  plugins' \subseteq File
BY DEF TypeOK, Discover

LEMMA StartInv ==
  ASSUME IInv, Start
  PROVE  IInv'
<1>1. /\ phase = "setup" /\ phase' = "running" /\ loop = "none" /\ UNCHANGED <<dir, tick>>
      /\ plugins' \subseteq File /\ dir \subseteq File /\ tick \in BOOLEAN
  BY FoundInDir DEF Start, IInv, TypeOK, RunsOnlyInRunAll
<1>2. CASE dir = {}
  BY <1>1, <1>2, QuietInv DEF Start
<1>3. CASE dir # {}
  BY <1>1, <1>3, RunAllInv DEF Start
<1> QED BY <1>2, <1>3

LEMMA TakeTickInv ==
  ASSUME IInv, TakeTick
  PROVE  IInv'
<1>1. /\ loop = "select" /\ loop' = "runAll" /\ tick' = FALSE /\ UNCHANGED <<dir, phase>>
      /\ RunAll(plugins') /\ plugins' \subseteq File
  BY FoundInDir DEF TakeTick, IInv
<1>2. phase' \in {"running", "stopping"}
  BY <1>1 DEF IInv, TypeOK, RunsOnlyInRunAll
<1> QED BY <1>1, <1>2, RunAllInv

LEMMA NextInv == IInv /\ [Next]_vars => IInv'
<1> SUFFICES ASSUME IInv, [Next]_vars PROVE IInv'
  OBVIOUS
<1>1. ASSUME NEW f \in File, RunOne(f) PROVE IInv'
  BY <1>1, ExitsInv, OrphanEndsInv, RunReturnsInv, ParseInv DEF RunOne
<1>2. CASE \/ \E f \in File : Install(f) \/ Remove(f)
           \/ Tick \/ Stop \/ StopReturns \/ AllDone \/ LoopExit
  BY <1>2, OwnerInv
<1>3. CASE Start
  BY <1>3, StartInv
<1>4. CASE TakeTick
  BY <1>4, TakeTickInv
<1>5. CASE UNCHANGED vars
  BY <1>5 DEF vars, owner, IInv, TypeOK, RunsOnlyInRunAll, ParsedInTime
<1> QED BY <1>1, <1>2, <1>3, <1>4, <1>5 DEF Next, Loop

LEMMA Invariant == Spec => []IInv
<1> QED BY InitInv, NextInv, PTL DEF Spec

-----------------------------------------------------------------------------
\* The state of the loader keeps its types, and no process outlives the run that
\* started it (loader.go:197-217).
THEOREM LoaderTypeCorrect == Spec => []TypeOK
<1>1. IInv => TypeOK
  BY DEF IInv
<1> QED BY <1>1, Invariant, PTL

\* For any plugins and however long they run: none is started again before its
\* run is over, and a run that exceeded its deadline pushes nothing.
THEOREM RunsAreTimely == Spec => OneTimelyRun
<1> DEFINE A == \A f \in File :
                  /\ proc[f] \in {"orphan", "exited"} => proc'[f] # "alive"
                  /\ run'[f].pushed # 0 => ~run'[f].expired
<1>1. IInv /\ [Next]_vars => [A]_vars
  <2> SUFFICES ASSUME IInv, Next PROVE A
    OBVIOUS
  <2>1. IInv'
    BY NextInv
  <2>2. ASSUME NEW f \in File PROVE run'[f].pushed # 0 => ~ run'[f].expired
    BY <2>1 DEF IInv, ParsedInTime
  <2>3. ASSUME NEW f \in File, proc[f] \in {"orphan", "exited"} PROVE proc'[f] # "alive"
    <3>1. loop = "runAll" /\ proc \in [File -> {"none", "alive", "orphan", "exited"}]
      BY <2>3, RunningInRunAll DEF IInv, TypeOK
    <3>2. ~ Start /\ ~ TakeTick
      BY <3>1 DEF Start, TakeTick, IInv, RunsOnlyInRunAll
    <3>3. ASSUME NEW g \in File, RunOne(g) PROVE proc'[f] # "alive"
      BY <2>3, <3>1, <3>3 DEF RunOne, ProcessExits, OrphanEnds, Deadline, RunReturns, Parse
    <3>4. \/ \E g \in File : RunOne(g)
          \/ proc' = proc
      BY <3>2 DEF Next, Loop, Install, Remove, Tick, Stop, StopReturns, AllDone, LoopExit
    <3> QED BY <2>3, <3>3, <3>4
  <2> QED BY <2>2, <2>3
<1>2. Spec => [][A]_vars
  BY <1>1, Invariant, PTL DEF Spec
<1> QED BY <1>2 DEF OneTimelyRun

-----------------------------------------------------------------------------
(* The loader as a service.                                                *)

Pushed == [f \in File |-> run[f].pushed]
Output == [File -> 0 .. MaxLines]

LEMMA PushedInOutput ==
  ASSUME TypeOK
  PROVE  Pushed \in Output
<1>1. \A f \in File : run[f].pushed \in 0 .. MaxLines
  BY RunIs DEF TypeOK
<1> QED BY <1>1 DEF Pushed, Output

\* The runs push only while the loop waits for them.
LEMMA RunOneWorks ==
  ASSUME IInv, NEW f \in File, RunOne(f)
  PROVE  loop = "runAll" /\ UNCHANGED <<phase, loop>>
<1>1. loop = "runAll"
  BY RunningInRunAll DEF RunOne, ProcessExits, OrphanEnds, Deadline, RunReturns, Parse
<1>2. UNCHANGED <<phase, loop>>
  BY DEF RunOne, ProcessExits, OrphanEnds, Deadline, RunReturns, Parse, owner
<1> QED BY <1>1, <1>2

LEMMA NextServes == IInv /\ IInv' /\ [Next]_vars => [Goroutine!Next]_Goroutine!vars
<1> SUFFICES ASSUME IInv, IInv', [Next]_vars
             PROVE  Goroutine!Next
                    \/ (UNCHANGED <<phase, Pushed>>
                        /\ (loop' \notin {"none", "exited"}) = (loop \notin {"none", "exited"}))
  BY DEF Goroutine!vars, Pushed
<1> DEFINE alive == loop \notin {"none", "exited"}
<1>0. Pushed' \in Output /\ (run' = run => Pushed' = Pushed)
  <2>1. \A f \in File : run'[f].pushed \in 0 .. MaxLines
    BY RunIs DEF IInv, TypeOK
  <2>2. Pushed' \in Output
    BY <2>1 DEF Pushed, Output
  <2>3. run' = run => Pushed' = Pushed
    BY DEF Pushed
  <2> QED BY <2>2, <2>3
<1>1. CASE Start
  <2>1. phase = "setup" /\ phase' = "running" /\ \A f \in File : run[f] = Idle
    BY <1>1 DEF Start, IInv, RunsOnlyInRunAll
  <2>2. \A f \in File : run'[f].pushed = run[f].pushed
    <3>1. CASE dir = {}
      BY <1>1, <3>1 DEF Start
    <3>2. CASE dir # {}
      <4> SUFFICES ASSUME NEW f \in File PROVE run'[f].pushed = 0
        BY <2>1, FreshRuns
      <4>1. run'[f] = CASE f \in dir \cap dir -> Started
                        [] f \in dir \ dir -> [Idle EXCEPT !.pc = "done"]
                        [] OTHER -> run[f]
        BY <1>1, <3>2, Zenon DEF Start, RunAll
      <4>2. run'[f] = Started \/ run'[f] = run[f]
        BY <4>1
      <4> QED BY <2>1, <4>2, FreshRuns
    <3> QED BY <3>1, <3>2
  <2>3. Pushed' = Pushed
    BY <2>2 DEF Pushed
  <2>4. Goroutine!Start
    BY <2>1, <2>3 DEF Goroutine!Start, Pushed
  <2> QED BY <2>4 DEF Goroutine!Next
<1>2. CASE TakeTick \/ \E f \in File : RunOne(f)
  <2>1. /\ loop \notin {"none", "exited"} /\ loop' \notin {"none", "exited"}
        /\ phase' = phase
    BY <1>2, RunOneWorks DEF TakeTick
  <2>2. Goroutine!Work
    BY <1>0, <2>1 DEF Goroutine!Work, Pushed, Output
  <2> QED BY <2>2 DEF Goroutine!Next
<1>3. CASE Stop
  <2>1. Goroutine!Stop
    BY <1>0, <1>3 DEF Stop, Goroutine!Stop, Pushed
  <2> QED BY <2>1 DEF Goroutine!Next
<1>4. CASE LoopExit
  <2>1. phase = "stopping"
    BY <1>4 DEF LoopExit, IInv, RunsOnlyInRunAll
  <2>2. Goroutine!End
    BY <1>0, <1>4, <2>1 DEF LoopExit, Goroutine!End, Pushed
  <2> QED BY <2>2 DEF Goroutine!Next
<1>5. CASE StopReturns
  <2>1. Goroutine!StopReturns
    BY <1>0, <1>5 DEF StopReturns, Goroutine!StopReturns, Pushed
  <2> QED BY <2>1 DEF Goroutine!Next
<1>6. CASE AllDone \/ Tick \/ \E f \in File : Install(f) \/ Remove(f)
  BY <1>0, <1>6 DEF AllDone, Tick, Install, Remove, owner
<1>7. CASE UNCHANGED vars
  BY <1>0, <1>7 DEF vars, owner
<1> QED BY <1>1, <1>2, <1>3, <1>4, <1>5, <1>6, <1>7 DEF Next, Loop

\* The safety half of IsService, for any plugins: whatever they do and leave
\* behind, the store gets something only between Start and the end of the loop,
\* and Stop does not return before that (loader.go:92-96, 128-146).
THEOREM LoaderServes ==
  Spec => Goroutine!Init /\ [][Goroutine!Next]_Goroutine!vars
<1>1. Init => Goroutine!Init
  <2> SUFFICES ASSUME Init PROVE Goroutine!Init
    OBVIOUS
  <2>1. Pushed \in Output
    BY InitInv, PushedInOutput DEF IInv
  <2> QED BY <2>1 DEF Init, Goroutine!Init, Pushed, Output
<1> QED BY <1>1, NextServes, Invariant, PTL DEF Spec
=============================================================================
