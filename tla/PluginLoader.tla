---------------------------- MODULE PluginLoader ----------------------------
(***************************************************************************)
(* plugin.Loader: a goroutine that on every tick scans the plugin          *)
(* directory, runs every executable it found at once, each in a goroutine  *)
(* and under a timeout, and waits for all of them.  A run ends when the    *)
(* process has exited AND nobody holds its standard output: exec.Cmd.Run   *)
(* copies the output until the pipe is closed, also after a kill.          *)
(***************************************************************************)
EXTENDS Naturals

CONSTANTS
  File,       (* the names of executables                                  *)
  MaxLines    (* bound on the metric lines a run prints                    *)

ASSUME MaxLinesAssumption == MaxLines \in Nat

VARIABLES
  dir,        (* the executables in the plugin directory                   *)
  plugins,    (* Loader.plugins                                            *)
  phase,      (* of the owner: "setup", "running", "stopping", "stopped"   *)
  loop,       (* the goroutine: "none", "runAll", "select", "exited"       *)
  tick,       (* the ticker's channel holds a tick                         *)
  proc,       (* proc[f]: "none", "alive", "orphan" (a descendant of the   *)
              (* exited process holds its output), "exited"                *)
  run         (* run[f]: runOne: pc, expired (the context's deadline),     *)
              (* lines printed and not pushed, pushed lines                *)

owner == <<phase, loop, tick>>
vars == <<dir, plugins, owner, proc, run>>

Idle == [pc |-> "idle", expired |-> FALSE, lines |-> 0, pushed |-> 0]
Started == [Idle EXCEPT !.pc = "exec"]

Runs == [pc : {"idle", "exec", "parse", "done"}, expired : BOOLEAN,
         lines : 0 .. MaxLines, pushed : 0 .. MaxLines]

TypeOK ==
  /\ dir \subseteq File /\ plugins \subseteq File
  /\ phase \in {"setup", "running", "stopping", "stopped"}
  /\ loop \in {"none", "runAll", "select", "exited"}
  /\ tick \in BOOLEAN
  /\ proc \in [File -> {"none", "alive", "orphan", "exited"}]
  /\ run \in [File -> Runs]
  /\ \A f \in File : run[f].pc \in {"idle", "parse", "done"} => proc[f] = "none"

Init ==
  /\ dir \in SUBSET File /\ plugins = {}
  /\ phase = "setup" /\ loop = "none" /\ tick = FALSE
  /\ proc = [f \in File |-> "none"]
  /\ run = [f \in File |-> Idle]

-----------------------------------------------------------------------------
(* The operator and the ticker.                                            *)

Install(f) ==
  /\ dir' = dir \cup {f} /\ f \notin dir
  /\ UNCHANGED <<plugins, owner, proc, run>>

Remove(f) ==
  /\ dir' = dir \ {f} /\ f \in dir
  /\ UNCHANGED <<plugins, owner, proc, run>>

Tick ==
  /\ loop \in {"runAll", "select"} /\ ~tick
  /\ tick' = TRUE
  /\ UNCHANGED <<dir, plugins, phase, loop, proc, run>>

-----------------------------------------------------------------------------
(* Start, the loop and Stop.                                               *)

\* Slip: only Start looks at the directory.
DiscoverOnce == plugins' = IF loop = "none" THEN dir ELSE plugins

\* A scan of the directory; if that is gone itself, l.plugins stays as it is.
Discover ==
  \/ plugins' = dir
  \/ dir = {} /\ UNCHANGED plugins

\* A goroutine and a process for every plugin found; a file that is gone cannot
\* be executed, and its run is over.
RunAll(found) ==
  /\ proc' = [f \in File |-> IF f \in found \cap dir THEN "alive" ELSE proc[f]]
  /\ run' = [f \in File |->
       CASE f \in found \cap dir -> Started
         [] f \in found \ dir -> [Idle EXCEPT !.pc = "done"]
         [] OTHER -> run[f]]

Start ==
  /\ phase = "setup"
  /\ phase' = "running"
  /\ Discover
  /\ IF dir = {} THEN UNCHANGED <<loop, proc, run>>
                 ELSE loop' = "runAll" /\ RunAll(dir)
  /\ UNCHANGED <<dir, tick>>

\* Slip: runAll does not wait for the plugins.
AllDoneNoWait ==
  /\ loop = "runAll"
  /\ loop' = "select"
  /\ UNCHANGED <<dir, plugins, phase, tick, proc, run>>

\* wg.Wait() of runAll.
AllDone ==
  /\ loop = "runAll"
  /\ \A f \in File : run[f].pc \in {"idle", "done"}
  /\ loop' = "select"
  /\ UNCHANGED <<dir, plugins, phase, tick, proc, run>>

TakeTick ==
  /\ loop = "select" /\ tick
  /\ tick' = FALSE
  /\ Discover
  /\ loop' = "runAll"
  /\ RunAll(plugins')
  /\ UNCHANGED <<dir, phase>>

LoopExit ==
  /\ loop = "select" /\ phase \in {"stopping", "stopped"}
  /\ loop' = "exited"
  /\ UNCHANGED <<dir, plugins, phase, tick, proc, run>>

Stop ==
  /\ phase = "running"
  /\ phase' = "stopping"
  /\ UNCHANGED <<dir, plugins, loop, tick, proc, run>>

\* wg.Wait() of Stop; there is no goroutine when Start found no plugin.
StopReturns ==
  /\ phase = "stopping" /\ loop \in {"none", "exited"}
  /\ phase' = "stopped"
  /\ UNCHANGED <<dir, plugins, loop, tick, proc, run>>

-----------------------------------------------------------------------------
(* runOne                                                                  *)

\* The process exits by itself, or could not be started at all; it may leave
\* a descendant behind that holds its output.
ProcessExits(f) ==
  /\ proc[f] = "alive"
  /\ \E n \in 0 .. MaxLines, p \in {"orphan", "exited"} :
       /\ run' = [run EXCEPT ![f].lines = n]
       /\ proc' = [proc EXCEPT ![f] = p]
  /\ UNCHANGED <<dir, plugins, owner>>

OrphanEnds(f) ==
  /\ proc[f] = "orphan"
  /\ proc' = [proc EXCEPT ![f] = "exited"]
  /\ UNCHANGED <<dir, plugins, owner, run>>

\* The deadline of the context: a process that is still there is killed, its
\* descendants are not.
Deadline(f) ==
  /\ run[f].pc = "exec" /\ ~run[f].expired
  /\ IF proc[f] = "alive"
       THEN \E n \in 0 .. MaxLines, p \in {"orphan", "exited"} :
              /\ run' = [run EXCEPT ![f].expired = TRUE, ![f].lines = n]
              /\ proc' = [proc EXCEPT ![f] = p]
       ELSE /\ run' = [run EXCEPT ![f].expired = TRUE]
            /\ UNCHANGED proc
  /\ UNCHANGED <<dir, plugins, owner>>

\* Slip: the output is parsed whatever ended the run.
RunReturnsParsing(f) ==
  /\ run[f].pc = "exec" /\ proc[f] = "exited"
  /\ proc' = [proc EXCEPT ![f] = "none"]
  /\ run' = [run EXCEPT ![f].pc = "parse"]
  /\ UNCHANGED <<dir, plugins, owner>>

\* Slip: the run returns at the deadline, whether its output is closed or not.
RunReturnsEarly(f) ==
  /\ run[f].pc = "exec" /\ (proc[f] = "exited" \/ run[f].expired)
  /\ run' = [run EXCEPT ![f].pc = IF run[f].expired THEN "done" ELSE "parse"]
  /\ proc' = IF run[f].expired THEN proc ELSE [proc EXCEPT ![f] = "none"]
  /\ UNCHANGED <<dir, plugins, owner>>

\* cmd.Run returns and ctx.Err() is looked at.
RunReturns(f) ==
  /\ run[f].pc = "exec" /\ proc[f] = "exited"
  /\ proc' = [proc EXCEPT ![f] = "none"]
  /\ run' = [run EXCEPT ![f].pc = IF run[f].expired THEN "done" ELSE "parse"]
  /\ UNCHANGED <<dir, plugins, owner>>

\* One valid line is pushed into the store, or the output is at its end.
Parse(f) ==
  /\ run[f].pc = "parse"
  /\ run' = IF run[f].lines = 0
              THEN [run EXCEPT ![f].pc = "done"]
              ELSE [run EXCEPT ![f].lines = @ - 1, ![f].pushed = @ + 1]
  /\ UNCHANGED <<dir, plugins, owner, proc>>

RunOne(f) ==
  \/ ProcessExits(f) \/ OrphanEnds(f) \/ Deadline(f) \/ RunReturns(f) \/ Parse(f)

Loop == AllDone \/ TakeTick \/ LoopExit

Next ==
  \/ \E f \in File : Install(f) \/ Remove(f) \/ RunOne(f)
  \/ Tick \/ Start \/ Stop \/ StopReturns
  \/ Loop

Spec == Init /\ [][Next]_vars

\* The ticker ticks, deadlines pass, goroutines are scheduled, select does not
\* ignore stopCh for ever.  A plugin need not exit by itself.
Fairness ==
  /\ WF_vars(Tick) /\ WF_vars(Start) /\ WF_vars(Loop) /\ SF_vars(LoopExit)
  /\ WF_vars(StopReturns)
  /\ \A f \in File : WF_vars(Deadline(f)) /\ WF_vars(RunReturns(f)) /\ WF_vars(Parse(f))

FairSpec == Spec /\ Fairness

\* In addition, what a plugin leaves behind ends some day.
TidySpec == FairSpec /\ \A f \in File : WF_vars(OrphanEnds(f))

-----------------------------------------------------------------------------
\* What reaches the store of a plugin comes from one run at a time, and only
\* from one that ended in time: a plugin slower than the interval is not started
\* again before its run is over, and a run that exceeded the timeout pushes
\* nothing, complete or not (loader.go:28-29, 197, 219-222).
OneTimelyRun ==
  [][\A f \in File :
       /\ proc[f] \in {"orphan", "exited"} => proc'[f] # "alive"
       /\ run'[f].pushed # 0 => ~run'[f].expired]_vars

Goroutine ==
  INSTANCE Service WITH Output <- [File -> 0 .. MaxLines],
    alive <- loop \notin {"none", "exited"},
    output <- [f \in File |-> run[f].pushed]

\* The loader is a service: no run pushes anything once the loop has ended, so
\* nothing is pushed after Stop has returned, and Stop returns although plugins
\* never exit by themselves (loader.go:92-96, 128-146, 197, 207-217).
IsService == Goroutine!Spec

\* Once the loop runs, a plugin that is installed and stays gets started.
InstalledIsRun ==
  \A f \in File :
    [](loop # "none" => <>(run[f].pc = "exec" \/ f \notin dir \/ phase # "running"))
=============================================================================
