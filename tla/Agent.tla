------------------------------- MODULE Agent -------------------------------
(***************************************************************************)
(* main: what is started in which order, the deferred Stops, the signal    *)
(* and the two ways out that skip the Stops.  The services are the         *)
(* components the other modules describe; here each has a goroutine that   *)
(* runs between its Start and the return of its Stop.                      *)
(***************************************************************************)
EXTENDS Naturals, SequencesExt

CONSTANTS
  Exporters,   (* the configured tsdb.Managers, in the order of main       *)
  MaxSamples   (* bound on the samples collected                           *)

ASSUME ExporterAssumption ==
  /\ Exporters \in Seq(Range(Exporters)) /\ IsInjective(Exporters)
  /\ Range(Exporters) \cap {"collector", "engine", "plugins"} = {}
ASSUME MaxAssumption == MaxSamples \in Nat

\* Slip: the producers are started before the exporters.
ServicesProducersFirst == <<"collector", "engine", "plugins">> \o Exporters

\* In the order of their Starts.
Services == Exporters \o <<"collector", "engine", "plugins">>

Service == Range(Services)
Exporter == Range(Exporters)
Producer == {"collector", "plugins"}

VARIABLES
  main,      (* "start", "listen", "wait", "return", "exited", "aborted"   *)
  next,      (* index of the next service to start                         *)
  defers,    (* the deferred Stops, the last one first                     *)
  running,   (* services with a goroutine                                  *)
  stopping,  (* the service whose Stop main is in: a set of at most one    *)
  sigCh,     (* the signal channel, of capacity one, holds a signal        *)
  held,      (* a plugin run does not end: its output is held open         *)
  samples,   (* samples pushed to the store                                *)
  sent       (* sent[e]: those exporter e has looked at                    *)

data == <<samples, sent>>
vars == <<main, next, defers, running, stopping, sigCh, held, data>>

Alive == main \notin {"exited", "aborted"}

TypeOK ==
  /\ main \in {"start", "listen", "wait", "return", "exited", "aborted"}
  /\ next \in 1 .. Len(Services) + 1
  /\ defers \in Seq(Service) /\ running \subseteq Service /\ stopping \subseteq Service
  /\ sigCh \in BOOLEAN /\ held \in BOOLEAN
  /\ samples \in 0 .. MaxSamples /\ sent \in [Exporter -> 0 .. samples]
  /\ Alive => running = Range(defers) \cup stopping

Init ==
  /\ main = "start" /\ next = 1 /\ defers = <<>>
  /\ running = {} /\ stopping = {} /\ sigCh = FALSE /\ held = FALSE
  /\ samples = 0 /\ sent = [e \in Exporter |-> 0]

-----------------------------------------------------------------------------
\* Slip: only the first Stop is deferred.
StartNextUndeferred ==
  /\ main = "start" /\ next <= Len(Services)
  /\ running' = running \cup {Services[next]}
  /\ defers' = IF defers = <<>> THEN <<Services[next]>> ELSE defers
  /\ next' = next + 1
  /\ main' = IF next = Len(Services) THEN "listen" ELSE "start"
  /\ UNCHANGED <<stopping, sigCh, held, data>>

StartNext ==
  /\ main = "start" /\ next <= Len(Services)
  /\ running' = running \cup {Services[next]}
  /\ defers' = <<Services[next]>> \o defers
  /\ next' = next + 1
  /\ main' = IF next = Len(Services) THEN "listen" ELSE "start"
  /\ UNCHANGED <<stopping, sigCh, held, data>>

\* os.Exit and log.Fatalf end every goroutine and run no deferred call.
Abort ==
  /\ main' = "aborted" /\ running' = {}
  /\ UNCHANGED <<next, defers, stopping, sigCh, held, data>>

Listen ==
  /\ main = "listen"
  /\ main' = "wait"
  /\ UNCHANGED <<next, defers, running, stopping, sigCh, held, data>>

CannotBind == main = "listen" /\ Abort

\* The server is not shut down: it may fail as long as the process lives.
ServeFails == main \in {"wait", "return"} /\ Abort

\* Signals are caught from signal.Notify on; more than one waiting is dropped.
Signal ==
  /\ main \in {"wait", "return"}
  /\ sigCh' = TRUE
  /\ UNCHANGED <<main, next, defers, running, stopping, held, data>>

TakeSignal ==
  /\ main = "wait" /\ sigCh
  /\ sigCh' = FALSE
  /\ main' = "return"
  /\ UNCHANGED <<next, defers, running, stopping, held, data>>

CallStop ==
  /\ main = "return" /\ stopping = {} /\ defers # <<>>
  /\ stopping' = {Head(defers)} /\ defers' = Tail(defers)
  /\ UNCHANGED <<main, next, running, sigCh, held, data>>

\* Slip: Stop waits for something to flush.
StopReturnsWithData(s) ==
  /\ main = "return" /\ s \in stopping
  /\ s = "plugins" => ~held
  /\ s \in Exporter => sent[s] # samples
  /\ stopping' = {} /\ running' = running \ {s}
  /\ sent' = IF s \in Exporter THEN [sent EXCEPT ![s] = samples] ELSE sent
  /\ UNCHANGED <<main, next, defers, sigCh, held, samples>>

\* The goroutine has ended; an exporter has flushed once more.
StopReturns(s) ==
  /\ main = "return" /\ s \in stopping
  /\ s = "plugins" => ~held
  /\ stopping' = {} /\ running' = running \ {s}
  /\ sent' = IF s \in Exporter THEN [sent EXCEPT ![s] = samples] ELSE sent
  /\ UNCHANGED <<main, next, defers, sigCh, held, samples>>

Exit ==
  /\ main = "return" /\ stopping = {} /\ defers = <<>>
  /\ main' = "exited"
  /\ UNCHANGED <<next, defers, running, stopping, sigCh, held, data>>

-----------------------------------------------------------------------------
(* What the services do meanwhile, also while they are being stopped.      *)

Produce(s) ==
  /\ Alive /\ s \in Producer \cap running /\ samples < MaxSamples
  /\ samples' = samples + 1
  /\ UNCHANGED <<main, next, defers, running, stopping, sigCh, held, sent>>

Flush(e) ==
  /\ Alive /\ e \in Exporter \cap running
  /\ sent' = [sent EXCEPT ![e] = samples]
  /\ UNCHANGED <<main, next, defers, running, stopping, sigCh, held, samples>>

\* A plugin leaves a descendant behind that holds its output, and that ends.
PluginHeld ==
  /\ Alive /\ "plugins" \in running
  /\ held' = ~held
  /\ UNCHANGED <<main, next, defers, running, stopping, sigCh, data>>

MainStep ==
  \/ StartNext \/ Listen \/ CannotBind \/ TakeSignal \/ CallStop \/ Exit
  \/ \E s \in Service : StopReturns(s)

Next ==
  \/ MainStep \/ ServeFails \/ Signal
  \/ \E s \in Producer : Produce(s)
  \/ \E e \in Exporter : Flush(e)
  \/ PluginHeld

Spec == Init /\ [][Next]_vars

\* main is scheduled, and each Stop returns once its goroutine can end.
FairSpec == Spec /\ WF_vars(MainStep)

\* In addition plugins leave nothing behind for ever: a Stop that may return
\* again and again does.
TidySpec == FairSpec /\ WF_vars(held /\ PluginHeld) /\ SF_vars(StopReturns("plugins"))

-----------------------------------------------------------------------------
\* When the process ends by a signal every exporter has looked at every sample
\* that was ever collected: the Stops run in the reverse order of the Starts,
\* and producers push until theirs returns (main.go:114-148).
NothingLeftBehind ==
  main = "exited" => \A e \in Exporter : sent[e] = samples

\* main.go:220, "Press Ctrl+C to stop.": a signal ends the process.
CtrlCStops == sigCh ~> ~Alive
=============================================================================
