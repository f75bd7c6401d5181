------------------------------- MODULE Export -------------------------------
(***************************************************************************)
(* The way of a sample from the line that a plugin prints to what a        *)
(* service outside the agent reads: runOne, the store, and one of          *)
(*   "prometheus", "influxdb": the first batch of a tsdb.Manager and the   *)
(*     Write of its writer (TsdbManager has the flushes after it),         *)
(*   "metrics", "plugins": a request for /metrics or /api/plugins, which   *)
(*     reads the store series by series while plugins push into it.        *)
(* The buffers of the store are longer than the runs modelled.             *)
(***************************************************************************)
EXTENDS RemoteWrite, Exposition, PluginOutput, Receivers

CONSTANTS
  Pasts,      (* what the store may hold at first: samples by metric       *)
  Outputs,    (* the runs: [file, lines]                                   *)
  MaxRuns,    (* bound on the runs                                         *)
  Now         (* the second in which the first run ends                    *)

ASSUME BoundAssumption == MaxRuns \in Nat /\ Now \in Nat

Character == DOMAIN Code
Sample == [ts : Nat, value : Numbers]

\* An interface may be named with a backslash, but what follows it in the name of
\* a series ends in a letter.
Name == {s \in Seq(Character) \ {<<>>} : s[Len(s)] # "\\"}

\* The characters of the names that the agent makes up have a byte, and so has
\* every value.  No name has a newline, and no number a blank or a backslash.
ASSUME CharacterAssumption ==
  /\ Alnum \cup {"_", ".", "-", "plugin", "rhelmon_", "__name__", "host", "localhost"}
       \subseteq Character
  /\ Numbers \subseteq Character /\ {" ", "\\"} \cap Numbers = {}
  /\ "\n" \notin Character /\ "\\" \notin Alnum
  /\ {"up", "alerts_fired_total", "metric_series", "ringbuf_samples_total"} \subseteq Alnum

ASSUME PastAssumption ==
  \A past \in Pasts :
    /\ IsFiniteSet(DOMAIN past)
    /\ \A m \in DOMAIN past :
         m \in Name /\ past[m] \in Seq(Sample) \ {<<>>}

ASSUME OutputAssumption ==
  \A o \in Outputs :
    /\ o \in [file : Seq(Range(o.file)), lines : Seq(Range(o.lines))]
    /\ \A i \in DOMAIN o.lines :
         Len(o.lines[i]) >= 2 => o.lines[i][1] \in Seq(Range(o.lines[i][1]))

VARIABLES
  store,      (* store[metric]: its samples [ts, value], oldest first      *)
  output,     (* the run whose output is parsed: [file, lines], lines left *)
  runs,       (* runs that have ended                                      *)
  outlet,     (* the one of the four that is looked at                     *)
  stage,      (* "idle", "begun", "reading", "sent", "done"                *)
  todo,       (* the names the request has still to read                   *)
  lines,      (* what it has written                                       *)
  wire,       (* what goes over the wire                                   *)
  received,   (* what the service outside reads                            *)
  batch,      (* the points of the flush                                   *)
  before      (* history: before[m]: the samples m had when it began       *)

source == <<store, output, runs>>
reply == <<stage, todo, lines, wire, received, batch, before>>
vars == <<source, outlet, reply>>

Metric == DOMAIN store
Names == SortStrings(Metric)
SampleCount == MapThenSumSet(LAMBDA m : Len(store[m]), Metric)

TypeOK ==
  /\ \A m \in Metric : store[m] # <<>> /\ \A i \in DOMAIN store[m] : store[m][i].value \in Numbers
  /\ runs \in 0 .. MaxRuns
  /\ outlet \in {"prometheus", "influxdb", "metrics", "plugins"}
  /\ stage \in {"idle", "begun", "reading", "sent", "done"}
  /\ Range(todo) \subseteq Metric /\ DOMAIN before \subseteq Metric
  /\ outlet = "prometheus" => Range(wire) \subseteq 0 .. 255

Init ==
  /\ store \in Pasts
  /\ output = [file |-> <<>>, lines |-> <<>>] /\ runs = 0
  /\ outlet \in {"prometheus", "influxdb", "metrics", "plugins"}
  /\ stage = "idle" /\ todo = <<>> /\ lines = <<>> /\ wire = <<>>
  /\ received = <<>> /\ batch = <<>> /\ before = <<>>

-----------------------------------------------------------------------------
(* Plugins.  Their stamps are the seconds of their ends, one after another. *)

RunEnds ==
  /\ stage \notin {"sent", "done"} /\ output.lines = <<>> /\ runs < MaxRuns
  /\ output' \in Outputs
  /\ runs' = runs + 1
  /\ UNCHANGED <<store, outlet, reply>>

Pushed(m, sample) ==
  [n \in Metric \cup {m} |->
     IF n # m THEN store[n] ELSE IF m \in Metric THEN Append(store[m], sample) ELSE <<sample>>]

ParseLine ==
  /\ stage \notin {"sent", "done"} /\ output.lines # <<>>
  /\ LET line == Head(output.lines)
     IN  store' = IF Accepted(line)
                    THEN Pushed(MetricKey(output.file, line),
                                [ts |-> Now + runs, value |-> line[2]])
                    ELSE store
  /\ output' = [output EXCEPT !.lines = Tail(@)]
  /\ UNCHANGED <<runs, outlet, reply>>

-----------------------------------------------------------------------------
(* The exporters.                                                          *)

Host == <<"localhost">>

PointsOf(m) ==
  [i \in DOMAIN store[m] |-> [metric |-> m, host |-> Host, value |-> store[m][i].value,
                              ts |-> store[m][i].ts * 1000]]

Flush ==
  /\ stage = "idle" /\ outlet \in {"prometheus", "influxdb"} /\ Metric # {}
  /\ stage' = "sent"
  /\ batch' = FlattenSeq([i \in DOMAIN Names |-> PointsOf(Names[i])])
  /\ wire' = IF outlet = "prometheus" THEN RemoteWriteBody(batch') ELSE InfluxRequest(batch')
  /\ UNCHANGED <<source, outlet, todo, lines, received, before>>

-----------------------------------------------------------------------------
(* The pages.                                                              *)

\* PrometheusMetrics takes its Snapshot first; handlePlugins asks for the names.
BeginRequest ==
  /\ stage = "idle" /\ outlet \in {"metrics", "plugins"}
  /\ stage' = "begun"
  /\ lines' = IF outlet = "metrics"
                THEN SelfLines(Cardinality(Metric), SampleCount, (Now + runs) * 1000) ELSE <<>>
  /\ before' = [m \in Metric |-> Len(store[m])]
  /\ UNCHANGED <<source, outlet, todo, wire, received, batch>>

ListNames ==
  /\ stage = "begun"
  /\ stage' = "reading"
  /\ todo' = SortStrings({m \in Metric : outlet = "plugins" => Head(m) = "plugin"})
  /\ UNCHANGED <<source, outlet, lines, wire, received, batch, before>>

\* Slip: the oldest sample of the series.
LatestOldest(m) == store[m][1]

Latest(m) == store[m][Len(store[m])]

ReadLatest ==
  /\ stage = "reading" /\ todo # <<>>
  /\ LET m == Head(todo)
     IN  lines' = Append(lines, IF outlet = "metrics" THEN MetricLine(m, Latest(m))
                                ELSE [name |-> m, value |-> Latest(m).value, ts |-> Latest(m).ts])
  /\ todo' = Tail(todo)
  /\ UNCHANGED <<source, outlet, stage, wire, received, batch, before>>

EndRequest ==
  /\ stage = "reading" /\ todo = <<>>
  /\ stage' = "sent"
  /\ wire' = lines
  /\ UNCHANGED <<source, outlet, todo, lines, received, batch, before>>

-----------------------------------------------------------------------------
(* The service.                                                            *)

Deliver ==
  /\ stage = "sent"
  /\ stage' = "done"
  /\ received' = CASE outlet = "prometheus" -> WriteRequestOf(wire)
                   [] outlet = "influxdb" -> DatabaseOf(wire.body)
                   [] outlet = "metrics" -> Scraped(wire, Alnum)
                   [] outlet = "plugins" -> Decoded(wire, NonFinite)
  /\ UNCHANGED <<source, outlet, todo, lines, wire, batch, before>>

Next ==
  \/ RunEnds \/ ParseLine
  \/ Flush
  \/ BeginRequest \/ ListNames \/ ReadLatest \/ EndRequest
  \/ Deliver

Spec == Init /\ [][Next]_vars

-----------------------------------------------------------------------------
Done(o) == stage = "done" /\ outlet = o

BatchOf(m) == Chosen(batch, {i \in DOMAIN batch : batch[i].metric = m})
Times(samples, s) == Cardinality({i \in DOMAIN samples : samples[i] = s})

\* Prometheus receives each point of the batch once, in the series of its metric
\* and its host, the samples of a series in the order of their time stamps as
\* remote write demands, for messages of every size (backends.go:69-98, 170-236).
\* Two series have the same labels only if their metrics differ in "." and "_"
\* alone: the code promises "one TimeSeries per unique label-set" (backends.go:70).
PromReceivesBatch ==
  Done("prometheus") =>
    LET metrics == Metrics(batch)
    IN  /\ Len(received) = Len(metrics)
        /\ \A i \in DOMAIN metrics :
             LET ss == received[i].samples
                 mine == BatchOf(metrics[i])
                 sent == [j \in DOMAIN mine |->
                            [value |-> Code[mine[j].value], ts |-> mine[j].ts]]
             IN  /\ received[i].labels =
                      << [name |-> Bytes(<<"__name__">>),
                          value |-> Bytes(prometheusMetricName(metrics[i]))],
                         [name |-> Bytes(<<"host">>), value |-> Bytes(Host)] >>
                 /\ Len(ss) = Len(sent) /\ \A s \in Range(sent) : Times(ss, s) = Times(sent, s)
                 /\ \A j \in 1 .. Len(ss) - 1 : ss[j].ts <= ss[j + 1].ts
        /\ \A i, j \in DOMAIN received :
             i < j /\ received[i].labels = received[j].labels =>
               \E k \in DOMAIN metrics[i] : {metrics[i][k], metrics[j][k]} = {".", "_"}

\* InfluxDB stores of each metric one point per time stamp, the last that was
\* pushed with it, whatever characters the metric's name has; values that are
\* not finite arrive as 0 (backends.go:314-340).
InfluxReceivesBatch ==
  Done("influxdb") =>
    /\ wire.precision = "ms"
    /\ received =
         {[measurement |-> <<"rhelmon">>,
           tags |-> {[key |-> <<"host">>, value |-> Host], [key |-> <<"metric">>, value |-> p.metric]},
           fields |-> <<"value", "=", IF p.value \in NonFinite THEN "0" ELSE p.value>>,
           ts |-> Decimal(p.ts)] :
          p \in {batch[i] : i \in {i \in DOMAIN batch : \A j \in i + 1 .. Len(batch) :
                   batch[j].metric # batch[i].metric \/ batch[j].ts # batch[i].ts}}}

WellNamed(m) == Range(m) \subseteq Alnum \cup {"_", "."}

\* A line about m that tells a sample pushed last when the request began or
\* later, with its own time.
ToldOf(m, line, name, unit) ==
  /\ line.name = name
  /\ \E i \in DOMAIN store[m] :
       /\ m \in DOMAIN before => i >= before[m]
       /\ line.ts = store[m][i].ts * unit
       /\ line.value = IF outlet = "metrics" /\ store[m][i].value \in NonFinite
                         THEN "0" ELSE store[m][i].value

\* A scrape of /metrics shows every series there was when it began, and a request
\* for /api/plugins every series of a plugin, none older than it was then, while
\* plugins push into them.  It is so only as long as no name has a character that
\* isValidKey or the kernel allows and the format does not, and no plugin printed
\* a value that is not finite (monitor.go:259-277, web.go:271-303, loader.go:262-277).
ReadersToldLatest ==
  /\ Done("metrics") /\ (\A m \in Metric : WellNamed(m)) =>
       \A m \in DOMAIN before :
         \E i \in DOMAIN received :
           ToldOf(m, received[i], prometheusMetricName(m), 1000)
  /\ Done("plugins") /\ (\A m \in Metric : \A i \in DOMAIN store[m] : store[m][i].value \notin NonFinite) =>
       \A m \in DOMAIN before : Head(m) = "plugin" =>
         \E i \in DOMAIN received : ToldOf(m, received[i], m, 1)
=============================================================================
