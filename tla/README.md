# rhelmon: specifications, model checking and proofs

`rhelmon` is a monitoring agent for one Linux host: it reads `/proc`, runs
plugins, keeps the newest samples of every metric in memory, evaluates alert
rules, exports to time-series databases and serves a live dashboard. This
directory holds TLA+ modules of its concurrent core, the TLC configurations
that check them on small instances, and proofs of the safety properties of all
modelled components.

Paths and line numbers are relative to `src/`. `PROJECT.json` maps every
definition to the lines it models.

## 1. Inventory

### Components

| Component | State it keeps | Operations | Hard behaviour |
|---|---|---|---|
| `ringbuf.RingBuffer` (`internal/ringbuf/ringbuf.go`) | slots, write position, size; one mutex | `Push`, `Last`, `Latest`, `Len` | wrap-around arithmetic |
| `ringbuf.Store` | map name -> buffer; an RW mutex besides the one in each buffer | `Push`, `Last`, `Latest`, `Names` | two first pushes of one name race; pointers are used after the unlock |
| `collector.Manager` (`internal/collector/collector.go`) | previous readings by device, one mutex | `Start`, `Stop`, `collect`, `DeviceNames`, `InterfaceNames` | counters wrap; devices come and go; the mutex is held over pushes |
| `plugin.Loader` (`internal/plugin/loader.go`) | the plugins found | `Start`, `Stop`, `discover`, `runAll`, `runOne` | processes that hang, time out or leave descendants; a directory that changes |
| `alert.Engine` (`internal/alert/engine.go`) | rule states, an event channel | `AddRule`, `Start`, `Stop`, `evaluate`, `notify` | durations measured over ticks that may be late; announcements exactly once |
| notifiers (`internal/alert/notifier.go`) | none | `MultiNotifier.Notify` over log, Slack, e-mail | one may fail, hang or be absent; goroutines nobody waits for |
| `tsdb.Manager` (`internal/tsdb/writer.go`) | a cursor per metric | `Start`, `Stop`, `flush` | samples arrive during a flush; time stamps of one second, from a clock that may be set; writers fail |
| backends (`internal/tsdb/backends.go`) | none | `PrometheusWriter.Write`, `InfluxWriter.Write` | binary encodings at their boundaries, escapes, names that become one |
| `hub.Hub` (`internal/hub/hub.go`), `web.BroadcastLoop` | the set of clients; three channels and one per client | `run`, `ServeWS`, two pumps, `Broadcast` | clients that leave at any moment or do not read |
| web server (`internal/web/web.go`) | none | `BuildSnapshot`, handlers for `/metrics`, `/api/plugins` and others | reads dozens of series while they are pushed |
| `selfmon.Monitor` (`internal/selfmon/monitor.go`) | last heartbeat and callback per component; counters | `RegisterWatchdog`, `Heartbeat`, `StartWatchdog`, counters | the mutex is given up inside the iteration |
| `main` (`cmd/rhelmon/main.go`) | what is started | starts, deferred Stops, signal, fatal ends | order of the Stops; ends that skip them |

### How they interact

```
  collector ──Push──┐                        ┌──Latest── alert.Engine ── go notify ── log, Slack, e-mail
  plugin runs ─Push─┴──► ringbuf.Store ──────┼──Last──── tsdb.Manager (one per exporter) ── writers
                                             ├──Latest── web.BuildSnapshot ── BroadcastLoop ── Hub ── clients
                                             └──Latest── /metrics, /api/plugins
  main: starts exporters, collector, engine, plugins, hub, server; Stops in reverse order
```

All arrows into and out of the store are calls on the caller's goroutine. Each
of collector, loader, engine, tsdb managers and watchdog is one goroutine around
a `select` over a ticker and a stop channel; `Stop` closes the channel and waits
(the watchdog and the hub are never stopped). A ticker keeps at most one tick: a
loop that is late loses ticks, it never gets a backlog. A `select` with two
ready cases takes either.

### What makes each correct

- Ring buffer: it is a log of the most recent samples, in order. Store: every
  call is atomic, no sample of a returned push is orphaned.
- Collector: each increment of a counter is reported exactly once, whatever the
  collector's mutex, wrapping counters and absent devices do; after `Stop`
  nothing is pushed.
- Loader: no plugin runs twice at once, output of a timed-out run is dropped, what
  is installed is run, `Stop` returns and nothing is pushed after it.
- Engine: a rule fires when its condition was true for its duration and only
  then; announcements pair up; after `Stop` nothing happens. Notifiers: a
  failing or hanging one takes nothing from the others.
- tsdb: samples are sent in order, and again only after an earlier stamp; what is
  not sent has a known reason; every writer gets the same; `Stop` drains.
- Backends and pages: what the other side reads is what the store held.
- Hub: no send on a closed channel, no leaked pump, no client blocks `run`.
- Watchdog: calls back what is stuck, and nothing twice within the timeout of the
  check; what beats is called back only if it hung since the callback before,
  unless the check goes by a shorter timeout than it registered with.
- main: everything that was collected has been exported when a signal ended it.

The hazards behind these are listed one by one, at their lines, in
`PROJECT.json` under `hazards`, with the properties that cover them, or why none
does.

## 2. Modules

Abstract specifications are marked *abs*.

| Module | Models | Notes |
|---|---|---|
| `Ring` | type `RingBuffer` and its methods as operators on a record | methods hold the mutex throughout, so each is one step |
| `SampleLog` *abs* | what a series promises: the newest `Cap` samples | |
| `RingBuffer` | one buffer and its pushes | refines `SampleLog` by `log <- Last(0)` |
| `StoreSpec` *abs* | atomic `Push`, `Last`, `Latest`, `Names` on one log per name | |
| `Store` | the real steps: lookup, second lookup and creation, append; lookup and read | extends `Ring`; refines `StoreSpec` |
| `StoreProofs` | theorems of `RingBuffer` and of `Store` | section 5, as are the other proofs |
| `AlertLifecycle` *abs* | ok, pending, firing and the announcements | from the diagram in the package comment |
| `AlertEngine` | the owner, the loop, one step per rule of `evaluate` | refines `AlertLifecycle` |
| `AlertDelivery` | extends `AlertEngine`: a goroutine per notification through `MultiNotifier` | composes engine, notifiers and the end of the process |
| `AlertEngineProofs` | theorems of both | |
| `TsdbManager` | pushes with any stamps, cursors, `flush` metric by metric and writer by writer | writers external: each call succeeds or fails |
| `TsdbManagerProofs` | its theorems | |
| `RemoteWrite` | grouping, protobuf and snappy of `PrometheusWriter` | operators; lengths and numbers byte by byte, strings as short sequences |
| `LineProtocol` | the lines and escapes of `InfluxWriter` | operators |
| `Exposition` | the page `/metrics` of `selfmon` | operators |
| `PluginOutput` | `pluginName`, `parseLine`, `isValidKey` | operators |
| `Orders` | the elements of a set in order: what the encoders sort and group, and a decoder selects | operators, in a form that theorems can cite |
| `Receivers` | external: decoders of remote write, line protocol, `/metrics` and JSON | follow the formats, not the encoders |
| `Export` | from the line a plugin prints to what a service outside reads | composes the six above with the store |
| `ExportProofs` | its theorems | |
| `Service` *abs* | what `main` relies on: work only between `Start` and the return of `Stop`, and `Stop` returns | |
| `PluginLoader` | directory, processes, contexts, the loop | refines `Service` |
| `PluginLoaderProofs` | its theorems | |
| `Collector` | `collect` file by file, and `BuildSnapshot` beside it | composes collector, store and the snapshot's reader; refines `Service` |
| `CollectorProofs` | its theorems | |
| `Hub` | `run`, handler and pumps per client, `BroadcastLoop` | frames are counted, not told apart |
| `HubProofs` | its theorems | |
| `Watchdog` | heartbeats, the check, callbacks | |
| `Agent` | `main`: order of Starts and Stops, signal, fatal ends | services as `Service` describes them |
| `AgentProofs` | theorems of `Agent` and of `Watchdog` | |

State and actions bear the names of the source where TLA+ allows it. Three
conventions recur:

- A critical section is one action, as long as nothing is called in it that
  other goroutines see step by step. Where the code holds a mutex but another
  lock-free or differently locked state changes meanwhile (`evaluate` and the
  store; `collect` and the store; `flush` and the store), each access to that
  state is a step of its own. `evaluate` visits the rules in any order, as the
  iteration over a map does, and `Names` and the watchdog's table likewise
  (`flush` sorts its names, so there `Visit` takes the least).
- The ticker is a Boolean `tick`: its channel has room for one.
- Variables marked *history* in their comment are read by properties and by no
  guard of an action.

Operators that begin with the comment `Slip:` are not part of the models. Each is
what a plausible mistake would have made of the definition after it;
`PROJECT.json` pairs each with the property that must then fail, so that no
property is passed for free.

### What the models abstract

- *Samples* are model values (`Ring`, `Store`), time stamps (`TsdbManager`), sample
  numbers (`Collector`), or a stamp and a value (`Export`), whichever the
  properties tell apart.
- *Rates and percentages* of the collector are the differences they are computed
  from; elapsed time, which divides them, is positive and left out. Counters are
  numbers below a modulus, so the subtraction wraps as `uint64` does.
- *The batch* of a flush is kept series by series (`points[m]`), where the code has
  one slice: the order of two series in it makes no difference to a writer.
- *Time* in `AlertEngine` is the monotonic clock that Go's `time.Time` carries. A
  stamp in `TsdbManager` is a reading of the wall clock, which may be set while
  tickers go on: it may be any, earlier or later than those before.
- *Names and values* in `Export` are sequences of characters of a small alphabet,
  in which fixed words count as one character; `ParseFloat` and `%g` map a value
  to itself, except for NaN. Bytes tell characters and values apart, and a number
  has neither a blank nor a backslash (`strings.Fields` and `ParseFloat` see to it).
  No name has a newline, which `isValidKey` and the kernel keep out; the name of an
  interface may have a backslash, which escapes only what it stands before, but no
  name of a series ends in one. Stamps are not negative. The self-metrics of `/metrics` that tell of the Go
  runtime are left out, and the figures about the store are taken at once.
- *Services* outside the agent (Slack, SMTP, Prometheus, InfluxDB, the kernel,
  plugin processes, browsers) are nondeterministic: they answer, fail or, where
  the code has no timeout, never return.

## 3. The runs

All runs have deadlock checking on except where "may stop" is said: there the
clock or the input is bounded, so behaviours end.

| Run | Shows | Bounds | States |
|---|---|---|---|
| `ring_buffer` | `BoundedLog`: wrapping never loses, repeats or reorders | capacity 4 by default, 4 samples | 1109 |
| `store` | `PointersAgree`, `AtomicStore`: two racing first pushes end in one buffer; multi-step calls are atomic | 2 names, 2 pushers, 1 reader, capacity 2, 2 samples | 244 722 |
| `alert` | `FiringWasHeld`, `NoneOverdue`, `Lifecycle`, `QuietAfterStop`; with delivery `SlackReached`, `StopDespiteHang` (may stop) | 2 rules (duration 2 and 0) on 1 metric, 5 instants, 2 events | 112 248 |
| `alert_nil` | `NoPanic` fails: an agent with Slack only panics when an alert fires | as above | - |
| `tsdb` | `InOrderAtMostOnce`, `LossesExplained`, `DrainedAtStop`, `SameBatches` (may stop) | 2 series of up to 3 and 2 pushes, any stamps of 1 to 3, 2 ticks and the final flush, 2 writers, window 2 | 1 527 967 |
| `tsdb_retry` | `RetriedNextFlush` fails: a refused batch is not offered again | as above | - |
| `hub` | `NoSendOnClosed`, `PumpsEnd`, `RegisterServed` | 2 clients, channels of 2, 1 and 2 | 6412 |
| `plugin_loader` | `OneTimelyRun`, `IsService`, `InstalledIsRun` | 2 plugins, 1 line per run | 9616 |
| `collector` | `IncrementsReportedOnce`, `TornByOne`, `SnapshotEnds`, `IsService` | 4 machines, counters modulo 4, 3 rounds | 332 865 |
| `watchdog` | `OnlyStuckIsCalled`, `StuckIsRestarted` | 2 components that beat within 2, of which the check gives one 1 and the other 2; check every 2 | 104 390 |
| `agent` | `NothingLeftBehind`, `CtrlCStops` (may stop) | 2 exporters, 4 samples | 2793 |
| `export` | `PromReceivesBatch`, `InfluxReceivesBatch`, `ReadersToldLatest` (may stop) | stores of 0 to 2 series of 1 to 12 samples; 2 runs of 2 lines of 2 files with one plugin name | 88 664 |

Every passing run also checks its module's type invariant.

### Why the bounds are enough

- `ring_buffer`: four distinguishable samples in four slots reach every rotation
  of every full buffer. The theorem covers the other capacities.
- `store`: the race needs two pushers that miss on one name; the second name
  gives a wrong pointer somewhere to go; capacity 2 makes buffers wrap while
  readers hold pointers. `Request = {0, 1}` is "all" and "fewer than all".
- `alert`: five instants let a rule of duration 2 go through pending, firing and
  back and begin again, also with a tick that comes late. Values 85 and 86
  around the thresholds tell `gt` from `gte`; a third value would not be told
  apart by any guard. Two event slots are fewer than the transitions, so that the
  full channel is reached.
- `tsdb`: the window of 2 stands for 60 and is exceeded by 3 pushes; 3 stamps in
  any order give samples of one second before, during and after a flush, a clock
  set back and one set forward; 2 ticks and the final flush give a first flush,
  one that finds cursors, and one after the loop. `main` gives every manager one
  writer, `AddWriter` allows several: two, of which each may fail at every batch,
  are the least for which `SameBatches` says something. The two series differ in
  their pushes only, as one cursor cannot disturb another unless they are shared,
  for which one push to each is enough.
- `hub`: two clients are one that is served and one that leaves too early; full
  channels are reached with one or two slots.
- `plugin_loader`: plugins meet only in `wg.Wait`, for which two suffice.
- `collector`: counters modulo 4 with growth up to 1 per round wrap within two
  rounds from the top, at which a first reading may stand; the third round reports
  what follows a wrap, a fall or a return. Machines are split in
  four (a CPU; an interface; a disk; memory, load and a partition, which is
  skipped), because files share only the mutex and the order in which they are read.
- `watchdog`: both components register with 2, the interval. `StartWatchdog` is
  given 1 for the collector, and nothing for the other, which gets the default of
  2: so one is called back while it beats, and one only when it hung. Ages count up
  to one past the longer timeout, beyond which nothing changes any more.
- `agent`: two exporters, so that one Stop comes between the producers' and
  another exporter's.
- `export`: 12 samples make messages beyond 60 (literal), 127 (length) and 255
  bytes (byte), and stamps beyond 16384 (three-byte varints); a series with `\` and
  `,` in its name needs escapes; lines give `a.b` and `a_b`, `a-`, NaN, a comment and a
  line without a value. Two runs are enough for a series that appears, and one
  that is pushed, between any two reads of a page.

### Fairness

Weak fairness stands for "a goroutine that can go on is scheduled" and "a
deadline passes". Stronger or weaker choices, and their reasons in the code:

- *Exit of a loop*, and the cases of the hub's `run`: strong fairness. `select`
  picks uniformly among ready cases, so a case that is ready again and again is
  taken.
- *Notifiers* (`DFairness`): the log and the Slack notifier return (the client of
  Slack has a timeout of 10 s, `notifier.go:108`); the e-mail notifier need not
  (`smtp.SendMail`, `notifier.go:241`, has none).
- *Plugins*: need not exit by themselves. `TidySpec` assumes that a descendant
  that holds the output ends some day; without it `IsService` and
  `CtrlCStops` do not hold (section 4).
- *Mutex of the collector*: strong fairness for its reader. Go's mutex hands the
  lock to a waiter that has waited for 1 ms.
- *Hub clients*: nothing is assumed of the peers. On a connection that this side
  closed, reads and pings fail at once; writes have a deadline of 10 s.
- *Watchdog*: components that are not stuck beat within the timeout they pass to
  `RegisterWatchdog` (`Advance` waits for them), as `monitor.go:67-68` asks of them;
  they know no other. The one the check goes by may be shorter (section 4).

## 4. Where documents and code differ

Two runs are expected to fail; each checks what a comment says:

- `alert_nil` / `NoPanic`. `notifier.go:29`: "Nil entries are skipped so callers
  can conditionally include notifiers". `main.go:82-97` passes nil pointers of
  concrete types, which are not nil as interfaces; the first notification of an
  agent that lacks Slack or e-mail dereferences one and ends the process.
- `tsdb_retry` / `RetriedNextFlush`. `writer.go:31-33`: "the Manager will log and
  retry on the next flush interval". The cursors have moved by then
  (`writer.go:138`).

Others show in the shape of a property that holds; they are findings in
`PROJECT.json` too:

- `engine.go:90`, "Zero means fire immediately": such a rule is still Pending from
  one evaluation to the next. `NoneOverdue` therefore excepts what entered in
  this evaluation.
- `writer.go:124`: a sample of the second of the cursor counts as sent, though it
  may not be. `LossesExplained` has the disjunct `Overtaken`.
- `monitor.go:67-68`, "onStuck is called if the component does not call Heartbeat
  within timeout": `RegisterWatchdog` makes no use of its `timeout`. The check goes
  by the argument of `StartWatchdog`, or 60 s (`monitor.go:94-97`). If that is
  shorter, a component that beats as it registered is called back again and again:
  `OnlyStuckIsCalled` has the antecedent `Granted`. If it is longer, one that is
  stuck is called back late, with which `StuckIsRestarted` is content.
- `writer.go:51`, "to avoid re-sending": the cursor is the stamp of the last sample,
  not the largest, so a sample that an earlier stamp follows is sent by every
  flush while it is among the last 60. It takes a clock set back, or two plugin
  files with one plugin name (`loader.go:283`). `InOrderAtMostOnce` has the
  disjunct `SetBack`.
- `README.md:105`, "No restart needed": not if the directory held no plugin at
  the start (`loader.go:104`). `InstalledIsRun` begins with `loop # "none"`.
- `loader.go:28-29`: a plugin over its timeout is killed, but the run lasts until
  its output is closed (`loader.go:216`), and with it the loop, `Stop` and, as
  further signals are caught, Ctrl+C (`main.go:220`). `IsService` and
  `CtrlCStops` need `TidySpec`.
- `backends.go:70`, "one TimeSeries per unique label-set": `a.b` and `a_b` become
  one metric name, and two series of one request may have the same labels. This
  is all that the last conjunct of `PromReceivesBatch` allows. `/metrics` has the
  same two lines (`monitor.go:265`); the format leaves open what a scraper does with
  them, and the one of `ReadersToldLatest` keeps both.
- `monitor.go:199`, "all metrics in Prometheus text exposition format": a `-` in a
  key of a plugin or in the name of an interface stays, and a scraper refuses the
  whole page. `ReadersToldLatest` assumes `WellNamed`.
- `README.md:84`, `/api/plugins` gives "Plugin metric values (JSON)": JSON has no
  NaN, which `ParseFloat` accepts; the encoder's error is ignored, and the answer
  is empty for all plugins. `ReadersToldLatest` assumes finite values.
- `loader.go:26-27`: tags make a series "unique" in its name; `parseLine` drops
  them, and of lines with one key `InfluxReceivesBatch` keeps only the last.

Met while reading, without a run:

- `engine.go:130` says that `eventCh` "receives every state transition"; a full
  channel drops them (`engine.go:300-303`), and nobody receives.
- `main.go:149` starts the watchdog "restarts collector if it stops sending
  heartbeats", but registers no callback and nothing sends heartbeats.
- `backends.go:199` says "zigzag encode"; the next line writes a plain varint, which
  is what remote write asks for.
- `collector.go:278` says that `nvme0n1p1` "is kept"; the test at
  `collector.go:283` skips it.
- `collector.go:92` asks for 8 fields of a CPU line and reads a ninth: a line of
  just 8, as kernels before 2.6.11 print, would end the agent.
- `collector.go:135-142`: the kernel may take iowait back (proc(5)); the difference
  then wraps, and so may the sum that divides all of them. `IncrementsReportedOnce`
  says nothing of such a CPU, and of the counters of a device that begin again
  only that the reports are off by a multiple of their range.
- `monitor.go:54`, counters "called by other packages": nothing calls them, and
  `/metrics` and `/api/selfmon` show 0 alerts fired, errors and points sent.
- `hub.go:84-88`: a snapshot that JSON cannot express is dropped as a frame.
- `hub.go:96`: a client that left before it was registered stays in the map, and
  `ClientCount` counts it.

## 5. Proofs

The theorems hold for every value of the constants that the named assumptions
allow: any number of series, rules, clients, plugins, devices or exporters, any
capacities, and any value of the bounds that TLC needs. `BoundAssumption` and its
like say only that a bound is a number. Each module has one inductive invariant
(`IInv`, checked by TLC on the instance of the run before it was proved), a lemma
per action or group of actions that each preserves it, and theorems that follow.

**`StoreProofs`**: from `CapAssumption` (capacities are integers, the default
positive) and `BlankAssumption` of `Ring`, `RequestAssumption` of `Store`.

- `TypeCorrect`: `RSpec => []RTypeOK`, and `RingIsBoundedLog`: `RSpec =>
  BoundedLog`, i.e. the buffer, seen through `Last(0)`, is `SampleLog!Spec`. `Cap` is
  positive whatever `New` is given (`CapPositive`); all operands of `%` lie below
  `3 * Cap`, where `%` subtracts 0, 1 or 2 capacities (`ModWindow`); so the i-th
  oldest sample is one step back from the write position, wrapped at most once
  (`LastIndex`, `BackBeforeFull`); one push appends to the sequence read that way,
  and drops its head iff the buffer was full (`PushExtends`).
- `StoreTypeCorrect`, `PointersNeverStale`: `Spec => []TypeOK`, `[]PointersAgree`.
  `PointersAgree` is inductive with `TypeOK` because `Create` looks the name up again
  and the table never gives an entry up (`CreateInv`).
- `StoreIsAtomic`: `Spec => AtomicStore`. A push takes effect when it appends, and
  by `PointersAgree` it appends to the buffer in the table, which is what the
  abstract log of the name is read from (`AppendCommits`); `CreateLists` shows that
  a new, empty buffer changes no log. A read takes effect at `ReadBuffer`
  (`LatestIsLast`: `Latest` is `Last(1)`; hence the conjunct `LatestAsksForOne`).

**`AlertEngineProofs`**: from `DefAssumption`, `ValueAssumption` and
`BoundAssumption` of `AlertEngine`, `ConfigurationsAssumption` of `AlertDelivery`.

- `FiresOnlyIfHeld`: `Spec => []FiringWasHeld`, and `FiresWhenDue`: `Spec =>
  []NoneOverdue`. Neither is inductive. `IInv` adds `TickIsNew` (a tick is later
  than the evaluation that took the one before, so `now` grows strictly),
  `ClearBefore` (a rule still to be visited was last found false before `now`;
  this makes the `<` of `FiringWasHeld` strict when a rule enters Pending),
  `PendingBefore`, `DataSeen` (a rule that left "ok" has a sample, so a visit
  cannot skip it and leave it overdue), `LoopOfPhase` and `CalmAtSetup`. The
  lemma `VisitOutcome` puts what `evaluate` does to one rule into one formula.
- `QuietOnceStopped`: `Spec => QuietAfterStop`, as the loop has exited by then.
- `EngineImplementsLife`: `Spec => Lifecycle`; each visit maps to a step of
  `AlertLifecycle` or to none, and `AddRule` to none by `CalmAtSetup`.
- `DeliveryIsEngine`: `DSpec => Spec`, so that the four hold of `AlertDelivery`,
  which is what the run `alert` checks.
- `DeliveryTypeCorrect`: `DSpec => []DTypeOK`, and `PanicsOnlyUnconfigured`: the
  panic that `alert_nil` exhibits is met only by a process that lacks Slack or
  e-mail. A notification has at most one goroutine (`OneJobEach`), and all three
  notifiers are in every list because a typed nil is not `nil` (`NotifiersAre`).

**`TsdbManagerProofs`**: from `MetricAssumption` (series are numbered, for the order
of `flush`), `WritersAssumption` (there is a writer) and `BoundAssumption`.

- `SentInOrderOnce`: `[]InOrderAtMostOnce`; `EveryLossExplained`:
  `[]LossesExplained`; `StopDrains`: `[]DrainedAtStop`; `WritersGetTheSame`:
  `[]SameBatches`; `ManagerTypeCorrect`. They need `CursorIsSent` (a cursor is the
  stamp of a sample that was sent, and no earlier than that of the last sample
  looked at), `Draining` (once the loop has exited, a series that the final flush
  has visited gets nothing more), `Batches` (what was sent is what each writer was
  handed, plus the batch for those whose turn is to come) and `Control`.
- The loop of `flush` over the window is the recursive function `Kept`. That it
  exists and what it returns is an induction up to the length of the window,
  which is done with sets: a set of naturals below a bound has a least element
  (`Least`, from the well-foundedness of `\subset` on finite sets), so one that
  holds 0 and successors holds all (`UpTo`); then `KeptStep`, `KeptIs`, `FreshIs`.

**`HubProofs`**: from `CapAssumption` (channels have room). `HubTypeCorrect`, and
`NeverSendsOnClosed`: `[]NoSendOnClosed`. A client's unregister may be handled
before its register, so "a closed client is not in the map" is not inductive:
`ClosedForGood` adds that no register of a closed client is left in the channel,
`RegisteredOnce` that there was one only, `UnknownBefore` that a client is nowhere
before its handler enrols it.

**`PluginLoaderProofs`**: from `MaxLinesAssumption`. `LoaderTypeCorrect`;
`RunsAreTimely`: `OneTimelyRun`, from `RunsOnlyInRunAll` (outside `runAll` no run is
under way) and `ParsedInTime` (a run that is parsed ended before its deadline);
`LoaderServes`: `Spec => Goroutine!Init /\ [][Goroutine!Next]_...`, the safety
half of `IsService`.

**`CollectorProofs`**: from `DeviceAssumption` and `BoundAssumption`, of which the
last conjunct, `3 * MaxGrowth < Modulus`, says that the three counters of a CPU
together grow by less than 2^64 between two readings, one second apart by default.

- `EachIncrementOnce`: `[]IncrementsReportedOnce`. The property speaks of devices
  without pushes under way; `Balance` says it of all, counting the pending push of
  a counter as done; `OncePending` makes that one push; `Readings` says that the
  map of previous readings is what the kernel said last. The arithmetic is in
  `GrownBy` (a difference modulo the modulus is the growth, if that is less),
  `NotAdvanced` (the total of a CPU stands still only if all its counters do, so
  that nothing is lost when `collectCPU` skips it) and `Restarts` (after a fall the
  report is off by the modulus). Reading a device is split from pushing for it
  (`CountInv`, `PushInv`).
- `SnapshotTornByOne`: `[]TornByOne`. A snapshot and the collector share nothing
  but the store, so the argument is about sample numbers: a collection comes to a
  device once (`OncePerRound`, with `Ahead`: the devices it has still to come to);
  so the series of a device grow together but for the pushes that are pending
  (`InStep`); and none is more than one sample behind what was read (`ReadInStep`).
- `CollectorTypeCorrect`, which includes that no series has more samples than
  there were collections, and `CollectorServes`, the safety half of `IsService`.

**`AgentProofs`**, for `Watchdog`: from `TimeoutAssumption`, `IntervalAssumption`
and `UseAssumption`, none of which relates the timeouts that components register
with to those of the check. `WatchdogTypeCorrect`, and `CallsOnlyTheStuck`: `WSpec =>
OnlyStuckIsCalled`. The mutex is given up between the test and the reset of
`lastSeen`: `DueForCall` says what then still holds of the component found silent,
`SilentHasHung` that silence beyond the timeout a component registered with means
that it hung, and `SeenSinceCall` that the last callback is no nearer than the last
sign of life; the last two except the component whose reset is due. The check finds
silence beyond its own timeout, so `Granted` is what makes `SilentHasHung` apply.

**`AgentProofs`**, for `Agent`: from `ExporterAssumption` (exporters are distinct) and
`MaxAssumption`. `AgentTypeCorrect`, and `NoSampleLeftBehind`:
`[]NothingLeftBehind`. `DeferredInReverse` says that the Stops left are those of the
first services in reverse, `Progress` how far `main` has come; as the exporters are
the first services, the producers have stopped when the first of them drains, and
`StoppedHasAll` is kept.

**`ExportProofs`**: from `CodeAssumption` of `RemoteWrite` and, of `Export`,
`CharacterAssumption` (section 2), `PastAssumption` and `OutputAssumption` (samples
and lines are sequences of what their names say) and `BoundAssumption`. Its core is that
decoding undoes encoding, for batches, names, stamps and messages of every size:

- The *inductions* are the library's only by their idea, as its theorems take an
  operator: `Least`, `StrongInduction` and `Induction` are about sets of naturals, and
  `Recursion` says that a function with a given step on a set of naturals exists
  and what it is. The recursive functions go through it (`VarintIs`, `VarintAtIs`,
  `PluginNameIs`, `DecimalIs`, and `ChainExists` for the fields of a message and the
  elements of a block).
- *Concatenation*: `JoinedIs` and `PartsIn` say where the parts of a `FlattenSeq` lie,
  `AtConcat` and `AtPart` what stands there; `VarintRead`, `DelimitedReads`,
  `Int64Reads` and `DoubleReads` that one field is read back at any place in a message.
- *Messages*: a decoder walks from field to field. `ChainExists` and `MessageOf` show
  that it meets each field that was written and no other, so that labels, samples
  and series are read back one inside the other (`LabelRead` to `RequestRead`), and
  `SnappyRead` that the runs of 60 bytes make up the message again: `WriteRequestRead`.
- *Order*: `OrderedIs` and `OrderedUnique` (the elements of a finite set in a total
  order, one way only), `LessOrder` (byte order of names is total, as `Code` is
  injective), `SortedIs` and `TimesPermuted` (sorting by time keeps each sample as
  often as it was), `PromNamesDiffer` (names become one only by "." and "_").
- *Lines*: `SplitIs` says that splitting at unprotected separators undoes joining
  parts that have none (`Parted`); `EscapedIs` that an escaped name has none, and
  that the receiver removes just the backslashes that were put in, also from a name
  that has some of its own; `DecimalsDiffer` that other stamps have
  other digits; then `PointRead`, `LinesRead` and `DatabaseRead`, by which of the
  points with one key and stamp the last is what is stored.
- *The way there*: `PluginNameIs` and `MetricKeyIs` say what a file and a line can put
  into the name of a series, for files and lines of any length. `ExportTyped` is the
  inductive invariant of the store, of what is parsed and of the stages of a request;
  `ExportTypeCorrect`, `ExportPromReceivesBatch` and `ExportInfluxReceivesBatch`
  follow, with the lemmas above, from its part `FlushSent`.
- `ExportReadersToldLatest` needs `PagesTold` as well: every series there was when the
  request began is either in `todo` or told of by a line that names a sample no older
  than its latest then. What is read is the latest of that moment (`LatestTold`), and
  as plugins only append (`Grows`) it stays no older than that (`ToldGrows`).

## 6. What is only model-checked, and what is left out

Every safety property that a run expects to hold is proved too. Only
model-checked is liveness: `SlackReached`, `StopDespiteHang`, `PumpsEnd`,
`RegisterServed`, `InstalledIsRun`, `SnapshotEnds`, `StuckIsRestarted`, `CtrlCStops`,
and the return of `Stop` in `IsService`. They rest on fairness, hence on `ENABLED`,
which the provers do not treat.

Not modelled: `MultiWriter` (unused); authentication and status codes of the
writers (a `Write` succeeds or fails); the handlers other than `/metrics` and
`/api/plugins` (each is one read of the store, of the engine or of a counter, and
in that a reader of `Store`); figures of the Go runtime; parsing of `/proc` lines
beyond which of them count; the dashboard's HTML and JavaScript, which is two
thirds of `web.go`; packaging.

## 7. Plan

Written first: what carries the data (`Ring`, `Store`), then what acts on it
(`AlertEngine`, `TsdbManager`), what feeds it (`Collector`, `PluginLoader`), what
shows it (`Hub`), then `Agent`, which puts the lifetimes together, and `Export`,
which follows a sample from its line to its reader; then the proofs, in section
5's order of modules. What could follow:

1. The liveness properties, by arguments the provers accept: the `ENABLED` of each
   fair action rewritten as a state predicate, and shown to persist until it acts.
2. `Export` with more than one flush, so that what `TsdbManagerProofs` says of the
   cursors and `ExportProofs` of the bytes are theorems of one specification.
3. `MultiWriter`, once `main` uses it.
