----------------------------- MODULE Collector -----------------------------
(***************************************************************************)
(* collector.Manager and BuildSnapshot of package web.  A goroutine reads  *)
(* the kernel's files once per tick; counters become differences to the    *)
(* previous reading, which is kept in maps under a mutex, and each value   *)
(* is pushed into the store on its own.  BuildSnapshot runs beside it: it  *)
(* asks for the names of devices and reads latest values one by one.       *)
(*                                                                         *)
(* A few fields stand for the many of a line, one device for each of       *)
(* meminfo and loadavg.  Division by the elapsed time, percentages and     *)
(* rounding are left out: a value is the difference it is computed from.   *)
(***************************************************************************)
EXTENDS Integers, SequencesExt

CONSTANTS
  Device,     (* what the files list: CPUs, block devices, interfaces      *)
  Hosts,      (* the machines: sets of devices                             *)
  Kind,       (* Kind[d]: the file that lists d                            *)
  Name,       (* Name[d]: what isSkippedDev tests in the name of d         *)
  Modulus,    (* of the counters, 2^64 in the code                         *)
  MaxGrowth,  (* bound on the growth of a counter between two readings     *)
  MaxRound    (* bound on the number of collections                        *)

\* collect, in its order.
Files == <<"stat", "meminfo", "diskstats", "netdev", "loadavg">>

ASSUME DeviceAssumption ==
  /\ Hosts \subseteq SUBSET Device
  /\ Kind \in [Device -> Range(Files)]
  /\ Name \in [Device -> [pseudo : BOOLEAN, digit : BOOLEAN, nvme : BOOLEAN, p : BOOLEAN]]
ASSUME BoundAssumption ==
  /\ Modulus \in Nat \ {0} /\ MaxGrowth \in Nat /\ MaxRound \in Nat
  /\ 3 * MaxGrowth < Modulus

Counter == 0 .. Modulus - 1

\* What is read of a device, the keys it is pushed under in the order of the
\* pushes, and whether its readings are kept, under the mutex.
collectCPU == [fields |-> {"user", "idle", "iowait"},
               keys |-> <<"total", "user", "iowait">>, kept |-> TRUE]

collectMemory == [fields |-> {"used"}, keys |-> <<"used">>, kept |-> FALSE]

collectDisk == [fields |-> {"read", "write"}, keys |-> <<"read", "write">>, kept |-> TRUE]

collectNetwork == [fields |-> {"rx", "tx"},
                   keys |-> <<"rx", "tx", "rx_total">>, kept |-> TRUE]

collectLoadAvg == [fields |-> {"1m"}, keys |-> <<"1m">>, kept |-> FALSE]

Collect == [stat |-> collectCPU, meminfo |-> collectMemory, diskstats |-> collectDisk,
            netdev |-> collectNetwork, loadavg |-> collectLoadAvg]

Keys(d) == Collect[Kind[d]].keys
Field(d) == Collect[Kind[d]].fields
Counted(d) == Collect[Kind[d]].kept
Removable == {d \in Device : Kind[d] \in {"diskstats", "netdev"}}
Key(d) == Range(Keys(d))
Series == UNION {{<<d, k>> : k \in Key(d)} : d \in Device}

VARIABLES
  phase,      (* of the owner: "setup", "running", "stopping", "stopped"   *)
  loop,       (* the goroutine: "none", "collect", "select", "exited"      *)
  tick,       (* the ticker's channel holds a tick                         *)
  round,      (* the collections begun                                     *)
  file,       (* the file collect is at, an index of Files                 *)
  opened,     (* it has been read                                          *)
  mu,         (* the mutex is held by collect                              *)
  todo,       (* the devices it listed that have not been processed        *)
  pending,    (* the pushes for the device in hand                         *)
  prev,       (* prevCPU, prevDisk and prevNet: readings by device         *)
  store,      (* store[<<d, k>>]: how many samples the series has had      *)
  host,       (* the devices of this machine                               *)
  plugged,    (* the devices the kernel lists                              *)
  restarted,  (* those whose counters began at zero since their reading    *)
  counter,    (* counter[d]: the kernel's counters of d when last read     *)
  reader,     (* BuildSnapshot: "idle", "fixed", "disks", "interfaces"     *)
  toRead,     (* the series it has listed and not read                     *)
  newest,     (* newest[d]: the highest sample number read of d            *)
  behind,     (* behind[d]: how far a later read of d fell behind that     *)
  owed,       (* history: what a counter grew by minus what was pushed     *)
  fallen      (* history: devices with a counter that was read lower       *)

owner == <<phase, loop, tick, round>>
work == <<file, opened, mu, todo, pending>>
kernel == <<host, plugged, restarted, counter>>
snapshot == <<reader, toRead, newest, behind>>
hist == <<owed, fallen>>
vars == <<owner, work, prev, store, kernel, snapshot, hist>>

Nothing == [d \in Device |-> 0]

TypeOK ==
  /\ phase \in {"setup", "running", "stopping", "stopped"}
  /\ loop \in {"none", "collect", "select", "exited"}
  /\ tick \in BOOLEAN /\ opened \in BOOLEAN /\ mu \in BOOLEAN
  /\ round \in 0 .. MaxRound /\ file \in 1 .. Len(Files)
  /\ todo \subseteq {d \in Device : Kind[d] = Files[file]}
  /\ pending \in Seq([series : Series, value : Counter])
  /\ DOMAIN prev \subseteq Device
  /\ \A d \in DOMAIN prev : Counted(d) /\ prev[d] \in [Field(d) -> Counter]
  /\ store \in [Series -> 0 .. MaxRound]
  /\ host \in Hosts /\ plugged \subseteq host
  /\ toRead \subseteq Series
  /\ newest \in [Device -> Nat] /\ behind \in [Device -> Nat]
  /\ mu => opened /\ loop = "collect"

Init ==
  /\ phase = "setup" /\ loop = "none" /\ tick = FALSE /\ round = 0
  /\ file = 1 /\ opened = FALSE /\ mu = FALSE /\ todo = {} /\ pending = <<>>
  /\ prev = <<>>
  /\ store = [s \in Series |-> 0]
  /\ host \in Hosts /\ plugged = host /\ restarted = {}
  /\ counter = [d \in Device |-> [f \in Field(d) |-> 0]]
  /\ reader = "idle" /\ toRead = {} /\ newest = Nothing /\ behind = Nothing
  /\ owed = [d \in Device |-> [f \in Field(d) |-> 0]] /\ fallen = {}

-----------------------------------------------------------------------------
(* The kernel and the ticker.                                              *)

Unplug(d) ==
  /\ d \in Removable \cap plugged
  /\ plugged' = plugged \ {d}
  /\ UNCHANGED <<owner, work, prev, store, host, restarted, counter, snapshot, hist>>

\* A device comes back, as it was or with counters that begin at zero.
Plug(d) ==
  /\ d \in (Removable \cap host) \ plugged
  /\ plugged' = plugged \cup {d}
  /\ restarted' \in {restarted, restarted \cup ({d} \cap DOMAIN prev)}
  /\ UNCHANGED <<owner, work, prev, store, host, counter, snapshot, hist>>

Tick ==
  /\ loop \in {"collect", "select"} /\ ~tick
  /\ tick' = TRUE
  /\ UNCHANGED <<phase, loop, round, work, prev, store, kernel, snapshot, hist>>

-----------------------------------------------------------------------------
(* Start, Stop and the loop.                                               *)

BeginCollect ==
  /\ loop' = "collect" /\ round' = round + 1 /\ file' = 1
  /\ UNCHANGED <<opened, mu, todo, pending, prev, store, kernel, snapshot, hist>>

Start ==
  /\ phase = "setup" /\ round < MaxRound
  /\ phase' = "running"
  /\ BeginCollect
  /\ UNCHANGED tick

TakeTick ==
  /\ loop = "select" /\ tick /\ round < MaxRound
  /\ tick' = FALSE
  /\ BeginCollect
  /\ UNCHANGED phase

LoopExit ==
  /\ loop = "select" /\ phase = "stopping"
  /\ loop' = "exited"
  /\ UNCHANGED <<phase, tick, round, work, prev, store, kernel, snapshot, hist>>

Stop ==
  /\ phase = "running"
  /\ phase' = "stopping"
  /\ UNCHANGED <<loop, tick, round, work, prev, store, kernel, snapshot, hist>>

\* Slip: Stop does not wait for the goroutine.
StopReturnsAtOnce ==
  /\ phase = "stopping"
  /\ phase' = "stopped"
  /\ UNCHANGED <<loop, tick, round, work, prev, store, kernel, snapshot, hist>>

StopReturns ==
  /\ phase = "stopping" /\ loop = "exited"
  /\ phase' = "stopped"
  /\ UNCHANGED <<loop, tick, round, work, prev, store, kernel, snapshot, hist>>

-----------------------------------------------------------------------------
(* collect: one file after the other.                                      *)

isSkippedDev(d) ==
  /\ Kind[d] = "diskstats"
  /\ Name[d].pseudo \/ (Name[d].digit /\ (Name[d].nvme => Name[d].p))

\* The lines are parsed; a file that cannot be opened lists nothing.  Values
\* are chosen when a device is processed: nobody sees them before.
ReadFile ==
  /\ loop = "collect" /\ ~opened
  /\ opened' = TRUE
  /\ Collect[Files[file]].kept => ~mu
  /\ mu' = (mu \/ Collect[Files[file]].kept)
  /\ todo' = {d \in plugged : Kind[d] = Files[file] /\ ~isSkippedDev(d)}
  /\ UNCHANGED <<owner, file, pending, prev, store, kernel, snapshot, hist>>

\* Slip: a signed difference.
MinusSigned(x, y) == x - y

Minus(x, y) == (x - y) % Modulus

total(c) == c["user"] + c["idle"] + c["iowait"]

\* The difference of the totals of two readings.
Elapsed(c, p) == Minus(total(c), total(p))

idleTotal(c) == c["idle"] + c["iowait"]

Value(k, c, p) ==
  CASE k = "total" -> Minus(Elapsed(c, p), Minus(idleTotal(c), idleTotal(p)))
    [] k = "rx_total" -> c["rx"]
    [] OTHER -> Minus(c[k], p[k])

\* Slip: what did not change is not pushed.
PushesChanged(d, c) ==
  IF d \notin DOMAIN prev THEN <<>>
  ELSE SelectSeq([i \in 1 .. Len(Keys(d)) |->
                    [series |-> <<d, Keys(d)[i]>>,
                     value |-> Value(Keys(d)[i], c, prev[d])]],
                 LAMBDA p : p.value # 0)

\* The pushes for a new reading: none for the first one, and none for a CPU
\* that has not advanced.
Pushes(d, c) ==
  IF \/ d \notin DOMAIN prev
     \/ Kind[d] = "stat" /\ Elapsed(c, prev[d]) = 0
  THEN <<>>
  ELSE [i \in 1 .. Len(Keys(d)) |->
          [series |-> <<d, Keys(d)[i]>>,
           value |-> Value(Keys(d)[i], c, prev[d])]]

\* Slip: only the first reading is remembered.
RememberFirst(d, c) ==
  /\ pending' = Pushes(d, c)
  /\ prev' = IF d \in DOMAIN prev THEN prev ELSE (d :> c) @@ prev

Remember(d, c) ==
  /\ pending' = Pushes(d, c)
  /\ prev' = [e \in DOMAIN prev \cup {d} |-> IF e = d THEN c ELSE prev[e]]

InHand(d) ==
  /\ opened /\ pending = <<>> /\ d \in todo
  /\ todo' = todo \ {d}
  /\ UNCHANGED <<owner, file, opened, mu, store, host, plugged, snapshot>>

\* The first reading of a counter; it may stand anywhere.
Seed(d) ==
  /\ Counted(d) /\ d \notin DOMAIN prev /\ InHand(d)
  /\ \E start \in {0, Modulus - 1} :
       counter' = [counter EXCEPT ![d] = [f \in Field(d) |-> start]]
  /\ Remember(d, counter'[d])
  /\ UNCHANGED <<restarted, owed, fallen>>

\* The counter of a field is read again, g higher than before.
Read(d, g) ==
  /\ counter' = [counter EXCEPT ![d] = [f \in Field(d) |-> (@[f] + g[f]) % Modulus]]
  /\ owed' = [owed EXCEPT ![d] = [f \in Field(d) |->
                                     IF f \in Key(d) THEN @[f] + g[f] ELSE 0]]
  /\ fallen' = IF \E f \in Field(d) : g[f] < 0 THEN fallen \cup {d} ELSE fallen
  /\ Remember(d, counter'[d])

\* A later one: the counters have grown and may have gone round; the kernel may
\* take back some of the time it called iowait.
Reread(d) ==
  /\ d \in DOMAIN prev \ restarted /\ InHand(d)
  /\ \E g \in [Field(d) -> -1 .. MaxGrowth] :
       /\ \A f \in Field(d) : g[f] < 0 => f = "iowait" /\ counter[d][f] > 0
       /\ Read(d, g)
  /\ UNCHANGED restarted

\* A later one of counters that have begun again.
RereadRestarted(d) ==
  /\ d \in DOMAIN prev \cap restarted /\ InHand(d)
  /\ Read(d, [f \in Field(d) |-> -counter[d][f]])
  /\ restarted' = restarted \ {d}

\* meminfo and loadavg: values, not counters; any value stands for them all.
Gauge(d) ==
  /\ ~Counted(d) /\ InHand(d)
  /\ pending' = [i \in 1 .. Len(Keys(d)) |->
                   [series |-> <<d, Keys(d)[i]>>, value |-> 0]]
  /\ UNCHANGED <<prev, restarted, counter, owed, fallen>>

\* store.Push; the history adds up the differences.
Push ==
  /\ pending # <<>>
  /\ LET p == Head(pending)  d == p.series[1]  k == p.series[2]
     IN  /\ store' = [store EXCEPT ![p.series] = @ + 1]
         /\ owed' = IF Counted(d) /\ k \in Field(d)
                      THEN [owed EXCEPT ![d][k] = @ - p.value] ELSE owed
  /\ pending' = Tail(pending)
  /\ UNCHANGED <<owner, file, opened, mu, todo, prev, kernel, snapshot, fallen>>

\* The next file, or the end of collect.
NextFile ==
  /\ opened' = FALSE
  /\ IF file = Len(Files) THEN loop' = "select" /\ UNCHANGED file
                          ELSE file' = file + 1 /\ UNCHANGED loop
  /\ UNCHANGED <<phase, tick, round, todo, pending, prev, store, kernel, snapshot, hist>>

\* Slip: a return before anything was remembered skips the unlock.
EndFileLocked ==
  /\ opened /\ pending = <<>> /\ todo = {}
  /\ mu' = (mu /\ DOMAIN prev = {})
  /\ NextFile

EndFile ==
  /\ opened /\ pending = <<>> /\ todo = {}
  /\ mu' = FALSE
  /\ NextFile

CollectStep ==
  \/ ReadFile \/ Push \/ EndFile
  \/ \E d \in Device : Seed(d) \/ Reread(d) \/ RereadRestarted(d) \/ Gauge(d)

-----------------------------------------------------------------------------
(* BuildSnapshot: CPU, memory and load, then the disks, then the interfaces. *)

SeriesOf(devices) == {s \in Series : s[1] \in devices}

BeginSnapshot ==
  /\ reader = "idle"
  /\ reader' = "fixed"
  /\ toRead' = SeriesOf({d \in host : Kind[d] \in {"stat", "meminfo", "loadavg"}})
  /\ UNCHANGED <<owner, work, prev, store, kernel, newest, behind, hist>>

\* latestF of one series; those of a device are read in their order.
ReadLatest ==
  /\ \E d \in Device : \E i \in 1 .. Len(Keys(d)) :
       LET s == <<d, Keys(d)[i]>>  n == store[s]
       IN  /\ s \in toRead /\ \A j \in 1 .. i - 1 : <<d, Keys(d)[j]>> \notin toRead
           /\ IF n >= newest[d]
                THEN newest' = [newest EXCEPT ![d] = n] /\ UNCHANGED behind
                ELSE behind' = [behind EXCEPT ![d] = newest[d] - n] /\ UNCHANGED newest
           /\ toRead' = toRead \ {s}
  /\ UNCHANGED <<owner, work, prev, store, kernel, reader, hist>>

\* DeviceNames and InterfaceNames take the mutex.
ListNames(from, to, kind) ==
  /\ reader = from /\ toRead = {} /\ ~mu
  /\ reader' = to
  /\ toRead' = SeriesOf({d \in DOMAIN prev : Kind[d] = kind})
  /\ UNCHANGED <<owner, work, prev, store, kernel, newest, behind, hist>>

DeviceNames == ListNames("fixed", "disks", "diskstats")
InterfaceNames == ListNames("disks", "interfaces", "netdev")

EndSnapshot ==
  /\ reader = "interfaces" /\ toRead = {}
  /\ reader' = "idle"
  /\ newest' = Nothing /\ behind' = Nothing
  /\ UNCHANGED <<owner, work, prev, store, kernel, toRead, hist>>

ReaderStep == ReadLatest \/ DeviceNames \/ InterfaceNames \/ EndSnapshot

Next ==
  \/ \E d \in Device : Unplug(d) \/ Plug(d)
  \/ Tick
  \/ Start \/ Stop \/ StopReturns \/ TakeTick \/ LoopExit
  \/ CollectStep
  \/ BeginSnapshot \/ ReaderStep

Spec == Init /\ [][Next]_vars

\* Both goroutines are scheduled, select does not ignore stopCh for ever, and the
\* mutex is in the end handed to the reader that waits for it, however often
\* collect takes it again.
FairSpec ==
  /\ Spec
  /\ WF_vars(CollectStep) /\ SF_vars(LoopExit) /\ WF_vars(StopReturns)
  /\ SF_vars(ReaderStep)

-----------------------------------------------------------------------------
Settled(d) == d \notin todo /\ \A p \in Range(pending) : p.series[1] # d

\* Each increment of a counter is reported once and only once, over rounds in
\* which the device was away and when the counter goes round at 2^64.  When
\* the counters of a disk or an interface begin again, the reports are off by a
\* multiple of 2^64, the huge rate the code pushes then, and by nothing else
\* (collector.go:129-142, 248-261, 336-349).
IncrementsReportedOnce ==
  \A d \in DOMAIN prev : Settled(d) =>
    \A f \in Field(d) :
      \/ owed[d][f] = 0
      \/ d \in fallen /\ (Kind[d] = "stat" \/ owed[d][f] % Modulus = 0)

\* A snapshot may be torn, but not backwards by more than one sample: what it
\* reads later of a device is at most one sample older than what it read before,
\* although the collector goes on beside it (web.go:141-220).  It may be newer by
\* any number: nothing bounds how long the reader takes between two series.
TornByOne == \A d \in Device : behind[d] <= 1

\* A snapshot is finished: neither it nor the collector waits for the mutex for
\* ever (collector.go:243-244, 391-392).
SnapshotEnds == reader # "idle" ~> reader = "idle"

Goroutine ==
  INSTANCE Service WITH Output <- [Series -> 0 .. MaxRound],
    alive <- loop \notin {"none", "exited"}, output <- store

\* The collector is a service: nothing is pushed after Stop has returned, and
\* Stop returns, whoever holds the mutex (collector.go:46-68).
IsService == Goroutine!Spec
=============================================================================
