---------------------------- MODULE AgentProofs ----------------------------
(* What main leaves behind when it returns, for any exporters, and what the *)
(* watchdog that it starts calls back, for any components, timeouts and      *)
(* interval of the check.                                                    *)
EXTENDS Agent, Watchdog, Integers, SequenceTheorems, TLAPS

\* The deferred Stops are those of a prefix of the services, in reverse.
DeferredInReverse ==
  /\ Len(defers) <= Len(Services)
  /\ \A i \in 1 .. Len(defers) : defers[i] = Services[Len(defers) + 1 - i]

\* How far main has come, in starting the services and in stopping them.
Progress ==
  /\ main = "start" => next <= Len(Services) /\ Len(defers) = next - 1
  /\ main \in {"listen", "wait"} => Len(defers) = Len(Services)
  /\ main \in {"start", "listen", "wait"} => stopping = {}
  /\ \A s \in stopping : Len(defers) < Len(Services) /\ s = Services[Len(defers) + 1]
  /\ main = "exited" => running = {}

\* An exporter whose Stop has returned has looked at everything, and nothing
\* comes after it.
StoppedHasAll ==
  main \in {"return", "exited"} => \A e \in Exporter \ running : sent[e] = samples

IInv == TypeOK /\ DeferredInReverse /\ Progress /\ StoppedHasAll

-----------------------------------------------------------------------------
\* The exporters come first; no service is started twice.
LEMMA ServicesAre ==
  /\ Exporters \in Seq(Exporter) /\ Len(Exporters) \in Nat
  /\ Services \in Seq(Service) /\ Len(Services) = Len(Exporters) + 3
  /\ \A i \in 1 .. Len(Services) : Services[i] \in Exporter <=> i <= Len(Exporters)
  /\ \A i, j \in 1 .. Len(Services) : Services[i] = Services[j] => i = j
  /\ Service = {Services[i] : i \in 1 .. Len(Services)}
  /\ Exporter \subseteq Service
<1> DEFINE last == <<"collector", "engine", "plugins">>
           Some == Exporter \cup {"collector", "engine", "plugins"}
           n == Len(Exporters)
<1>1. /\ Exporters \in Seq(Exporter) /\ n \in Nat
      /\ \A i, j \in 1 .. n : Exporters[i] = Exporters[j] => i = j
      /\ \A i \in 1 .. n : Exporters[i] \in Exporter
  <2>1. Exporters \in Seq(Exporter)
    BY ExporterAssumption DEF Exporter
  <2>2. n \in Nat /\ DOMAIN Exporters = 1 .. n
    BY <2>1, LenProperties
  <2>3. \A i \in 1 .. n : Exporters[i] \in Exporter
    BY <2>1, ElementOfSeq
  <2>4. \A i, j \in DOMAIN Exporters : Exporters[i] = Exporters[j] => i = j
    BY ExporterAssumption DEF IsInjective
  <2> QED BY <2>1, <2>2, <2>3, <2>4
<1>2. /\ last \in Seq(Some) /\ Len(last) = 3
      /\ last[1] = "collector" /\ last[2] = "engine" /\ last[3] = "plugins"
  OBVIOUS
<1>3. Exporters \in Seq(Some)
  <2>1. Exporters \in [1 .. n -> Some]
    BY <1>1, LenProperties
  <2> QED BY <1>1, <2>1, SeqDef
<1>4. /\ Exporters \o last \in Seq(Some) /\ Len(Exporters \o last) = n + 3
      /\ \A i \in 1 .. n + 3 :
           (Exporters \o last)[i] = IF i <= n THEN Exporters[i] ELSE last[i - n]
  <2> HIDE DEF last, Some
  <2>1. /\ Exporters \o last \in Seq(Some) /\ Len(Exporters \o last) = n + Len(last)
        /\ \A i \in 1 .. n + Len(last) :
             (Exporters \o last)[i] = IF i <= n THEN Exporters[i] ELSE last[i - n]
    BY <1>2, <1>3, ConcatProperties
  <2> QED BY <1>2, <2>1
<1>5. /\ Services \in Seq(Some) /\ Len(Services) = n + 3
      /\ \A i \in 1 .. n + 3 : Services[i] = IF i <= n THEN Exporters[i] ELSE last[i - n]
  BY <1>4 DEF Services
<1> HIDE DEF Some, last, n
<1>6. \A i \in 1 .. n : Services[i] = Exporters[i]
  BY <1>1, <1>5
<1>7. Services[n + 1] = "collector" /\ Services[n + 2] = "engine" /\ Services[n + 3] = "plugins"
  BY <1>1, <1>2, <1>5
<1>8. \A i \in 1 .. n + 3 : i \in 1 .. n \/ i = n + 1 \/ i = n + 2 \/ i = n + 3
  BY <1>1
<1>9. Exporter \cap {"collector", "engine", "plugins"} = {}
  BY ExporterAssumption DEF Exporter
<1>10. \A i \in 1 .. n + 3 : Services[i] \in Exporter <=> i <= n
  BY <1>1, <1>6, <1>7, <1>8, <1>9
<1>11. \A i, j \in 1 .. n + 3 : Services[i] = Services[j] => i = j
  BY <1>1, <1>6, <1>7, <1>8, <1>9
<1>12. Service = {Services[i] : i \in 1 .. n + 3}
  BY <1>5, RangeEquality DEF Service
<1>13. Services \in Seq(Service)
  BY <1>5, SeqOfRange DEF Service
<1>14. Exporter \subseteq Service
  <2>1. Exporter = {Exporters[i] : i \in 1 .. n}
    BY <1>1, RangeEquality DEF Exporter, n
  <2>2. \A i \in 1 .. n : i \in 1 .. n + 3
    BY <1>1
  <2> QED BY <1>6, <1>12, <2>1, <2>2
<1> QED BY <1>1, <1>5, <1>10, <1>11, <1>12, <1>13, <1>14 DEF n

LEMMA DefersAre ==
  ASSUME TypeOK
  PROVE  /\ defers \in Seq(Service) /\ Len(defers) \in Nat
         /\ Range(defers) = {defers[i] : i \in 1 .. Len(defers)}
         /\ Len(Services) \in Nat
<1>1. defers \in Seq(Service)
  BY DEF TypeOK
<1>2. Len(defers) \in Nat /\ Range(defers) = {defers[i] : i \in 1 .. Len(defers)}
  BY <1>1, LenProperties, RangeEquality
<1> QED BY <1>1, <1>2, ServicesAre

LEMMA InitInv == Init => IInv
<1> SUFFICES ASSUME Init PROVE IInv
  OBVIOUS
<1>1. defers = <<>> /\ defers \in Seq(Service) /\ Len(defers) = 0
  BY EmptySeq DEF Init
<1>2. Range(defers) = {}
  <2>1. defers \in Seq(Service)
    BY <1>1
  <2>2. Range(defers) = {defers[i] : i \in 1 .. Len(defers)}
    BY <2>1, RangeEquality
  <2>3. 1 .. 0 = {}
    OBVIOUS
  <2> QED BY <1>1, <2>2, <2>3
<1>3. Len(Services) \in Nat /\ Len(Services) > 0
  BY ServicesAre
<1>4. TypeOK
  <2>1. next \in 1 .. Len(Services) + 1 /\ samples \in 0 .. MaxSamples /\ samples = 0
    BY <1>3, MaxAssumption DEF Init
  <2>2. sent \in [Exporter -> 0 .. samples]
    BY <2>1 DEF Init
  <2> QED BY <1>1, <1>2, <2>1, <2>2 DEF Init, TypeOK
<1>5. DeferredInReverse /\ Progress /\ StoppedHasAll
  BY <1>1, <1>3 DEF Init, DeferredInReverse, Progress, StoppedHasAll
<1> QED BY <1>4, <1>5 DEF IInv

-----------------------------------------------------------------------------
(* main.                                                                   *)

LEMMA StartNextInv ==
  ASSUME IInv, StartNext
  PROVE  IInv'
<1> DEFINE s == Services[next]
           d == Len(defers)
<1>1. /\ main = "start" /\ next <= Len(Services) /\ running' = running \cup {s}
      /\ defers' = <<s>> \o defers /\ next' = next + 1
      /\ main' = (IF next = Len(Services) THEN "listen" ELSE "start")
      /\ UNCHANGED <<stopping, sigCh, held, samples, sent>>
  BY DEF StartNext, data
<1>2. /\ TypeOK /\ d = next - 1 /\ stopping = {} /\ next \in 1 .. Len(Services)
      /\ Len(Services) \in Nat /\ d \in Nat /\ s \in Service
  <2>1. TypeOK /\ d = next - 1 /\ stopping = {}
    BY <1>1 DEF IInv, Progress
  <2>2. next \in 1 .. Len(Services) /\ Len(Services) \in Nat /\ d \in Nat
    BY <1>1, <2>1, DefersAre DEF TypeOK
  <2>3. s \in Service
    BY <2>2, ServicesAre
  <2> QED BY <2>1, <2>2, <2>3
<1> HIDE DEF s
<1>3. <<s>> \in Seq(Service) /\ Len(<<s>>) = 1 /\ <<s>>[1] = s
  BY <1>2
<1>4. /\ <<s>> \o defers \in Seq(Service) /\ Len(<<s>> \o defers) = 1 + d
      /\ \A i \in 1 .. 1 + d : (<<s>> \o defers)[i] = IF i <= 1 THEN <<s>>[i] ELSE defers[i - 1]
  BY <1>2, <1>3, DefersAre, ConcatProperties
<1>5. /\ defers' \in Seq(Service) /\ Len(defers') = d + 1 /\ defers'[1] = s
      /\ \A i \in 2 .. d + 1 : defers'[i] = defers[i - 1]
  BY <1>1, <1>2, <1>3, <1>4
<1>6. Range(defers') = Range(defers) \cup {s}
  <2>1. Range(<<s>> \o defers) = Range(<<s>>) \cup Range(defers)
    <3>1. defers \in Seq(Service)
      BY <1>2 DEF TypeOK
    <3> QED BY <1>3, <3>1, RangeConcatenation, Zenon
  <2>2. Range(<<s>>) = {<<s>>[i] : i \in 1 .. 1}
    BY <1>3, RangeEquality
  <2>3. 1 .. 1 = {1}
    OBVIOUS
  <2> QED BY <1>1, <1>3, <2>1, <2>2, <2>3
<1>7. TypeOK'
  <2>1. next' \in 1 .. Len(Services) + 1 /\ main' \in {"start", "listen"}
    BY <1>1, <1>2
  <2>2. running' \subseteq Service /\ running' = Range(defers') \cup stopping'
    BY <1>1, <1>2, <1>6 DEF TypeOK, Alive
  <2> QED BY <1>1, <1>2, <1>5, <2>1, <2>2 DEF TypeOK
<1>8. DeferredInReverse'
  <2>1. Len(defers') <= Len(Services)
    BY <1>2, <1>5
  <2>2. ASSUME NEW i \in 1 .. d + 1 PROVE defers'[i] = Services[d + 2 - i]
    <3>1. CASE i = 1
      BY <1>2, <1>5, <3>1 DEF s
    <3>2. CASE i # 1
      <4>1. i \in 2 .. d + 1 /\ i - 1 \in 1 .. d /\ d + 1 - (i - 1) = d + 2 - i
        BY <1>2, <3>2
      <4>2. defers[i - 1] = Services[d + 1 - (i - 1)]
        BY <4>1 DEF IInv, DeferredInReverse
      <4> QED BY <1>5, <4>1, <4>2
    <3> QED BY <3>1, <3>2
  <2>3. \A i \in 1 .. Len(defers') : defers'[i] = Services[Len(defers') + 1 - i]
    <3>1. Len(defers') + 1 = d + 2
      BY <1>2, <1>5
    <3> QED BY <1>5, <2>2, <3>1
  <2> QED BY <2>1, <2>3 DEF DeferredInReverse
<1>9. Progress'
  <2>1. main' = "start" => next' <= Len(Services) /\ Len(defers') = next' - 1
    BY <1>1, <1>2, <1>5
  <2>2. main' # "start" => Len(defers') = Len(Services)
    BY <1>1, <1>2, <1>5
  <2> QED BY <1>1, <1>2, <2>1, <2>2 DEF Progress
<1>10. StoppedHasAll'
  BY <1>1 DEF StoppedHasAll
<1> QED BY <1>7, <1>8, <1>9, <1>10 DEF IInv

\* The steps of main that start and stop nothing.
LEMMA OnwardInv ==
  ASSUME IInv, Listen \/ TakeSignal \/ Exit
  PROVE  IInv'
<1>1. UNCHANGED <<next, defers, running, stopping, held, samples, sent>> /\ sigCh' \in BOOLEAN
  BY DEF Listen, TakeSignal, Exit, data, IInv, TypeOK
<1>2. \/ main = "listen" /\ main' = "wait"
      \/ main = "wait" /\ main' = "return"
      \/ main = "return" /\ main' = "exited" /\ stopping = {} /\ defers = <<>>
  BY DEF Listen, TakeSignal, Exit
<1>3. TypeOK /\ running = Range(defers) \cup stopping
  BY <1>2 DEF IInv, TypeOK, Alive
<1>4. TypeOK'
  BY <1>1, <1>2, <1>3 DEF TypeOK
<1>5. DeferredInReverse'
  BY <1>1 DEF IInv, DeferredInReverse
<1>6. main' = "exited" => running = {}
  <2> SUFFICES ASSUME main' = "exited" PROVE Range(defers) = {}
    BY <1>2, <1>3
  <2>1. defers = <<>> /\ Len(defers) = 0 /\ Range(defers) = {defers[i] : i \in 1 .. Len(defers)}
    BY <1>2, <1>3, EmptySeq, DefersAre
  <2>2. 1 .. 0 = {}
    OBVIOUS
  <2> QED BY <2>1, <2>2
<1>7. Progress'
  BY <1>1, <1>2, <1>6 DEF IInv, Progress
<1>8. StoppedHasAll'
  <2>1. CASE main = "wait"
    <3>1. Len(defers) = Len(Services)
      BY <2>1 DEF IInv, Progress
    <3>2. ASSUME NEW e \in Exporter PROVE e \in running
      <4>1. PICK j \in 1 .. Len(Services) : e = Services[j]
        BY ServicesAre
      <4>2. Len(defers) + 1 - j \in 1 .. Len(defers)
            /\ Len(defers) + 1 - (Len(defers) + 1 - j) = j
        BY <1>3, <3>1, DefersAre
      <4>3. defers[Len(defers) + 1 - j] = Services[j]
        BY <4>2 DEF IInv, DeferredInReverse
      <4> QED BY <1>3, <4>1, <4>2, <4>3, DefersAre
    <3> QED BY <1>1, <3>2 DEF StoppedHasAll
  <2>2. CASE main # "wait"
    BY <1>1, <1>2, <2>2 DEF IInv, StoppedHasAll
  <2> QED BY <2>1, <2>2
<1> QED BY <1>4, <1>5, <1>7, <1>8 DEF IInv

LEMMA AbortInv ==
  ASSUME IInv, Abort
  PROVE  IInv'
<1>1. main' = "aborted" /\ running' = {}
      /\ UNCHANGED <<next, defers, stopping, sigCh, held, samples, sent>>
  BY DEF Abort, data
<1>2. TypeOK'
  BY <1>1 DEF IInv, TypeOK, Alive
<1>3. DeferredInReverse' /\ Progress' /\ StoppedHasAll'
  BY <1>1 DEF IInv, DeferredInReverse, Progress, StoppedHasAll
<1> QED BY <1>2, <1>3 DEF IInv

LEMMA CallStopInv ==
  ASSUME IInv, CallStop
  PROVE  IInv'
<1> DEFINE d == Len(defers)
<1>1. /\ main = "return" /\ stopping = {} /\ defers # <<>>
      /\ stopping' = {Head(defers)} /\ defers' = Tail(defers)
      /\ UNCHANGED <<main, next, running, sigCh, held, samples, sent>>
  BY DEF CallStop, data
<1>2. /\ TypeOK /\ defers \in Seq(Service) /\ d \in Nat \ {0} /\ Len(Services) \in Nat
      /\ d <= Len(Services)
  BY <1>1, DefersAre, EmptySeq DEF IInv, DeferredInReverse
<1>3. /\ defers' \in Seq(Service) /\ Len(defers') = d - 1
      /\ \A i \in 1 .. d - 1 : defers'[i] = defers[i + 1]
      /\ Head(defers) = defers[1] /\ Head(defers) \in Service
  <2>1. /\ Tail(defers) \in Seq(Service) /\ Len(Tail(defers)) = d - 1
        /\ \A i \in 1 .. d - 1 : Tail(defers)[i] = defers[i + 1]
    BY <1>1, <1>2, HeadTailProperties
  <2>2. Head(defers) = defers[1]
    BY <1>1, <1>2
  <2>3. defers[1] \in Service
    BY <1>2, ElementOfSeq
  <2> QED BY <1>1, <2>1, <2>2, <2>3
<1>4. Range(defers) = Range(defers') \cup {Head(defers)}
  <2>1. Range(defers) = {defers[i] : i \in 1 .. d}
    BY <1>2, RangeEquality
  <2>2. Range(defers') = {defers'[i] : i \in 1 .. d - 1}
    BY <1>3, RangeEquality
  <2>3. \A i \in 1 .. d : i = 1 \/ (i - 1 \in 1 .. d - 1 /\ (i - 1) + 1 = i)
    BY <1>2
  <2>4. 1 \in 1 .. d /\ \A i \in 1 .. d - 1 : i + 1 \in 1 .. d
    BY <1>2
  <2> HIDE DEF d
  <2>5. Range(defers) \subseteq Range(defers') \cup {Head(defers)}
    <3> SUFFICES ASSUME NEW i \in 1 .. d PROVE defers[i] \in Range(defers') \cup {Head(defers)}
      BY <2>1
    <3>1. i = 1 \/ (i - 1 \in 1 .. d - 1 /\ defers[i] = defers'[i - 1])
      BY <1>3, <2>3
    <3> QED BY <1>3, <2>2, <3>1
  <2>6. Range(defers') \cup {Head(defers)} \subseteq Range(defers)
    BY <1>3, <2>1, <2>2, <2>4
  <2> QED BY <2>5, <2>6
<1>5. TypeOK'
  BY <1>1, <1>2, <1>3, <1>4 DEF TypeOK, Alive
<1>6. DeferredInReverse'
  <2>1. \A i \in 1 .. d - 1 : defers'[i] = Services[d - i]
    <3> SUFFICES ASSUME NEW i \in 1 .. d - 1 PROVE defers[i + 1] = Services[d - i]
      BY <1>3
    <3>1. i + 1 \in 1 .. d /\ d + 1 - (i + 1) = d - i
      BY <1>2
    <3> QED BY <3>1 DEF IInv, DeferredInReverse
  <2>2. Len(defers') + 1 = d
    BY <1>2, <1>3
  <2> QED BY <1>2, <1>3, <2>1, <2>2 DEF DeferredInReverse
<1>7. Progress'
  <2>1. defers[1] = Services[d]
    <3>1. 1 \in 1 .. d /\ d + 1 - 1 = d
      BY <1>2
    <3> QED BY <3>1 DEF IInv, DeferredInReverse
  <2>2. Len(defers') < Len(Services) /\ Head(defers) = Services[Len(defers') + 1]
    BY <1>2, <1>3, <2>1
  <2> QED BY <1>1, <2>2 DEF Progress
<1>8. StoppedHasAll'
  BY <1>1 DEF IInv, StoppedHasAll
<1> QED BY <1>5, <1>6, <1>7, <1>8 DEF IInv

\* What is being stopped is not deferred any more.
LEMMA StoppingOnce ==
  ASSUME IInv, NEW s \in stopping
  PROVE  s \notin Range(defers) /\ stopping = {s}
<1>1. /\ TypeOK /\ Len(defers) < Len(Services) /\ s = Services[Len(defers) + 1]
      /\ Len(defers) \in Nat /\ Len(Services) \in Nat
  BY DefersAre DEF IInv, Progress
<1>2. stopping = {s}
  BY <1>1 DEF IInv, Progress
<1>3. ASSUME NEW i \in 1 .. Len(defers) PROVE defers[i] # s
  <2>1. defers[i] = Services[Len(defers) + 1 - i]
    BY DEF IInv, DeferredInReverse
  <2>2. /\ Len(defers) + 1 - i \in 1 .. Len(Services) /\ Len(defers) + 1 \in 1 .. Len(Services)
        /\ Len(defers) + 1 - i # Len(defers) + 1
    BY <1>1
  <2> QED BY <1>1, <2>1, <2>2, ServicesAre
<1> QED BY <1>1, <1>2, <1>3, DefersAre

LEMMA StopReturnsInv ==
  ASSUME IInv, NEW s \in Service, StopReturns(s)
  PROVE  IInv'
<1>1. /\ main = "return" /\ s \in stopping /\ stopping' = {} /\ running' = running \ {s}
      /\ sent' = (IF s \in Exporter THEN [sent EXCEPT ![s] = samples] ELSE sent)
      /\ UNCHANGED <<main, next, defers, sigCh, held, samples>>
  BY DEF StopReturns
<1>2. TypeOK /\ running = Range(defers) \cup stopping /\ samples \in Nat
  BY <1>1, MaxAssumption DEF IInv, TypeOK, Alive
<1>3. running' = Range(defers) /\ stopping = {s}
  BY <1>1, <1>2, StoppingOnce
<1>4. sent' \in [Exporter -> 0 .. samples]
      /\ \A e \in Exporter : sent'[e] = IF e = s THEN samples ELSE sent[e]
  BY <1>1, <1>2 DEF TypeOK
<1>5. TypeOK'
  BY <1>1, <1>2, <1>3, <1>4 DEF TypeOK
<1>6. DeferredInReverse' /\ Progress'
  BY <1>1 DEF IInv, DeferredInReverse, Progress
<1>7. StoppedHasAll'
  BY <1>1, <1>4 DEF IInv, StoppedHasAll
<1> QED BY <1>5, <1>6, <1>7 DEF IInv

-----------------------------------------------------------------------------
(* The services.                                                           *)

\* While a producer runs so does every exporter.
LEMMA ExportersOutliveProducers ==
  ASSUME IInv, main = "return", NEW s \in Producer \cap running, NEW e \in Exporter
  PROVE  e \in running
<1>1. /\ TypeOK /\ running = Range(defers) \cup stopping
      /\ Len(defers) \in Nat /\ Len(Services) \in Nat /\ Len(defers) <= Len(Services)
  BY DefersAre DEF IInv, TypeOK, Alive, DeferredInReverse
<1>2. PICK k \in 1 .. Len(Services) : s = Services[k] /\ k <= Len(defers) + 1
  <2>1. CASE s \in Range(defers)
    <3>1. PICK i \in 1 .. Len(defers) : s = defers[i]
      BY <1>1, <2>1, DefersAre
    <3>2. s = Services[Len(defers) + 1 - i] /\ Len(defers) + 1 - i \in 1 .. Len(Services)
          /\ Len(defers) + 1 - i <= Len(defers) + 1
      BY <1>1, <3>1 DEF IInv, DeferredInReverse
    <3> QED BY <3>2
  <2>2. CASE s \in stopping
    <3>1. Len(defers) < Len(Services) /\ s = Services[Len(defers) + 1]
      BY <2>2 DEF IInv, Progress
    <3> QED BY <1>1, <3>1
  <2> QED BY <1>1, <2>1, <2>2
<1>3. s \notin Exporter
  BY ExporterAssumption DEF Producer, Exporter
<1>4. PICK j \in 1 .. Len(Services) : e = Services[j]
  BY ServicesAre
<1>5. j <= Len(Exporters) /\ ~ k <= Len(Exporters)
  BY <1>2, <1>3, <1>4, ServicesAre
<1>6. j \in 1 .. Len(defers)
  BY <1>1, <1>2, <1>5, ServicesAre
<1>7. Len(defers) + 1 - j \in 1 .. Len(defers) /\ Len(defers) + 1 - (Len(defers) + 1 - j) = j
  BY <1>1, <1>6
<1>8. defers[Len(defers) + 1 - j] = Services[j]
  BY <1>7 DEF IInv, DeferredInReverse
<1> QED BY <1>1, <1>4, <1>7, <1>8, DefersAre

LEMMA ServiceStepInv ==
  ASSUME IInv,
         \/ \E s \in Producer : Produce(s)
         \/ \E e \in Exporter : Flush(e)
         \/ PluginHeld \/ Signal
  PROVE  IInv'
<1>1. /\ UNCHANGED <<main, next, defers, running, stopping>>
      /\ sigCh' \in BOOLEAN /\ held' \in BOOLEAN
  BY DEF Produce, Flush, PluginHeld, Signal, IInv, TypeOK
<1>2. samples \in Nat /\ samples \in 0 .. MaxSamples /\ sent \in [Exporter -> 0 .. samples]
  BY MaxAssumption DEF IInv, TypeOK
<1>3. /\ samples' \in 0 .. MaxSamples /\ sent' \in [Exporter -> 0 .. samples']
      /\ \/ samples' = samples /\ \A e \in Exporter : sent'[e] \in {sent[e], samples}
         \/ sent' = sent /\ Alive /\ \E s \in Producer : s \in running
  <2>1. ASSUME NEW s \in Producer, Produce(s)
        PROVE  samples' \in 0 .. MaxSamples /\ sent' \in [Exporter -> 0 .. samples']
               /\ sent' = sent /\ Alive /\ s \in running
    BY <1>2, <2>1, MaxAssumption DEF Produce
  <2>2. ASSUME NEW e \in Exporter, Flush(e)
        PROVE  /\ samples' = samples /\ sent' \in [Exporter -> 0 .. samples]
               /\ \A f \in Exporter : sent'[f] \in {sent[f], samples}
    BY <1>2, <2>2 DEF Flush
  <2>3. ASSUME PluginHeld \/ Signal PROVE samples' = samples /\ sent' = sent
    BY <2>3 DEF PluginHeld, Signal, data
  <2> QED BY <1>2, <2>1, <2>2, <2>3
<1>4. TypeOK'
  BY <1>1, <1>3 DEF IInv, TypeOK, Alive
<1>5. DeferredInReverse' /\ Progress'
  BY <1>1 DEF IInv, DeferredInReverse, Progress
<1>6. StoppedHasAll'
  <2> SUFFICES ASSUME main \in {"return", "exited"}, NEW e \in Exporter \ running
               PROVE  sent'[e] = samples'
    BY <1>1 DEF StoppedHasAll
  <2>1. sent[e] = samples
    BY DEF IInv, StoppedHasAll
  <2>2. ~ (Alive /\ \E s \in Producer : s \in running)
    BY ExportersOutliveProducers DEF Alive
  <2> QED BY <1>3, <2>1, <2>2
<1> QED BY <1>4, <1>5, <1>6 DEF IInv

LEMMA NextInv == IInv /\ [Next]_vars => IInv'
<1> SUFFICES ASSUME IInv, [Next]_vars PROVE IInv'
  OBVIOUS
<1>1. CASE StartNext
  BY <1>1, StartNextInv
<1>2. CASE Listen \/ TakeSignal \/ Exit
  BY <1>2, OnwardInv
<1>3. CASE CannotBind \/ ServeFails
  BY <1>3, AbortInv DEF CannotBind, ServeFails
<1>4. CASE CallStop
  BY <1>4, CallStopInv
<1>5. CASE \E s \in Service : StopReturns(s)
  BY <1>5, StopReturnsInv
<1>6. CASE \/ \E s \in Producer : Produce(s)
           \/ \E e \in Exporter : Flush(e)
           \/ PluginHeld \/ Signal
  BY <1>6, ServiceStepInv
<1>7. CASE UNCHANGED vars
  BY <1>7 DEF vars, data, IInv, TypeOK, Alive, DeferredInReverse, Progress, StoppedHasAll
<1> QED BY <1>1, <1>2, <1>3, <1>4, <1>5, <1>6, <1>7 DEF Next, MainStep

LEMMA Invariant == Spec => []IInv
<1> QED BY InitInv, NextInv, PTL DEF Spec

-----------------------------------------------------------------------------
\* While the process lives the services with a goroutine are those whose Stop is
\* deferred or under way: none is forgotten or stopped twice (main.go:114-148).
THEOREM AgentTypeCorrect == Spec => []TypeOK
<1>1. IInv => TypeOK
  BY DEF IInv
<1> QED BY <1>1, Invariant, PTL

\* However many exporters there are: a process that ends by a signal has had
\* each of them look at every sample, since each outlives every producer.
THEOREM NoSampleLeftBehind == Spec => []NothingLeftBehind
<1>1. IInv => NothingLeftBehind
  BY DEF IInv, Progress, StoppedHasAll, NothingLeftBehind
<1> QED BY <1>1, Invariant, PTL

-----------------------------------------------------------------------------
(* The watchdog.                                                            *)

\* Between the callback and the reset of lastSeen the age is out of date.
Outdated(c) == loop = "reset" /\ c \in silent

\* The last callback is no nearer than the last sign of life.
SeenSinceCall == \A c \in Component : age[c] <= since[c] \/ Outdated(c)

\* A component that beats is silent for longer than it registered only if stuck.
SilentHasHung ==
  /\ \A c \in Component : ~ alive[c] => c \in hung
  /\ \A c \in seen \cap Beats : age[c] > Registered[c] => c \in hung \/ Outdated(c)

\* What is about to be called back was found silent, and nothing that happens
\* while the mutex is given up undoes what that implies.
DueForCall ==
  /\ \A a, b \in silent : a = b
  /\ loop = "call" =>
       \A c \in silent :
         since[c] > timeout(c) /\ (c \in Beats /\ Granted(c) => c \in hung)

WInv == WTypeOK /\ SeenSinceCall /\ SilentHasHung /\ DueForCall

USE TimeoutAssumption, IntervalAssumption, UseAssumption

\* The timeouts are positive, and what has expired is silent by both of them.
LEMMA TimeoutIs ==
  ASSUME NEW c \in Component
  PROVE  /\ Registered[c] \in Nat \ {0} /\ timeout(c) \in Nat \ {0} /\ Expired(c) \in Nat
         /\ timeout(c) < Expired(c) /\ Registered[c] < Expired(c)
         /\ Granted(c) <=> Registered[c] <= timeout(c)
<1>1. Registered[c] \in Nat \ {0} /\ timeout(c) \in Nat \ {0}
  BY DEF timeout
<1> QED BY <1>1 DEF Granted, Expired

LEMMA WInitInv == WInit => WInv
<1> SUFFICES ASSUME WInit PROVE WInv
  OBVIOUS
<1>1. \A c \in Component : Registered[c] \in Nat \ {0} /\ Expired(c) \in Nat
  BY TimeoutIs
<1>2. since \in [Component -> Nat]
  BY <1>1 DEF WInit
<1>3. WTypeOK
  <2>1. age \in [Component -> Nat] /\ \A c \in Component : age[c] <= Expired(c) /\ since[c] <= Expired(c)
    BY <1>1 DEF WInit
  <2>2. phase \in 0 .. Interval - 1
    BY DEF WInit
  <2>3. /\ cbs \subseteq seen /\ seen \subseteq Component
        /\ alive \in [Component -> BOOLEAN] /\ tick \in BOOLEAN
        /\ todo \subseteq seen /\ silent \subseteq seen \ todo
        /\ called \subseteq Component /\ hung \subseteq Component
    BY DEF WInit
  <2>4. loop = "off" /\ silent = {}
    BY DEF WInit
  <2> QED BY <1>2, <2>1, <2>2, <2>3, <2>4 DEF WTypeOK
<1>4. SeenSinceCall /\ SilentHasHung /\ DueForCall
  BY <1>1 DEF WInit, SeenSinceCall, SilentHasHung, DueForCall
<1> QED BY <1>3, <1>4 DEF WInv

-----------------------------------------------------------------------------
LEMMA AdvanceInv ==
  ASSUME WInv, Advance
  PROVE  WInv'
<1>1. /\ age' = Older(age) /\ since' = Older(since)
      /\ phase' = (phase + 1) % Interval /\ tick' \in BOOLEAN
      /\ UNCHANGED <<cbs, seen, alive, hung, loop, todo, silent, called>>
      /\ \A c \in seen \cap Beats : alive[c] => age[c] < Registered[c]
  BY DEF Advance, table, health, checking, WInv, WTypeOK
<1>2. ASSUME NEW c \in Component
      PROVE  /\ Registered[c] \in Nat /\ timeout(c) \in Nat /\ Expired(c) \in Nat
             /\ Registered[c] < Expired(c) /\ timeout(c) < Expired(c)
             /\ age[c] \in Nat /\ since[c] \in Nat
             /\ age[c] <= Expired(c) /\ since[c] <= Expired(c)
             /\ age'[c] = (IF age[c] < Expired(c) THEN age[c] + 1 ELSE age[c])
             /\ since'[c] = (IF since[c] < Expired(c) THEN since[c] + 1 ELSE since[c])
  BY <1>1, TimeoutIs DEF WInv, WTypeOK, Older
<1>3. WTypeOK'
  <2>1. phase' \in 0 .. Interval - 1
    BY <1>1 DEF WInv, WTypeOK
  <2>2. age' \in [Component -> Nat] /\ since' \in [Component -> Nat]
    <3>1. DOMAIN age' = Component /\ age' = [c \in Component |-> age'[c]]
      BY <1>1 DEF Older
    <3>2. DOMAIN since' = Component /\ since' = [c \in Component |-> since'[c]]
      BY <1>1 DEF Older
    <3> QED BY <1>2, <3>1, <3>2
  <2>3. \A c \in Component : age'[c] <= Expired(c) /\ since'[c] <= Expired(c)
    BY <1>2
  <2> QED BY <1>1, <2>1, <2>2, <2>3 DEF WInv, WTypeOK
<1>4. SeenSinceCall'
  BY <1>1, <1>2 DEF WInv, SeenSinceCall, Outdated
<1>5. SilentHasHung'
  <2> SUFFICES ASSUME NEW c \in seen \cap Beats, age'[c] > Registered[c]
               PROVE  c \in hung \/ Outdated(c)
    BY <1>1 DEF WInv, SilentHasHung, Outdated
  <2>1. CASE alive[c]
    BY <1>1, <1>2, <2>1
  <2>2. CASE ~ alive[c]
    BY <2>2 DEF WInv, SilentHasHung
  <2> QED BY <2>1, <2>2
<1>6. DueForCall'
  <2>1. \A c \in silent : c \in Component
    BY DEF WInv, WTypeOK
  <2> QED BY <1>1, <1>2, <2>1 DEF WInv, DueForCall
<1> QED BY <1>3, <1>4, <1>5, <1>6 DEF WInv

\* A sign of life, when it registers or beats.
LEMMA SeeInv ==
  ASSUME WInv, NEW c \in Component, See(c), cbs' \subseteq seen', UNCHANGED alive
  PROVE  WInv'
<1>1. /\ loop # "check" /\ seen' = seen \cup {c} /\ age' = [age EXCEPT ![c] = 0]
      /\ UNCHANGED <<since, phase, tick, alive, hung, loop, silent, called>>
      /\ todo \subseteq todo' /\ todo' \subseteq todo \cup ({c} \ seen)
  BY DEF See, health
<1>2. WTypeOK'
  <2>1. todo' \subseteq seen' /\ silent' \subseteq seen' \ todo' /\ seen' \subseteq Component
    BY <1>1 DEF WInv, WTypeOK
  <2>2. age' \in [Component -> Nat] /\ \A b \in Component : age'[b] <= Expired(b)
    BY <1>1, TimeoutIs DEF WInv, WTypeOK
  <2> QED BY <1>1, <2>1, <2>2 DEF WInv, WTypeOK
<1>3. \A b \in Component : age'[b] = IF b = c THEN 0 ELSE age[b]
  BY <1>1 DEF WInv, WTypeOK
<1>4. SeenSinceCall' /\ SilentHasHung' /\ DueForCall'
  <2>1. \A b \in Component : since[b] \in Nat /\ Registered[b] \in Nat
    BY TimeoutIs DEF WInv, WTypeOK
  <2> QED BY <1>1, <1>3, <2>1 DEF WInv, SeenSinceCall, SilentHasHung, DueForCall, Outdated
<1> QED BY <1>2, <1>4 DEF WInv

LEMMA HealthInv ==
  ASSUME WInv, NEW c \in Component, Hang(c) \/ Restart(c)
  PROVE  WInv'
<1>1. UNCHANGED <<cbs, seen, age, since, phase, tick, loop, todo, silent>>
  BY DEF Hang, Restart, table, timing, checking
<1>2. CASE Hang(c)
  <2>1. alive' = [alive EXCEPT ![c] = FALSE] /\ hung' = hung \cup {c} /\ called' = called
    BY <1>2 DEF Hang
  <2>2. WTypeOK'
    BY <1>1, <2>1 DEF WInv, WTypeOK
  <2>3. \A b \in Component : b # c => alive'[b] = alive[b]
    BY <2>1 DEF WInv, WTypeOK
  <2>4. SeenSinceCall' /\ SilentHasHung' /\ DueForCall'
    BY <1>1, <2>1, <2>3 DEF WInv, SeenSinceCall, SilentHasHung, DueForCall, Outdated
  <2> QED BY <2>2, <2>4 DEF WInv
<1>3. CASE Restart(c)
  <2>1. alive' = [alive EXCEPT ![c] = TRUE] /\ hung' = hung /\ called' = called \ {c}
    BY <1>3 DEF Restart
  <2>2. WTypeOK'
    BY <1>1, <2>1 DEF WInv, WTypeOK
  <2>3. \A b \in Component : ~ alive'[b] => ~ alive[b]
    BY <2>1 DEF WInv, WTypeOK
  <2>4. SeenSinceCall' /\ SilentHasHung' /\ DueForCall'
    BY <1>1, <2>1, <2>3 DEF WInv, SeenSinceCall, SilentHasHung, DueForCall, Outdated
  <2> QED BY <2>2, <2>4 DEF WInv
<1> QED BY <1>2, <1>3

\* The check starts or ends.
LEMMA TurnInv ==
  ASSUME WInv, StartWatchdog \/ BeginCheck \/ EndCheck
  PROVE  WInv'
<1>1. /\ UNCHANGED <<cbs, seen, age, since, phase, alive, hung, silent, called>>
      /\ tick' \in BOOLEAN /\ loop \in {"off", "wait", "check"}
      /\ loop' \in {"off", "wait", "check"}
      /\ todo' = todo \/ todo' = seen
  BY DEF StartWatchdog, BeginCheck, EndCheck, table, timing, health, WInv, WTypeOK
<1>2. silent = {}
  BY <1>1 DEF WInv, WTypeOK
<1>3. WTypeOK'
  BY <1>1, <1>2 DEF WInv, WTypeOK
<1>4. SeenSinceCall' /\ SilentHasHung' /\ DueForCall'
  BY <1>1, <1>2 DEF WInv, SeenSinceCall, SilentHasHung, DueForCall, Outdated
<1> QED BY <1>3, <1>4 DEF WInv

LEMMA VisitInv ==
  ASSUME WInv, NEW c \in Component, Visit(c)
  PROVE  WInv'
<1>1. /\ loop = "check" /\ c \in todo /\ todo' = todo \ {c} /\ silent = {}
      /\ UNCHANGED <<cbs, seen, age, since, phase, tick, alive, hung, called>>
      /\ \/ age[c] > timeout(c) /\ loop' = "call" /\ silent' = {c}
         \/ loop' = loop /\ silent' = silent
  BY DEF Visit, Silent, table, timing, health, WInv, WTypeOK
<1>2. WTypeOK'
  BY <1>1 DEF WInv, WTypeOK
<1>3. ~ Outdated(c) /\ \A b \in Component : ~ Outdated(b)
  BY <1>1 DEF Outdated
<1>4. SeenSinceCall' /\ SilentHasHung'
  BY <1>1, <1>3 DEF WInv, SeenSinceCall, SilentHasHung, WTypeOK
<1>5. age[c] > timeout(c) =>
        since[c] > timeout(c) /\ (c \in Beats /\ Granted(c) => c \in hung)
  <2>1. c \in seen
    BY <1>1 DEF WInv, WTypeOK
  <2>2. age[c] <= since[c]
    BY <1>3 DEF WInv, SeenSinceCall
  <2>3. age[c] \in Nat /\ since[c] \in Nat
    BY DEF WInv, WTypeOK
  <2>4. c \in Beats /\ age[c] > Registered[c] => c \in hung
    BY <1>3, <2>1 DEF WInv, SilentHasHung
  <2> QED BY <2>2, <2>3, <2>4, TimeoutIs
<1>6. DueForCall'
  BY <1>1, <1>5 DEF DueForCall
<1> QED BY <1>2, <1>4, <1>6 DEF WInv

LEMMA CallInv ==
  ASSUME WInv, NEW c \in Component, Call(c)
  PROVE  WInv'
<1>1. /\ loop = "call" /\ c \in silent /\ loop' = "reset" /\ called' \subseteq Component
      /\ UNCHANGED <<cbs, seen, age, phase, tick, alive, todo, silent>>
      /\ since' = (IF c \in cbs THEN [since EXCEPT ![c] = 0] ELSE since)
      /\ hung' = (IF c \in cbs /\ alive[c] THEN hung \ {c} ELSE hung)
  BY DEF Call, table, WInv, WTypeOK
<1>2. \A b \in silent : b = c
  BY <1>1 DEF WInv, DueForCall
<1>3. WTypeOK'
  <2>1. since' \in [Component -> Nat] /\ \A b \in Component : since'[b] <= Expired(b)
    BY <1>1, TimeoutIs DEF WInv, WTypeOK
  <2> QED BY <1>1, <2>1 DEF WInv, WTypeOK
<1>4. /\ \A b \in Component : b # c => since'[b] = since[b] /\ ~ Outdated(b)
      /\ Outdated(c)' /\ \A b \in Component : (b \in hung' <=> b \in hung) \/ b = c
  BY <1>1, <1>2 DEF WInv, WTypeOK, Outdated
<1>5. SeenSinceCall'
  BY <1>1, <1>4 DEF WInv, SeenSinceCall
<1>6. SilentHasHung'
  <2>1. \A b \in Component : ~ alive'[b] => b \in hung'
    BY <1>1 DEF WInv, SilentHasHung
  <2>2. \A b \in seen \cap Beats : age[b] > Registered[b] => b \in hung' \/ b = c
    BY <1>1, <1>4 DEF WInv, SilentHasHung, WTypeOK
  <2> QED BY <1>1, <1>4, <2>1, <2>2 DEF SilentHasHung
<1>7. DueForCall'
  BY <1>1 DEF WInv, DueForCall
<1> QED BY <1>3, <1>5, <1>6, <1>7 DEF WInv

LEMMA ResetInv ==
  ASSUME WInv, NEW c \in Component, Reset(c)
  PROVE  WInv'
<1>1. /\ loop = "reset" /\ c \in silent /\ loop' = "check" /\ silent' = {}
      /\ age' = [age EXCEPT ![c] = 0]
      /\ UNCHANGED <<cbs, seen, since, phase, tick, alive, hung, todo, called>>
  BY DEF Reset, table, health
<1>2. \A b \in silent : b = c
  BY <1>1 DEF WInv, DueForCall
<1>3. WTypeOK'
  <2>1. age' \in [Component -> Nat] /\ \A b \in Component : age'[b] <= Expired(b)
    BY <1>1, TimeoutIs DEF WInv, WTypeOK
  <2> QED BY <1>1, <2>1 DEF WInv, WTypeOK
<1>4. \A b \in Component :
        /\ age'[b] = IF b = c THEN 0 ELSE age[b]
        /\ since[b] \in Nat /\ Registered[b] \in Nat
        /\ b # c => ~ Outdated(b)
  BY <1>1, <1>2, TimeoutIs DEF WInv, WTypeOK, Outdated
<1>5. SeenSinceCall' /\ SilentHasHung' /\ DueForCall'
  BY <1>1, <1>4 DEF WInv, SeenSinceCall, SilentHasHung, DueForCall, WTypeOK
<1> QED BY <1>3, <1>5 DEF WInv

LEMMA WNextInv == WInv /\ [WNext]_wvars => WInv'
<1> SUFFICES ASSUME WInv, [WNext]_wvars PROVE WInv'
  OBVIOUS
<1>1. CASE Advance
  BY <1>1, AdvanceInv
<1>2. CASE StartWatchdog \/ BeginCheck \/ EndCheck
  BY <1>2, TurnInv
<1>3. ASSUME NEW c \in Component, RegisterWatchdog(c, Registered[c]) PROVE WInv'
  <2>1. See(c) /\ cbs' = cbs \cup {c} /\ UNCHANGED alive /\ cbs' \subseteq seen'
    BY <1>3 DEF RegisterWatchdog, See, health, WInv, WTypeOK
  <2> QED BY <2>1, SeeInv
<1>4. ASSUME NEW c \in Component, Heartbeat(c) PROVE WInv'
  <2>1. See(c) /\ UNCHANGED <<cbs, alive>> /\ cbs' \subseteq seen'
    BY <1>4 DEF Heartbeat, See, health, WInv, WTypeOK
  <2> QED BY <2>1, SeeInv
<1>5. ASSUME NEW c \in Component, Hang(c) \/ Restart(c) PROVE WInv'
  BY <1>5, HealthInv
<1>6. ASSUME NEW c \in Component, Visit(c) \/ Call(c) \/ Reset(c) PROVE WInv'
  BY <1>6, VisitInv, CallInv, ResetInv
<1>7. CASE UNCHANGED wvars
  <2>1. UNCHANGED <<cbs, seen, age, since, phase, tick, alive, hung, loop, todo, silent, called>>
    BY <1>7 DEF wvars, table, timing, health, checking
  <2> QED BY <2>1 DEF WInv, WTypeOK, SeenSinceCall, SilentHasHung, DueForCall, Outdated
<1> QED BY <1>1, <1>2, <1>3, <1>4, <1>5, <1>6, <1>7 DEF WNext, Loop

LEMMA WInvariant == WSpec => []WInv
<1> QED BY WInitInv, WNextInv, PTL DEF WSpec

-----------------------------------------------------------------------------
\* The table, the ages and the check keep their types; an entry that was found
\* silent is in the table and not visited again (monitor.go:93-110).
THEOREM WatchdogTypeCorrect == WSpec => []WTypeOK
<1>1. WInv => WTypeOK
  BY DEF WInv
<1> QED BY <1>1, WInvariant, PTL

\* Whatever timeouts components register with, and whichever the check is given:
\* none is called back twice within that of the check, and one that beats within a
\* registered timeout that the check does not cut short only if it hung, whoever
\* takes the mutex while the check has given it up (monitor.go:90-112).
THEOREM CallsOnlyTheStuck == WSpec => OnlyStuckIsCalled
<1> DEFINE A == \A c \in Component :
                  since'[c] < since[c] =>
                    /\ since[c] > timeout(c)
                    /\ c \in Beats /\ Granted(c) => c \in hung
<1>1. WInv /\ [WNext]_wvars => [A]_wvars
  <2> SUFFICES ASSUME WInv, WNext, NEW c \in Component, since'[c] < since[c]
               PROVE  since[c] > timeout(c) /\ (c \in Beats /\ Granted(c) => c \in hung)
    OBVIOUS
  <2>0. \A b \in Component : since[b] \in Nat
    BY DEF WInv, WTypeOK
  <2>1. ASSUME since' = since PROVE FALSE
    BY <2>0, <2>1
  <2>2. CASE Advance
    <3>1. since'[c] = since[c] \/ since'[c] = since[c] + 1
      BY <2>0, <2>2 DEF Advance, Older
    <3> QED BY <2>0, <3>1
  <2>3. ASSUME NEW b \in Component, Call(b)
        PROVE  since[c] > timeout(c) /\ (c \in Beats /\ Granted(c) => c \in hung)
    <3>1. loop = "call" /\ b \in silent /\ c = b
      BY <2>0, <2>3 DEF Call, WInv, WTypeOK
    <3> QED BY <3>1 DEF WInv, DueForCall
  <2>4. \/ since' = since \/ Advance \/ \E b \in Component : Call(b)
    BY DEF WNext, Loop, StartWatchdog, BeginCheck, EndCheck, Visit, Reset, RegisterWatchdog,
           Heartbeat, Hang, Restart, See, timing
  <2> QED BY <2>1, <2>2, <2>3, <2>4
<1>2. WSpec => [][A]_wvars
  BY <1>1, WInvariant, PTL DEF WSpec
<1> QED BY <1>2 DEF OnlyStuckIsCalled
=============================================================================
