---------------------------- MODULE RemoteWrite ----------------------------
(***************************************************************************)
(* PrometheusWriter.Write: a batch of points is grouped into time series,  *)
(* written as a protobuf WriteRequest and wrapped as a snappy block of     *)
(* literals.  The encoders are translated byte by byte for lengths and     *)
(* numbers; strings are short sequences of characters, a float is a byte.  *)
(***************************************************************************)
EXTENDS Integers, FiniteSets, SequencesExt, Orders

CONSTANT Code   (* Code[c]: the byte for the character or the float c      *)

ASSUME CodeAssumption ==
  /\ \A c \in DOMAIN Code : Code[c] \in 0 .. 255
  /\ \A c, d \in DOMAIN Code : Code[c] = Code[d] => c = d

Bytes(s) == [i \in 1 .. Len(s) |-> Code[s[i]]]

-----------------------------------------------------------------------------
(* Protobuf.                                                               *)

Tag(field, wireType) == <<field * 8 + wireType>>

\* Slip: the low seven bits are not masked.
VarintUnmasked(v) == IF v >= 128 THEN <<v + 128, v \div 128>> ELSE <<v>>

\* protoWriteVarint and writeSnappyVarint
Varint(v) ==
  LET bytes[u \in Nat] ==
        IF u >= 128 THEN <<128 + (u % 128)>> \o bytes[u \div 128] ELSE <<u>>
  IN  bytes[v]

Delimited(field, data) == Tag(field, 2) \o Varint(Len(data)) \o data
Double(field, v) == Tag(field, 1) \o [i \in 1 .. 8 |-> IF i = 8 THEN Code[v] ELSE 0]
Int64(field, v) == Tag(field, 0) \o Varint(v)

EncodeLabel(l) == FlattenSeq(<<Delimited(1, Bytes(l.name)), Delimited(2, Bytes(l.value))>>)
EncodeSample(s) == FlattenSeq(<<Double(1, s.value), Int64(2, s.ts)>>)

EncodeSeries(s) ==
  FlattenSeq([i \in 1 .. Len(s.labels) |-> Delimited(1, EncodeLabel(s.labels[i]))]
             \o [i \in 1 .. Len(s.samples) |-> Delimited(2, EncodeSample(s.samples[i]))])

EncodeRequest(ss) ==
  FlattenSeq([i \in 1 .. Len(ss) |-> Delimited(1, EncodeSeries(ss[i]))])

-----------------------------------------------------------------------------
(* Snappy.                                                                 *)

LiteralTag(n) == <<(n - 1) * 4>>

\* Runs of 60 bytes, and what is left.
Run(src, k) == SubSeq(src, 60 * (k - 1) + 1, IF 60 * k > Len(src) THEN Len(src) ELSE 60 * k)

Literals(src) ==
  FlattenSeq([k \in 1 .. (Len(src) + 59) \div 60 |->
                LiteralTag(Len(Run(src, k))) \o Run(src, k)])

snappyEncode(src) == Varint(Len(src)) \o Literals(src)

-----------------------------------------------------------------------------
(* Grouping.                                                               *)

prometheusMetricName(metric) ==
  <<"rhelmon_">> \o [i \in 1 .. Len(metric) |-> IF metric[i] = "." THEN "_" ELSE metric[i]]

\* By the bytes of the names.
Less(a, b) ==
  \E k \in DOMAIN b :
    /\ \A i \in 1 .. k - 1 : i \in DOMAIN a /\ a[i] = b[i]
    /\ k \in DOMAIN a => Code[a[k]] < Code[b[k]]

SortStrings(names) == Ordered(names, {p \in names \X names : Less(p[1], p[2])})

Metrics(points) == SortStrings({p.metric : p \in Range(points)})

Samples(points, m) ==
  LET mine == Chosen(points, {i \in DOMAIN points : points[i].metric = m})
  IN  [i \in 1 .. Len(mine) |-> [ts |-> mine[i].ts, value |-> mine[i].value]]

\* Slip: the samples stay in the order of the batch.
SortedNot(samples) == samples

\* The order of equal timestamps is left open by the code; nothing depends on it.
Sorted(samples) ==
  LET earlier == {p \in (DOMAIN samples) \X (DOMAIN samples) :
                    \/ samples[p[1]].ts < samples[p[2]].ts
                    \/ samples[p[1]].ts = samples[p[2]].ts /\ p[1] < p[2]}
      at == Ordered(DOMAIN samples, earlier)
  IN  [k \in DOMAIN samples |-> samples[at[k]]]

\* All points carry the host of the Manager; main configures no extra labels.
TimeSeries(points, m) ==
  [labels |-> <<[name |-> <<"__name__">>, value |-> prometheusMetricName(m)],
                [name |-> <<"host">>, value |-> points[1].host]>>,
   samples |-> Sorted(Samples(points, m))]

Grouped(points) ==
  LET metrics == Metrics(points)
  IN  [i \in 1 .. Len(metrics) |-> TimeSeries(points, metrics[i])]

RemoteWriteBody(points) == snappyEncode(EncodeRequest(Grouped(points)))
=============================================================================
