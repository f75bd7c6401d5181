----------------------------- MODULE Receivers -----------------------------
(***************************************************************************)
(* What the services on the other side read: decoders that follow the      *)
(* formats, not the encoders.                                              *)
(***************************************************************************)
EXTENDS Integers, FiniteSets, SequencesExt, Orders

(* Prometheus remote write: snappy, then protobuf.                         *)

\* The value of the varint at position i, and the position after it.
VarintAt(b, i) ==
  LET at[j \in DOMAIN b] ==
        IF b[j] < 128 \/ j = Len(b) THEN [value |-> b[j], next |-> j + 1]
        ELSE LET rest == at[j + 1]
             IN  [value |-> b[j] - 128 + 128 * rest.value, next |-> rest.next]
  IN  at[i]

\* The output of a sequence of snappy elements from position i; the two low bits
\* of a literal's tag are 0, and its length is short enough for the tag.
Elements(b, i) ==
  LET from[j \in 1 .. Len(b) + 1] ==
        LET n == b[j] \div 4 + 1
        IN  IF j <= Len(b) /\ b[j] % 4 = 0 /\ n <= 60 /\ j + n <= Len(b)
              THEN SubSeq(b, j + 1, j + n) \o from[j + n + 1]
              ELSE <<>>
  IN  from[i]

\* A corrupt block is rejected as a whole: its length is not the one announced.
Uncompressed(b) ==
  LET length == VarintAt(b, 1)
      output == Elements(b, length.next)
  IN  IF Len(output) = length.value THEN output ELSE <<>>

\* The field of a message at position i: a number, eight bytes or any bytes, by
\* its wire type; and the position after it.
FieldAt(b, i) ==
  LET v == VarintAt(b, i + 1)
      Field(content, next) == [field |-> b[i] \div 8, content |-> content, next |-> next]
  IN  CASE b[i] % 8 = 0 -> Field(v.value, v.next)
        [] b[i] % 8 = 1 -> Field(SubSeq(b, i + 1, i + 8), i + 9)
        [] b[i] % 8 = 2 -> Field(SubSeq(b, v.next, v.next + v.value - 1), v.next + v.value)
        [] OTHER -> Field(<<>>, Len(b) + 2)

\* The fields up to the first that is not whole.
Message(b) ==
  LET from[i \in 1 .. Len(b) + 1] ==
        IF i < Len(b) /\ FieldAt(b, i).next <= Len(b) + 1
          THEN <<FieldAt(b, i)>> \o from[FieldAt(b, i).next] ELSE <<>>
  IN  from[1]

Contents(message, f) ==
  LET chosen == Chosen(message, {i \in DOMAIN message : message[i].field = f})
  IN  [i \in 1 .. Len(chosen) |-> chosen[i].content]

SampleOf(b) == [value |-> Contents(Message(b), 1)[1][8], ts |-> Contents(Message(b), 2)[1]]
LabelOf(b) == [name |-> Contents(Message(b), 1)[1], value |-> Contents(Message(b), 2)[1]]

SeriesOf(b) ==
  LET m == Message(b)  ls == Contents(m, 1)  ss == Contents(m, 2)
  IN  [labels |-> [i \in 1 .. Len(ls) |-> LabelOf(ls[i])],
       samples |-> [i \in 1 .. Len(ss) |-> SampleOf(ss[i])]]

WriteRequestOf(body) ==
  LET ss == Contents(Message(Uncompressed(body)), 1)
  IN  [i \in 1 .. Len(ss) |-> SeriesOf(ss[i])]

-----------------------------------------------------------------------------
(* InfluxDB: lines, and in a line what backslashes do not protect.         *)

Split(s, sep) ==
  LET ends == {i \in DOMAIN s : s[i] = sep /\ (i > 1 => s[i - 1] # "\\")} \cup {Len(s) + 1}
      at == Ascending(ends)
  IN  [k \in 1 .. Cardinality(ends) |->
         SubSeq(s, IF k = 1 THEN 1 ELSE at[k - 1] + 1, at[k] - 1)]

\* A backslash counts only before a character that it protects.
Unescaped(s) ==
  Chosen(s, {i \in DOMAIN s :
               ~ (s[i] = "\\" /\ i < Len(s) /\ s[i + 1] \in {",", "=", " "})})

TagOf(s) ==
  LET pair == Split(s, "=")
  IN  IF Len(pair) = 2 THEN [key |-> Unescaped(pair[1]), value |-> Unescaped(pair[2])]
                       ELSE [key |-> <<>>, value |-> s]

PointOf(line) ==
  LET parts == Split(line, " ")  names == Split(parts[1], ",")
  IN  [measurement |-> Unescaped(names[1]),
       tags |-> {TagOf(names[i]) : i \in 2 .. Len(names)},
       fields |-> parts[2], ts |-> parts[3]]

LinesOf(body) == LET ls == Split(body, "\n") IN SubSeq(ls, 1, Len(ls) - 1)

\* The points stored: of those with the same tags and time the last one wins.
DatabaseOf(body) ==
  LET ls == LinesOf(body)
      points == [i \in DOMAIN ls |-> PointOf(ls[i])]
  IN  {points[i] : i \in {i \in DOMAIN ls : \A j \in i + 1 .. Len(ls) :
                            points[j].tags # points[i].tags \/ points[j].ts # points[i].ts}}

-----------------------------------------------------------------------------
(* A scraper of /metrics refuses a page with a name outside [a-zA-Z0-9_:],  *)
(* and JSON has no number for NaN or infinity, so that nothing is written.  *)
(* Lines with one name and one label set, of which the format says nothing, *)
(* it is taken to keep both.                                                *)

Scraped(lines, alnum) ==
  IF \A i \in DOMAIN lines : Range(lines[i].name) \subseteq alnum \cup {"_", "rhelmon_", ":"}
    THEN lines ELSE <<>>

Decoded(lines, nonFinite) ==
  IF \A i \in DOMAIN lines : lines[i].value \notin nonFinite THEN lines ELSE <<>>
=============================================================================
