---------------------------- MODULE LineProtocol ----------------------------
(***************************************************************************)
(* InfluxWriter.Write: a line per point, in the order of the batch.  Fixed *)
(* words and values count as one character each.  main configures no tags   *)
(* besides the two of every point, whose keys are in order.                *)
(***************************************************************************)
EXTENDS Integers, SequencesExt

CONSTANT NonFinite   (* the values that are NaN or infinite                *)

Escaped(s, special) ==
  FlattenSeq([i \in DOMAIN s |-> IF s[i] \in special THEN <<"\\", s[i]>> ELSE <<s[i]>>])

escapeMeasurement(s) == Escaped(s, {",", " "})

\* Slip: what separates tags is left as it is.
escapeTagKeyLikeMeasurement(s) == Escaped(s, {" "})

escapeTagKey(s) == Escaped(s, {",", "=", " "})
escapeTagValue(s) == escapeTagKey(s)

Digit == <<"0", "1", "2", "3", "4", "5", "6", "7", "8", "9">>

\* %d of a number that is not negative.
Decimal(n) ==
  LET digits[u \in Nat] ==
        IF u < 10 THEN <<Digit[u + 1]>> ELSE Append(digits[u \div 10], Digit[(u % 10) + 1])
  IN  digits[n]

formatFloat(v) == IF v \in NonFinite THEN "0" ELSE v

\* The value of the tag host is not escaped.
Tags(p) == << [key |-> <<"host">>, value |-> p.host],
              [key |-> <<"metric">>, value |-> escapeTagValue(p.metric)] >>

Line(p) ==
  escapeMeasurement(<<"rhelmon">>)
  \o FlattenSeq([i \in DOMAIN Tags(p) |->
                   <<",">> \o escapeTagKey(Tags(p)[i].key) \o <<"=">> \o Tags(p)[i].value])
  \o <<" ", "value", "=", formatFloat(p.value), " ">> \o Decimal(p.ts) \o <<"\n">>

\* The request: NewInfluxWriter and buildWriteURL set the precision.
InfluxRequest(points) ==
  [precision |-> "ms", body |-> FlattenSeq([i \in DOMAIN points |-> Line(points[i])])]
=============================================================================
