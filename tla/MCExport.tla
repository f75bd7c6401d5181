------------------------------ MODULE MCExport ------------------------------
(* Stores with a series of one to twelve samples and one of an interface whose *)
(* name needs escapes, so that messages pass 60, 127 and 255 bytes and time  *)
(* stamps 2^14; runs of two files with the same plugin name.                 *)
EXTENDS Export

MCAlnum == {"a", "b", "s", "h", "p", "y", "net", "plugin", "up", "alerts_fired_total",
            "metric_series", "ringbuf_samples_total"}
MCNumbers == {"1", "2", "NaN"}
MCNonFinite == {"NaN"}
MCCode == "a" :> 97 @@ "b" :> 98 @@ "s" :> 115 @@ "h" :> 104 @@ "p" :> 112 @@ "y" :> 121
          @@ "." :> 46 @@ "_" :> 95 @@ "-" :> 45 @@ "," :> 44 @@ "net" :> 110 @@ "plugin" :> 113
          @@ "rhelmon_" :> 114 @@ "__name__" :> 111 @@ "host" :> 105 @@ "localhost" :> 108
          @@ "up" :> 117 @@ "alerts_fired_total" :> 102 @@ "metric_series" :> 109
          @@ "ringbuf_samples_total" :> 103 @@ "1" :> 49 @@ "2" :> 50 @@ "NaN" :> 78 @@ "\\" :> 92

NetA == <<"net", ".", "a">>
NetAComma == <<"net", ".", "a", "\\", ",", "b">>
Rounds(n) == [i \in 1 .. n |-> [ts |-> i + 7, value |-> IF i % 2 = 1 THEN "1" ELSE "2"]]
SetBackRounds == <<[ts |-> 9, value |-> "1"], [ts |-> 8, value |-> "2"]>>

MCPasts ==
  {<<>>} \cup {(NetA :> Rounds(n)) : n \in {1, 12}}
  \cup {(NetA :> SetBackRounds) @@ (NetAComma :> Rounds(2))}

AB == <<"a", ".", "b">>
Printed ==
  {<<AB, "2">>, <<AB, "NaN">>, <<<<"a", "_", "b">>, "1">>, <<<<"a", "-">>, "1">>,
   <<<<"#">>, "1">>, <<<<"a">>>>}
MCOutputs ==
  [file : {<<"b", ".", "s", "h">>, <<"b", ".", "p", "y">>},
   lines : {<<<<AB, "1">>, l>> : l \in Printed}]
=============================================================================
