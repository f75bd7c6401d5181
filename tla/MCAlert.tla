------------------------------ MODULE MCAlert ------------------------------
(* Two rules on one metric, as cpu-high and cpu-critical of DefaultRules;  *)
(* one of them fires without a duration, so that two notifications can be  *)
(* on their way at once.                                                   *)
EXTENDS AlertDelivery

CONSTANTS high, critical, cpu

MCRule == {high, critical}
MCMetric == {cpu}
MCDef ==
  [r \in MCRule |->
     IF r = high
       THEN [metric |-> cpu, op |-> "gte", threshold |-> 86, forDuration |-> 2]
       ELSE [metric |-> cpu, op |-> "gt", threshold |-> 85, forDuration |-> 0]]
MCValue == {85, 86}
MCConfigurations == {{"slack"}, {"slack", "email"}}
MCSlackOnly == {{"slack"}}
=============================================================================
