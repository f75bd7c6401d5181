------------------------------- MODULE MCTsdb -------------------------------
(* Two series, of which one gets more samples than the window holds; two   *)
(* writers in one manager, as AddWriter allows.                            *)
EXTENDS TsdbManager

CONSTANTS prometheus, influxdb

TwoSeries == {1, 2}
MCMaxPush == [m \in TwoSeries |-> IF m = 1 THEN 3 ELSE 2]
MCWriters == <<prometheus, influxdb>>
=============================================================================
