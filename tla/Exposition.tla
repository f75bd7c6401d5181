----------------------------- MODULE Exposition -----------------------------
(***************************************************************************)
(* selfmon.Monitor.PrometheusMetrics: the page at /metrics.  A line is the *)
(* record of its name, value and time stamp; help, types and the host      *)
(* label, which is the same in all of them, are left out.                  *)
(***************************************************************************)
EXTENDS LineProtocol

expositionName(metric) ==
  <<"rhelmon_">> \o [i \in DOMAIN metric |-> IF metric[i] = "." THEN "_" ELSE metric[i]]

\* Of the agent's own metrics those that tell of the store.  The counters that
\* Inc... and AddTSDBPoints add to are 0: nothing calls these.
SelfLines(series, samples, now) ==
  << [name |-> <<"rhelmon_", "up">>, value |-> "1", ts |-> now],
     [name |-> <<"rhelmon_", "alerts_fired_total">>, value |-> "0", ts |-> now],
     [name |-> <<"rhelmon_", "metric_series">>, value |-> ToString(series), ts |-> now],
     [name |-> <<"rhelmon_", "ringbuf_samples_total">>, value |-> ToString(samples), ts |-> now] >>

\* formatFloat of selfmon is that of tsdb.
MetricLine(metric, sample) ==
  [name |-> expositionName(metric), value |-> formatFloat(sample.value), ts |-> sample.ts * 1000]
=============================================================================
