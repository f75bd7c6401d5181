------------------------------ MODULE MCAgent ------------------------------
(* Both exporters are configured.                                          *)
EXTENDS Agent

MCExporters == <<"prometheus", "influxdb">>
=============================================================================
