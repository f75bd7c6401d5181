------------------------------- MODULE MCHub -------------------------------
(* Two clients that come and go, channels of one or two slots.             *)
EXTENDS Hub
=============================================================================
