----------------------------- MODULE MCWatchdog -----------------------------
(* Two components that beat within 2.  The check gives the collector only 1; *)
(* the broadcaster has no entry and gets the default.                        *)
EXTENDS Watchdog

CONSTANTS collector, broadcaster

Both == {collector, broadcaster}
MCRegistered == [c \in Component |-> 2]
MCTimeouts == [c \in Component |-> IF c = collector THEN 1 ELSE 0]
=============================================================================
