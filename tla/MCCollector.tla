---------------------------- MODULE MCCollector ----------------------------
(* Four machines of which one part is looked at: a CPU, an interface, a    *)
(* disk, and the rest, with a partition that is skipped.                   *)
EXTENDS Collector

CONSTANTS cpu, mem, load, sda, sda1, eth0

MCDevice == {cpu, mem, load, sda, sda1, eth0}
MCHosts == {{cpu}, {eth0}, {sda}, {mem, load, sda1}}
MCKind ==
  [d \in Device |->
     CASE d = cpu -> "stat" [] d = mem -> "meminfo" [] d = load -> "loadavg"
       [] d = eth0 -> "netdev" [] OTHER -> "diskstats"]
MCName ==
  [d \in Device |->
     [pseudo |-> FALSE, digit |-> d = sda1, nvme |-> FALSE, p |-> FALSE]]
=============================================================================
