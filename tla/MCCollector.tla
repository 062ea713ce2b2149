---------------------------- MODULE MCCollector ----------------------------
(***************************************************************************)
(* Two nodes, two cycles around one SSH period.  The answers of Prometheus *)
(* are: all quiet; a node whose load of 3.0 is far over the thresholds as  *)
(* it stands and under them on four cores, with a critical disk; a node    *)
(* Prometheus knows nothing of.                                            *)
(***************************************************************************)
EXTENDS Collector

MCNode == {1, 2}
Answer(disk, load, os) ==
    [cpu_usage_ratio |-> 10, memory_usage_ratio |-> 20,
     disk_usage_ratio |-> disk, load1 |-> load, os |-> os]
MCScrape == {Answer(10, 50, "ubuntu"), Answer(90, 300, None),
             [Answer(None, None, None) EXCEPT !.cpu_usage_ratio = None]}
MCCoreCount == {4}
MCOsName == {"ubuntu"}
=============================================================================
