-------------------------- MODULE MCMonitorOutputs --------------------------
(* TLC instance of MonitorOutputs: a verdict that allows the map update and   *)
(* one that forbids it; of each topic two messages may be under way at once,  *)
(* and the bridge may join the fields of any two.                             *)
EXTENDS MonitorOutputs

MCJudgements ==
    [health : {"OK", "INVALID"}, blocker : {FALSE}]
=============================================================================
