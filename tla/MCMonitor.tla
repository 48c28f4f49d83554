------------------------------ MODULE MCMonitor ------------------------------
(* The whole process with two sensors and three frames: an alert that opens,  *)
(* escalates and closes, or two alerts of which the second pushes the first   *)
(* out of an event log of one entry before it closes.  The hub's buffer has   *)
(* one slot, so that frames and the sentinel are dropped.                     *)
EXTENDS Monitor
==============================================================================
