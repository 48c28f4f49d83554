----------------------------- MODULE MCSensorHub -----------------------------
(* SensorHub on small instances.  Two slots fill up long before five frames   *)
(* are in, and three sessions start again twice after a stop.                 *)
EXTENDS SensorHub
==============================================================================
