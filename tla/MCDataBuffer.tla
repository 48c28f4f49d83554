----------------------------- MODULE MCDataBuffer -----------------------------
(* DataBuffer on a small instance: three threads, each in any role, so that  *)
(* two can sleep while the third runs; three slots, so that the ring wraps,  *)
(* fills and empties; two values, so that order shows.                       *)
EXTENDS DataBuffer
==============================================================================
