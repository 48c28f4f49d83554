----------------------------- MODULE MCSimulator ------------------------------
(* Simulator with sentences of three bytes and room for four, so that a        *)
(* sentence is written in parts or behind the end of another, and two sessions *)
(* of a reader.                                                                *)
EXTENDS Simulator
==============================================================================
