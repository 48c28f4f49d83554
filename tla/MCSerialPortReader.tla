-------------------------- MODULE MCSerialPortReader --------------------------
(* SerialPortReader with two calls of start(), two descriptors, so that the   *)
(* port's number can be reused by one other file, and four bytes a session,   *)
(* cut into reads of at most three: a CR and its LF in one read or in two,    *)
(* blank lines, a CR inside a line.                                           *)
EXTENDS SerialPortReader
==============================================================================
