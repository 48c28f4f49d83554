-------------------------- MODULE MCTelemetryParser ---------------------------
(* TelemetryParser with two entries of a configuration: sensors that share a  *)
(* sentence, that are addressed by their id, an id that is cut to another's,  *)
(* one that is no number; messages of one and two fields; errors that look    *)
(* like each of the bytes the parser looks for; limits of each kind that a    *)
(* value reaches.                                                             *)
EXTENDS TelemetryParser

MCHex == <<"0", "1", "2", "3", "4", "5", "6", "7", "8", "9",
           "A", "B", "C", "D", "E", "F">>

MCAscii == [b \in ToSet(MCHex) |->
              LET i == CHOOSE n \in 1 .. 16 : MCHex[n] = b
              IN  IF i <= 10 THEN 47 + i ELSE 54 + i]
           @@ ("$" :> 36) @@ ("*" :> 42) @@ ("," :> 44)
           @@ ("CR" :> 13) @@ (" " :> 32) @@ ("N" :> 78) @@ ("P" :> 80) @@ ("R" :> 82)

MCPship == <<"P">>
Rpm     == <<"R">>
MCNan   == <<"N", "A", "N">>

Limits(wl, wh, cl, ch) == [warningLow  |-> wl, warningHigh  |-> wh,
                           criticalLow |-> cl, criticalHigh |-> ch]
Entry(id, sentence, field, th) ==
  [id |-> id, sentence |-> sentence, field |-> field, threshold |-> th]

MCEntries == {Entry(1, Rpm, 0, Limits(0, 2, -1, 20)),
              Entry(2, Rpm, 1, Limits(2, 9, 0, 20)),
              Entry(257, Rpm, 1, Limits(3, 20, 2, 30)),
              Entry(1, MCPship, 0, Limits(0, 2, -1, 20)),
              Entry(2, MCPship, 1, Limits(1, 9, 0, 20)),
              Entry(3, Rpm, -1, Limits(1, 9, 0, 20)),
              Entry(None, Rpm, 0, Limits(0, 2, -1, 20))}

\* Nothing, not a number, 2, 20, and 2 * 10^9, which is out of range.
Tokens == {<<>>, MCNan, <<"2">>, <<"2", "E", "1">>, <<"2", "E", "9">>}

\* The identifiers 1 and 2 as an instrument writes them.
Idents == {<<"0", "1">>, <<"0", "2">>}

MCMessages ==
  [type : {Rpm},     fields : BoundedSeq(Tokens, 2) \ {<<>>},            sum : BOOLEAN]
  \cup
  [type : {MCPship}, fields : {<<i>> : i \in Idents} \cup (Idents \X Tokens), sum : BOOLEAN]
==============================================================================
