--------------------------- MODULE TelemetryParser ----------------------------
(***************************************************************************)
(* From a line of the serial port to an alert level: the configuration     *)
(* (core/src/SensorConfig.cpp) fills the tables of the parser              *)
(* (core/src/TelemetryParser.cpp) and the thresholds of the detector       *)
(* (core/src/AnomalyDetector.cpp); a sentence, as the simulator writes     *)
(* them, reaches the parser whole or with one byte changed.                *)
(*                                                                         *)
(* A sentence is a sequence of bytes, because its checksum and its fields  *)
(* are about bytes.  A sentence type is a short token, and a numeral has   *)
(* digits and an exponent.                                                 *)
(***************************************************************************)
EXTENDS Integers, FiniteSets, SequencesExt, FiniteSetsExt

CONSTANTS Ascii,      \* the code of each byte of the alphabet
          Dollar, Star, Comma,
          Blanks,     \* CR and space
          Hex,        \* the sixteen digits
          Exponent,   \* the digit E
          NanWord,    \* the letters NAN
          PSHIP,      \* the type of the sentence of several sensors
          Entries,    \* what an element of the array "sensors" may be
          Messages,   \* what the instruments send: type, fields, with a checksum?
          Noise,      \* the bytes an error on the line may leave
          MaxEntries, \* bound: elements of the array
          Huge        \* the least value that no double can hold

Bytes  == DOMAIN Ascii
Digits == {Hex[i] : i \in 1 .. 10}
None   == -1          \* std::nullopt; in an entry, an id that is not a number
NaN    == -2          \* the floating-point value

Limit  == [warningLow : Int, warningHigh : Int, criticalLow : Int, criticalHigh : Int]

\* What an instrument puts between the commas of a sentence.
Text   == Seq(Bytes \ ({Comma, Star} \cup Blanks))

ASSUME ParserAssumption ==
  /\ Ascii \in [Bytes -> 0 .. 255]
  /\ \A b, c \in Bytes : Ascii[b] = Ascii[c] => b = c
  /\ {Dollar, Star, Comma} \cup Blanks \cup Noise \subseteq Bytes
  /\ Dollar # Star /\ Comma # Star /\ Comma \notin Blanks
  /\ Hex \in Seq(Bytes \ ({Star} \cup Blanks)) /\ Len(Hex) = 16 /\ Exponent = Hex[15]
  /\ \A i, j \in 1 .. 16 : Hex[i] = Hex[j] => i = j
  /\ NanWord \in Seq(Bytes) \ {<<>>} /\ Head(NanWord) \notin Digits \cup Blanks
  /\ \A e \in Entries : e.id \in Nat \cup {None} /\ e.field \in Int /\ e.threshold \in Limit
  /\ \A m \in Messages : m.type \in Text /\ m.fields \in Seq(Text) \ {<<>>} /\ m.sum \in BOOLEAN
  /\ MaxEntries \in Nat /\ Huge \in Nat

VARIABLES phase,      \* "load", then "run"
          loaded,     \* elements of the array that have been read
          sensors,    \* LoadedConfig::sensors
          thresholds, \* AnomalyDetector::m_thresholds
          mappings,   \* m_mappings
          pship,      \* m_pshipMappings
          sent,       \* history: the message of the line in work
          damage,     \* history: the byte of the line that was changed, or 0
          frame       \* what parse() returned, and the level once it is evaluated

config == <<sensors, thresholds, mappings, pship>>
line   == <<sent, damage, frame>>
vars   == <<phase, loaded, config, line>>

NoMessage == [type |-> <<>>, fields |-> <<>>, sum |-> FALSE]
Idle      == [id |-> None, value |-> None, level |-> "none"]
NoFrame   == [id |-> None, value |-> None, level |-> "refused"]
Empty     == <<>>     \* the empty table

Init == /\ phase = "load" /\ loaded = 0
        /\ sensors = Empty /\ thresholds = Empty
        /\ mappings = Empty /\ pship = Empty
        /\ sent = NoMessage /\ damage = 0 /\ frame = Idle

------------------------------------------------------------------------------
(* Numbers and checksums.                                                    *)

HexValue(b) == CHOOSE i \in 0 .. 15 : Hex[i + 1] = b
HexToken(n) == <<Hex[(n \div 16) + 1], Hex[(n % 16) + 1]>>

\* A byte as the set of its bits.
Bits(n) == {i \in 0 .. 7 : (n \div 2 ^ i) % 2 = 1}
Code == [b \in Bytes |-> Bits(Ascii[b])]

\* (Mutant of Checksum: cs |= c.)
ChecksumOr(s) == {i \in 0 .. 7 : \E k \in DOMAIN s : i \in Code[s[k]]}

\* computeChecksum(): the exclusive or has the bits that an odd number of bytes have.
Checksum(s) ==
  {i \in 0 .. 7 : Cardinality({k \in DOMAIN s : i \in Code[s[k]]}) % 2 = 1}

First(b, s) == SelectInSeq(s, LAMBDA c : c = b)
Final(b, s) == SelectLastInSeq(s, LAMBDA c : c = b)

\* from_chars(): it stops at a byte that is not a digit, and fails only if that is
\* the first.
Expected(hi, lo) == IF lo \in ToSet(Hex) THEN 16 * HexValue(hi) + HexValue(lo)
                                         ELSE HexValue(hi)

\* validateChecksum() of a sentence that begins with $.
ValidChecksum(s) ==
  LET star == Final(Star, s)
  IN  /\ star # 0 /\ star + 2 <= Len(s)
      /\ s[star + 1] \in ToSet(Hex)
      /\ Checksum(SubSeq(s, 2, star - 1)) = Bits(Expected(s[star + 1], s[star + 2]))

\* How many bytes of t from i on are digits, and what they amount to with e zeros
\* after them.
Run(t, i) == CHOOSE n \in 0 .. Len(t) + 1 - i :
               /\ \A j \in i .. i + n - 1 : t[j] \in Digits
               /\ i + n <= Len(t) => t[i + n] \notin Digits
Amount(t, i, e) ==
  LET digit(n)  == IF n <= Run(t, i) THEN HexValue(t[i + n - 1]) ELSE 0
      value[n \in 0 .. Run(t, i) + e] ==
        IF n = 0 THEN 0 ELSE Min({Huge, 10 * value[n - 1] + digit(n)})
  IN  value[Run(t, i) + e]

\* std::stod(): blanks, and NAN, or digits and perhaps an exponent; what follows is
\* ignored.  A value out of range is an exception, as what is no number is.
Number(t) ==
  LET i == SelectInSeq(t, LAMBDA b : b \notin Blanks)
      j == i + Run(t, i)
      e == IF j < Len(t) /\ t[j] = Exponent THEN Amount(t, j + 1, 0) ELSE 0
  IN  IF i > 0 /\ IsPrefix(NanWord, SubSeq(t, i, Len(t))) THEN NaN
      ELSE IF i = 0 \/ j = i \/ Amount(t, i, e) = Huge THEN None
      ELSE Amount(t, i, e)

------------------------------------------------------------------------------
(* parse()                                                                   *)

Trim(s) == SubSeq(s, 1, SelectLastInSeq(s, LAMBDA b : b \notin Blanks))

\* Where the tokens end and begin: at the commas and the ends of s; and the place that
\* has n others before it.
Cuts(s)   == {0, Len(s) + 1} \cup {i \in DOMAIN s : s[i] = Comma}
Cut(s, n) == CHOOSE c \in Cuts(s) : Cardinality({d \in Cuts(s) : d < c}) = n

Split(s) == [n \in 1 .. Cardinality(Cuts(s)) - 1 |->
               SubSeq(s, Cut(s, n - 1) + 1, Cut(s, n) - 1)]

ExtractField(tokens, index) ==
  IF index < 0 \/ index >= Len(tokens) THEN None ELSE Number(tokens[index + 1])

Reading(mapping, tokens) == [id    |-> mapping.id,
                             value |-> ExtractField(tokens, mapping.field),
                             level |-> "parsed"]

\* (Mutant of ParseSentence: the first sensor of the type is taken, whether its
\* field is there or not.)
ParseFirst(type, tokens) ==
  IF type \notin DOMAIN mappings THEN NoFrame
  ELSE LET r == Reading(mappings[type][1], tokens)
       IN  IF r.value = None THEN NoFrame ELSE r

\* The first sensor of the type whose field holds a number.
ParseSentence(type, tokens) ==
  IF type \notin DOMAIN mappings THEN NoFrame
  ELSE LET list == mappings[type]
           i == SelectInSeq(list, LAMBDA m : ExtractField(tokens, m.field) # None)
       IN  IF i = 0 THEN NoFrame ELSE Reading(list[i], tokens)

ParsePship(tokens) ==
  IF \/ Len(tokens) < 2
     \/ tokens[1] \notin DOMAIN pship
     \/ ExtractField(tokens, pship[tokens[1]].field) = None
  THEN NoFrame
  ELSE Reading(pship[tokens[1]], tokens)

Parse(raw) ==
  LET s     == Trim(raw)
      star  == Final(Star, s)
      body  == SubSeq(s, 2, IF star = 0 THEN Len(s) ELSE star - 1)
      comma == First(Comma, body)
      type  == SubSeq(body, 1, comma - 1)
      rest  == Split(SubSeq(body, comma + 1, Len(body)))
  IN  IF \/ Len(s) < 2 \/ s[1] # Dollar
         \/ star # 0 /\ ~ValidChecksum(s)
         \/ comma = 0
      THEN NoFrame
      ELSE IF type = PSHIP THEN ParsePship(rest) ELSE ParseSentence(type, rest)

------------------------------------------------------------------------------
(* The configuration.                                                        *)

\* The table with v at k.
Put(table, k, v) == [x \in DOMAIN table \cup {k} |-> IF x = k THEN v ELSE table[x]]

\* (Mutant of Load: setThreshold() keeps the thresholds an id already has.)
LoadKeepsThreshold ==
  /\ phase = "load" /\ loaded < MaxEntries /\ loaded' = loaded + 1
  /\ \E e \in Entries :
       IF e.id = None THEN UNCHANGED <<sensors, thresholds>>
       ELSE /\ sensors' = Put(sensors, e.id % 256, e)
            /\ thresholds' = IF e.id % 256 \in DOMAIN thresholds THEN thresholds
                             ELSE Put(thresholds, e.id % 256, e.threshold)
  /\ UNCHANGED <<phase, mappings, pship, line>>

\* (Mutant of Load: the id is not cut.)
LoadUncut ==
  /\ phase = "load" /\ loaded < MaxEntries /\ loaded' = loaded + 1
  /\ \E e \in Entries :
       IF e.id = None THEN UNCHANGED <<sensors, thresholds>>
       ELSE /\ sensors' = Put(sensors, e.id, e)
            /\ thresholds' = Put(thresholds, e.id, e.threshold)
  /\ UNCHANGED <<phase, mappings, pship, line>>

\* load(): one element of the array, which is empty if there is no file, or the file
\* is no JSON object, or has no array "sensors".  The id is cut to eight bits, and a later
\* element replaces an earlier one of its id.
Load == /\ phase = "load" /\ loaded < MaxEntries /\ loaded' = loaded + 1
        /\ \E e \in Entries :
             IF e.id = None THEN UNCHANGED <<sensors, thresholds>>
             ELSE /\ sensors' = Put(sensors, e.id % 256, e)
                  /\ thresholds' = Put(thresholds, e.id % 256, e.threshold)
        /\ UNCHANGED <<phase, mappings, pship, line>>

\* configure(): the hash table sensors is walked in whatever order it has, so the
\* sensors of a type are listed in any order.
Configure ==
  /\ phase = "load" /\ phase' = "run"
  /\ LET own        == {d \in DOMAIN sensors : sensors[d].sentence = PSHIP}
         types      == {sensors[d].sentence : d \in DOMAIN sensors \ own}
         of(t)      == {d \in DOMAIN sensors : sensors[d].sentence = t}
         mapping(d) == [id |-> d, field |-> sensors[d].field]
     IN  /\ pship' = [k \in {HexToken(d) : d \in own} |->
                        mapping(CHOOSE d \in own : HexToken(d) = k)]
         /\ \E lists \in [types -> UNION {SetToSeqs(of(t)) : t \in types}] :
              /\ \A t \in types : lists[t] \in SetToSeqs(of(t))
              /\ mappings' = [t \in types |-> [i \in DOMAIN lists[t] |-> mapping(lists[t][i])]]
  /\ UNCHANGED <<loaded, sensors, thresholds, line>>

------------------------------------------------------------------------------
(* One line.                                                                 *)

\* buildRpmSentence() and its like: the fields, with commas between them.
Body(m) == LET upTo[n \in 0 .. Len(m.fields)] ==
                 IF n = 0 THEN m.type ELSE upTo[n - 1] \o <<Comma>> \o m.fields[n]
           IN  upTo[Len(m.fields)]
Sum(m) == IF m.sum THEN <<Star>> \o HexToken(CHOOSE n \in 0 .. 255 :
                                                 Bits(n) = Checksum(Body(m)))
            ELSE <<>>
Wire == [m \in Messages |-> <<Dollar>> \o Body(m) \o Sum(m)]

\* ingest(): the line as it was sent.
Ingest == /\ phase = "run" /\ frame = Idle
          /\ \E m \in Messages : sent' = m /\ frame' = Parse(Wire[m])
          /\ UNCHANGED <<phase, loaded, config, damage>>

\* ingest(): a line with a checksum, one of whose bytes has been changed.
IngestDamaged ==
  /\ phase = "run" /\ frame = Idle
  /\ \E m \in Messages :
       /\ m.sum /\ sent' = m
       /\ \E i \in DOMAIN Wire[m] : \E b \in Noise :
            damage' = i /\ frame' = Parse([Wire[m] EXCEPT ![i] = b])
  /\ UNCHANGED <<phase, loaded, config>>

\* The comparisons of doubles with a limit: NaN has reached none.
AtMost(v, limit)  == v # NaN /\ v <= limit
AtLeast(v, limit) == v # NaN /\ v >= limit

\* defaultStrategy()
Level(v, th) ==
  IF AtMost(v, th.criticalLow) \/ AtLeast(v, th.criticalHigh) THEN "Critical"
  ELSE IF AtMost(v, th.warningLow) \/ AtLeast(v, th.warningHigh) THEN "Warning"
  ELSE "Normal"

\* (Mutant of ThresholdDesc: the warnings are looked at first.)
ThresholdDescWarningFirst(v, th) ==
  IF AtLeast(v, th.warningHigh) THEN <<"Warning", "high">>
  ELSE IF AtMost(v, th.warningLow) THEN <<"Warning", "low">>
  ELSE IF AtLeast(v, th.criticalHigh) THEN <<"Critical", "high">>
  ELSE <<"Critical", "low">>

\* thresholdDesc(): what the event log and the session log say of an alert that
\* opens with value v.
ThresholdDesc(v, th) ==
  IF AtLeast(v, th.criticalHigh) THEN <<"Critical", "high">>
  ELSE IF AtMost(v, th.criticalLow) THEN <<"Critical", "low">>
  ELSE IF AtLeast(v, th.warningHigh) THEN <<"Warning", "high">>
  ELSE <<"Warning", "low">>

\* evaluate(), in the worker.
Evaluate ==
  /\ frame.level = "parsed"
  /\ frame' = [frame EXCEPT !.level = IF frame.id \in DOMAIN thresholds
                                      THEN Level(frame.value, thresholds[frame.id])
                                      ELSE "Normal"]
  /\ UNCHANGED <<phase, loaded, config, sent, damage>>

\* The frame has been given to the callback, or there is none: the next line.
Finish == /\ frame # Idle /\ frame.level # "parsed"
          /\ sent' = NoMessage /\ damage' = 0 /\ frame' = Idle
          /\ UNCHANGED <<phase, loaded, config>>

Next == Load \/ Configure \/ Ingest \/ IngestDamaged \/ Evaluate \/ Finish

Spec == Init /\ [][Next]_vars

------------------------------------------------------------------------------
TypeOK ==
  /\ phase \in {"load", "run"} /\ loaded \in 0 .. MaxEntries
  /\ DOMAIN sensors \subseteq 0 .. 255
  /\ \A d \in DOMAIN sensors : sensors[d] \in Entries
  /\ DOMAIN thresholds = DOMAIN sensors
  /\ \A t \in DOMAIN mappings : \A i \in DOMAIN mappings[t] :
       mappings[t][i].id \in DOMAIN sensors
  /\ \A k \in DOMAIN pship : pship[k].id \in DOMAIN sensors
  /\ sent \in Messages \cup {NoMessage} /\ damage \in Nat
  /\ frame.id \in DOMAIN sensors \cup {None} /\ frame.value \in NaN .. Huge - 1
  /\ frame.level \in {"none", "refused", "parsed", "Normal", "Warning", "Critical"}

\* Who listens to message m: the sensors of its type, for PSHIP the one whose id
\* is its first field, that find a number in their field.
Listeners(m) ==
  {d \in DOMAIN sensors :
     /\ sensors[d].sentence = m.type
     /\ m.type = PSHIP => Len(m.fields) > 1 /\ m.fields[1] = HexToken(d)
     /\ sensors[d].field \in 0 .. Len(m.fields) - 1
     /\ Number(m.fields[sensors[d].field + 1]) # None}

\* A message that arrives whole gives a frame exactly if somebody listens to it; the
\* frame is of one sensor that listens and has the number of that sensor's field,
\* whatever the order of the entries, of the hash table, and of ids that coincide
\* after they have been cut.  This is what the code does: fields are counted as it
\* counts them, from the id of a PSHIP message on (PshipFieldAfterPrefix does not
\* hold), and of several listeners one is served, the others get nothing, since parse()
\* returns one frame (TelemetryParser.cpp:135).
RoutesToListener ==
  frame # Idle /\ damage = 0 =>
    IF frame = NoFrame THEN Listeners(sent) = {}
    ELSE /\ frame.id \in Listeners(sent)
         /\ frame.value = Number(sent.fields[sensors[frame.id].field + 1])

\* As TelemetryParser.hpp:29 says, the field of a PSHIP sensor is counted from after
\* the id, so that its field 0 is the one that follows the id.  parsePship() counts
\* the id too (TelemetryParser.cpp:153).
PshipFieldAfterPrefix ==
  frame \notin {Idle, NoFrame} /\ damage = 0 /\ sent.type = PSHIP =>
    LET place == sensors[frame.id].field + 2
    IN  place \in DOMAIN sent.fields /\ frame.value = Number(sent.fields[place])

\* A message that was sent with a checksum, and has one byte changed, gives no frame
\* or the frame of the message, unless the byte is the * that announces the
\* checksum: then the line passes for one without.
SingleErrorCaught ==
  frame # Idle /\ frame # NoFrame /\ damage # 0 /\ damage # Len(Wire[sent]) - 2 =>
    LET whole == Parse(Wire[sent])
    IN  frame.id = whole.id /\ frame.value = whole.value

\* The level of a frame is that of the limits in the row of its sensor, also when
\* several entries have had its id: Critical exactly if the value has reached a
\* critical limit, Normal exactly if it has reached none, as NaN has: one frame with
\* NaN closes an alert (AnomalyDetector.cpp:8).
LevelOfRow ==
  frame.level \in {"Normal", "Warning", "Critical"} =>
    LET th       == sensors[frame.id].threshold
        v        == frame.value
        critical == v # NaN /\ ~(th.criticalLow < v /\ v < th.criticalHigh)
        warning  == v # NaN /\ ~(th.warningLow < v /\ v < th.warningHigh)
    IN  /\ frame.level = "Critical" <=> critical
        /\ frame.level = "Normal" <=> ~critical /\ ~warning

\* thresholdDesc() works out anew, from the configuration, what the detector has
\* found by its own table: the limit it names is of the level of the alert, and the
\* value has reached it.
DescriptionFits ==
  frame.level \in {"Warning", "Critical"} =>
    LET th == sensors[frame.id].threshold
        d  == ThresholdDesc(frame.value, th)
    IN  /\ d[1] = frame.level
        /\ d = <<"Critical", "high">> => frame.value >= th.criticalHigh
        /\ d = <<"Critical", "low">>  => frame.value <= th.criticalLow
        /\ d = <<"Warning", "high">>  => frame.value >= th.warningHigh
        /\ d = <<"Warning", "low">>   => frame.value <= th.warningLow
==============================================================================
