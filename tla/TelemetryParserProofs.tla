----------------------- MODULE TelemetryParserProofs ------------------------
(***************************************************************************)
(* Theorems about TelemetryParser, for every alphabet, configuration and   *)
(* message.                                                                *)
(*                                                                         *)
(* The first half is about the operators: a byte changes the checksum, a   *)
(* checksum is read as it was written, a body is cut into the fields it    *)
(* was built from, digits give a number in the bounds.  What a recursive   *)
(* function or a search computes is shown by a least counterexample.  The  *)
(* second half is the invariant: every sensor has exactly one place in the *)
(* tables of the parser, and the frame in work is what the parser makes of *)
(* the line of the message that was sent, with one byte changed or none.   *)
(***************************************************************************)
EXTENDS TelemetryParser, FiniteSetTheorems, FunctionTheorems, SequenceTheorems,
        WellFoundedInduction, TLAPS

------------------------------------------------------------------------------
(* The least of a set of numbers.                                            *)

\* Every set of naturals has a least element: what the proofs by least counterexample use.
LEMMA LeastNat == ASSUME NEW S \in SUBSET Nat, S # {}
                  PROVE  \E x \in S : \A y \in S : x <= y
<1> DEFINE R == {ss \in Nat \X Nat : ss[1] < ss[2]}
<1>1. IsWellFoundedOn(R, Nat)
  BY NatLessThanWellFounded DEF OpToRel
<1>2. PICK x \in S : \A y \in S : ~(<<y, x>> \in R)
  <2> HIDE DEF R
  <2>1. QED BY <1>1, WFMin
<1>3. ASSUME NEW y \in S PROVE x <= y
  <2>1. <<y, x>> \in Nat \X Nat /\ x \in Nat /\ y \in Nat
    OBVIOUS
  <2>2. ~(y < x)
    BY <1>2, <2>1
  <2>3. QED BY <2>1, <2>2
<1>4. QED BY <1>3

\* Min is that element.
LEMMA LeastIs == ASSUME NEW S \in SUBSET Nat, NEW p \in S, \A q \in S : p <= q
                 PROVE Min(S) = p
<1>1. \A x \in S : (\A y \in S : x <= y) => x = p
  OBVIOUS
<1>2. QED BY <1>1 DEF Min

------------------------------------------------------------------------------
(* Checksums.                                                                *)

Bit(n, weight) == (n \div weight) % 2

\* A byte has bit i exactly if the digit of weight 2^i is 1.
LEMMA BitsOf ==
  ASSUME NEW n \in 0 .. 255
  PROVE  /\ 0 \in Bits(n) <=> Bit(n, 1) = 1
         /\ 1 \in Bits(n) <=> Bit(n, 2) = 1
         /\ 2 \in Bits(n) <=> Bit(n, 4) = 1
         /\ 3 \in Bits(n) <=> Bit(n, 8) = 1
         /\ 4 \in Bits(n) <=> Bit(n, 16) = 1
         /\ 5 \in Bits(n) <=> Bit(n, 32) = 1
         /\ 6 \in Bits(n) <=> Bit(n, 64) = 1
         /\ 7 \in Bits(n) <=> Bit(n, 128) = 1
<1>1. /\ 2 ^ 0 = 1 /\ 2 ^ 1 = 2 /\ 2 ^ 2 = 4 /\ 2 ^ 3 = 8
      /\ 2 ^ 4 = 16 /\ 2 ^ 5 = 32 /\ 2 ^ 6 = 64 /\ 2 ^ 7 = 128
  OBVIOUS
<1>2. QED BY <1>1 DEF Bits, Bit

\* A byte is known by its bits.
LEMMA BitsInjective ==
  ASSUME NEW m \in 0 .. 255, NEW n \in 0 .. 255, Bits(m) = Bits(n)
  PROVE  m = n
<1>1. \A k \in 0 .. 255, w \in {1, 2, 4, 8, 16, 32, 64, 128} : Bit(k, w) \in {0, 1}
  BY DEF Bit
<1>2. \A k \in 0 .. 255 :
        k = 128 * Bit(k, 128) + 64 * Bit(k, 64) + 32 * Bit(k, 32) + 16 * Bit(k, 16)
            + 8 * Bit(k, 8) + 4 * Bit(k, 4) + 2 * Bit(k, 2) + Bit(k, 1)
  BY DEF Bit
<1>3. /\ Bit(m, 1) = Bit(n, 1) /\ Bit(m, 2) = Bit(n, 2)
      /\ Bit(m, 4) = Bit(n, 4) /\ Bit(m, 8) = Bit(n, 8)
  <2>1. /\ Bit(m, 1) = 1 <=> Bit(n, 1) = 1
        /\ Bit(m, 2) = 1 <=> Bit(n, 2) = 1
        /\ Bit(m, 4) = 1 <=> Bit(n, 4) = 1
        /\ Bit(m, 8) = 1 <=> Bit(n, 8) = 1
    BY BitsOf
  <2>2. QED BY <1>1, <2>1
<1>4. /\ Bit(m, 16) = Bit(n, 16) /\ Bit(m, 32) = Bit(n, 32)
      /\ Bit(m, 64) = Bit(n, 64) /\ Bit(m, 128) = Bit(n, 128)
  <2>1. /\ Bit(m, 16) = 1 <=> Bit(n, 16) = 1
        /\ Bit(m, 32) = 1 <=> Bit(n, 32) = 1
        /\ Bit(m, 64) = 1 <=> Bit(n, 64) = 1
        /\ Bit(m, 128) = 1 <=> Bit(n, 128) = 1
    BY BitsOf
  <2>2. QED BY <1>1, <2>1
<1>5. QED BY <1>2, <1>3, <1>4

\* Every set of bits is a byte.
LEMMA BitsSurjective ==
  ASSUME NEW S \in SUBSET (0 .. 7)
  PROVE  \E n \in 0 .. 255 : Bits(n) = S
<1> DEFINE b == [i \in 0 .. 7 |-> IF i \in S THEN 1 ELSE 0]
           m == 128 * b[7] + 64 * b[6] + 32 * b[5] + 16 * b[4]
                + 8 * b[3] + 4 * b[2] + 2 * b[1] + b[0]
<1>1. \A i \in 0 .. 7 : b[i] \in {0, 1} /\ (b[i] = 1 <=> i \in S)
  OBVIOUS
<1> HIDE DEF b
<1>2. m \in 0 .. 255
  BY <1>1
<1>3. /\ Bit(m, 1) = b[0] /\ Bit(m, 2) = b[1] /\ Bit(m, 4) = b[2] /\ Bit(m, 8) = b[3]
      /\ Bit(m, 16) = b[4] /\ Bit(m, 32) = b[5] /\ Bit(m, 64) = b[6] /\ Bit(m, 128) = b[7]
  BY <1>1 DEF Bit
<1> HIDE DEF m
<1>4. Bits(m) \subseteq 0 .. 7
  BY DEF Bits
<1>5. \A i \in 0 .. 7 : i \in Bits(m) <=> i \in S
  BY <1>1, <1>2, <1>3, BitsOf
<1>6. Bits(m) = S
  BY <1>4, <1>5
<1>7. QED BY <1>2, <1>6

\* Two bytes of the alphabet differ in a bit.
LEMMA CodeInjective ==
  ASSUME NEW a \in Bytes, NEW b \in Bytes, a # b
  PROVE  Code[a] # Code[b]
<1>1. Ascii[a] \in 0 .. 255 /\ Ascii[b] \in 0 .. 255 /\ Ascii[a] # Ascii[b]
  BY ParserAssumption
<1>2. QED BY <1>1, BitsInjective DEF Code

\* One changed byte changes the checksum: an odd number becomes even or an even one odd
\* for every bit in which the bytes differ.
LEMMA ChecksumDiffers ==
  ASSUME NEW s \in Seq(Bytes), NEW r \in Seq(Bytes), Len(r) = Len(s),
         NEW i \in 1 .. Len(s), r[i] # s[i],
         \A k \in 1 .. Len(s) : k # i => r[k] = s[k]
  PROVE  Checksum(r) # Checksum(s)
<1>1. Code[r[i]] # Code[s[i]] /\ Code[r[i]] \subseteq 0 .. 7 /\ Code[s[i]] \subseteq 0 .. 7
  <2>1. r[i] \in Bytes /\ s[i] \in Bytes
    OBVIOUS
  <2>2. QED BY <2>1, CodeInjective DEF Code, Bits
<1>2. PICK j \in 0 .. 7 : j \in Code[r[i]] <=> j \notin Code[s[i]]
  BY <1>1
<1> DEFINE S == {k \in DOMAIN s : j \in Code[s[k]]}
           R == {k \in DOMAIN r : j \in Code[r[k]]}
<1>3. IsFiniteSet(S) /\ Cardinality(S) \in Nat
  <2>1. IsFiniteSet(1 .. Len(s))
    BY FS_Interval
  <2>2. S \subseteq 1 .. Len(s)
    OBVIOUS
  <2>3. QED BY <2>1, <2>2, FS_Subset, FS_CardinalityType
<1>4. \/ i \in S /\ R = S \ {i}
      \/ i \notin S /\ R = S \cup {i}
  BY <1>2
<1>5. Cardinality(R) = Cardinality(S) + 1 \/ Cardinality(R) = Cardinality(S) - 1
  <2> HIDE DEF R, S
  <2>1. QED BY <1>3, <1>4, FS_AddElement, FS_RemoveElement
<1>6. Cardinality(R) % 2 # Cardinality(S) % 2
  <2>1. \A c \in Nat : (c + 1) % 2 # c % 2 /\ (c - 1) % 2 # c % 2
    OBVIOUS
  <2> HIDE DEF R, S
  <2>2. QED BY <1>3, <1>5, <2>1
<1>7. /\ Cardinality(R) % 2 \in {0, 1} /\ Cardinality(S) % 2 \in {0, 1}
  <2> HIDE DEF R, S
  <2>1. QED BY <1>3, <1>5
<1>8. /\ j \in Checksum(r) <=> Cardinality(R) % 2 = 1
      /\ j \in Checksum(s) <=> Cardinality(S) % 2 = 1
  BY DEF Checksum
<1> HIDE DEF R, S
<1>9. QED BY <1>6, <1>7, <1>8

\* A digit has its value, and is neither a star nor a blank.
LEMMA HexDigit ==
  ASSUME NEW k \in 0 .. 15
  PROVE  /\ HexValue(Hex[k + 1]) = k
         /\ Hex[k + 1] \in ToSet(Hex) /\ Hex[k + 1] \in Bytes
         /\ Hex[k + 1] # Star /\ Hex[k + 1] \notin Blanks
<1>1. k + 1 \in 1 .. 16 /\ DOMAIN Hex = 1 .. 16
  BY ParserAssumption
<1>2. HexValue(Hex[k + 1]) = k
  BY <1>1, ParserAssumption DEF HexValue
<1>3. Hex[k + 1] \in Bytes \ ({Star} \cup Blanks)
  <2> DEFINE X == Bytes \ ({Star} \cup Blanks)
  <2>1. Hex \in Seq(X) /\ Len(Hex) = 16
    BY ParserAssumption
  <2> HIDE DEF X
  <2>2. \A i \in 1 .. Len(Hex) : Hex[i] \in X
    BY <2>1, ElementOfSeq
  <2>3. Hex[k + 1] \in X
    BY <1>1, <2>1, <2>2
  <2>4. QED BY <2>3 DEF X
<1>4. QED BY <1>1, <1>2, <1>3 DEF ToSet

\* The value of a digit is below sixteen.
LEMMA HexValueType ==
  ASSUME NEW b \in ToSet(Hex)
  PROVE  HexValue(b) \in 0 .. 15 /\ Hex[HexValue(b) + 1] = b
<1>1. PICK i \in 1 .. 16 : Hex[i] = b
  BY ParserAssumption DEF ToSet
<1>2. i - 1 \in 0 .. 15 /\ Hex[(i - 1) + 1] = b
  BY <1>1
<1>3. QED BY <1>2 DEF HexValue

\* What is written as two digits is read as it was.
LEMMA HexRoundTrip ==
  ASSUME NEW n \in 0 .. 255
  PROVE  /\ HexToken(n) \in Seq(Bytes) /\ Len(HexToken(n)) = 2
         /\ \A i \in 1 .. 2 : /\ HexToken(n)[i] \in ToSet(Hex)
                              /\ HexToken(n)[i] # Star /\ HexToken(n)[i] \notin Blanks
         /\ Expected(HexToken(n)[1], HexToken(n)[2]) = n
<1>1. n \div 16 \in 0 .. 15 /\ n % 16 \in 0 .. 15 /\ n = 16 * (n \div 16) + (n % 16)
  OBVIOUS
<1>2. HexToken(n)[1] = Hex[(n \div 16) + 1] /\ HexToken(n)[2] = Hex[(n % 16) + 1]
  BY DEF HexToken
<1>3. /\ Hex[(n \div 16) + 1] \in Bytes /\ Hex[(n % 16) + 1] \in Bytes
      /\ Hex[(n \div 16) + 1] \in ToSet(Hex) /\ Hex[(n % 16) + 1] \in ToSet(Hex)
      /\ HexValue(Hex[(n \div 16) + 1]) = n \div 16 /\ HexValue(Hex[(n % 16) + 1]) = n % 16
  BY <1>1, HexDigit
<1>4. HexToken(n) \in Seq(Bytes) /\ Len(HexToken(n)) = 2
  BY <1>3 DEF HexToken
<1>5. Expected(HexToken(n)[1], HexToken(n)[2]) = n
  BY <1>1, <1>2, <1>3 DEF Expected
<1>6. QED BY <1>1, <1>2, <1>4, <1>5, HexDigit

\* Two sensors of PSHIP have two identifiers.
LEMMA HexTokenInjective ==
  ASSUME NEW m \in 0 .. 255, NEW n \in 0 .. 255, HexToken(m) = HexToken(n)
  PROVE  m = n
BY HexRoundTrip

\* The number that is sent as the checksum.
LEMMA SumExists ==
  ASSUME NEW s
  PROVE  LET n == CHOOSE n \in 0 .. 255 : Bits(n) = Checksum(s)
         IN  n \in 0 .. 255 /\ Bits(n) = Checksum(s)
<1>1. Checksum(s) \in SUBSET (0 .. 7)
  BY DEF Checksum
<1>2. QED BY <1>1, BitsSurjective

------------------------------------------------------------------------------
(* What is sent.                                                             *)

\* No comma, star or blank is in the type or in a field of a message.
LEMMA MessageText ==
  ASSUME NEW m \in Messages
  PROVE  /\ m.type \in Seq(Bytes) /\ m.fields \in Seq(Text) /\ m.fields # <<>>
         /\ Len(m.fields) \in Nat \ {0} /\ m.sum \in BOOLEAN
         /\ \A i \in 1 .. Len(m.type) :
              m.type[i] # Comma /\ m.type[i] # Star /\ m.type[i] \notin Blanks
         /\ \A n \in 1 .. Len(m.fields) :
              /\ m.fields[n] \in Seq(Bytes)
              /\ \A i \in 1 .. Len(m.fields[n]) :
                   /\ m.fields[n][i] # Comma /\ m.fields[n][i] # Star
                   /\ m.fields[n][i] \notin Blanks
<1>1. m.type \in Text /\ m.fields \in Seq(Text) \ {<<>>} /\ m.sum \in BOOLEAN
  BY ParserAssumption
<1>2. ASSUME NEW t \in Text
      PROVE  /\ t \in Seq(Bytes)
             /\ \A i \in 1 .. Len(t) : t[i] # Comma /\ t[i] # Star /\ t[i] \notin Blanks
  <2> DEFINE X == Bytes \ ({Comma, Star} \cup Blanks)
  <2>1. t \in Seq(X)
    BY DEF Text
  <2> HIDE DEF X
  <2>2. \A i \in 1 .. Len(t) : t[i] \in X
    BY <2>1, ElementOfSeq
  <2>3. Len(t) \in Nat /\ t = [i \in 1 .. Len(t) |-> t[i]]
    BY <2>1
  <2>4. \A i \in 1 .. Len(t) : t[i] \in Bytes
    BY <2>2 DEF X
  <2>5. t \in Seq(Bytes)
    BY <2>3, <2>4
  <2>6. QED BY <2>2, <2>5 DEF X
<1>3. \A n \in 1 .. Len(m.fields) : m.fields[n] \in Text
  BY <1>1, ElementOfSeq
<1>4. Len(m.fields) \in Nat \ {0}
  <2> HIDE DEF Text
  <2>1. QED BY <1>1
<1>5. QED BY <1>1, <1>2, <1>3, <1>4

\* The fields of a message are sequences of bytes.
LEMMA FieldsType ==
  ASSUME NEW m \in Messages
  PROVE  m.fields \in Seq(Seq(Bytes))
<1> DEFINE F == m.fields
           L == Len(F)
<1>1. F \in Seq(Text) /\ L \in Nat /\ \A n \in 1 .. L : F[n] \in Seq(Bytes)
  BY MessageText
<1> HIDE DEF Text
<1>2. F = [n \in 1 .. L |-> F[n]]
  BY <1>1
<1> HIDE DEF F, L
<1>3. [n \in 1 .. L |-> F[n]] \in Seq(Seq(Bytes))
  BY <1>1
<1>4. QED BY <1>2, <1>3 DEF F

\* The fields are put behind the type one by one, a comma before each.
Grows(m, g) == /\ g[0] = m.type
               /\ \A n \in 1 .. Len(m.fields) : g[n] = g[n - 1] \o <<Comma>> \o m.fields[n]

\* The function that Body is built with exists, and is the only one.
LEMMA BodyGrows ==
  ASSUME NEW m \in Messages
  PROVE  \E g \in [0 .. Len(m.fields) -> Seq(Bytes)] :
           Grows(m, g) /\ Body(m) = g[Len(m.fields)]
<1> DEFINE L    == Len(m.fields)
           upTo == CHOOSE f : f = [n \in 0 .. L |-> IF n = 0 THEN m.type
                                                  ELSE f[n - 1] \o <<Comma>> \o m.fields[n]]
           Partial(N) == \E g \in [0 .. N -> Seq(Bytes)] :
                           /\ g[0] = m.type
                           /\ \A n \in 1 .. N : g[n] = g[n - 1] \o <<Comma>> \o m.fields[n]
           Bad  == {N \in Nat : N <= L /\ ~Partial(N)}
<1>1. Body(m) = upTo[L]
  BY DEF Body
<1>2. L \in Nat /\ m.type \in Seq(Bytes) /\ \A n \in 1 .. L : m.fields[n] \in Seq(Bytes)
  BY MessageText
<1>3. \A n \in 1 .. L, s \in Seq(Bytes) : s \o <<Comma>> \o m.fields[n] \in Seq(Bytes)
  BY <1>2, ParserAssumption
<1>4. Bad = {}
  <2>1. SUFFICES ASSUME Bad # {} PROVE FALSE
    OBVIOUS
  <2>2. PICK N \in Bad : \A M \in Bad : N <= M
    <3> HIDE DEF Partial
    <3>1. Bad \in SUBSET Nat
      OBVIOUS
    <3> HIDE DEF Bad
    <3>2. QED BY <2>1, <3>1, LeastNat
  <2>3. CASE N = 0
    <3> DEFINE h == [n \in 0 .. 0 |-> m.type]
    <3>1. h \in [0 .. 0 -> Seq(Bytes)] /\ h[0] = m.type
      BY <1>2
    <3> HIDE DEF h
    <3>2. \A n \in 1 .. 0 : h[n] = h[n - 1] \o <<Comma>> \o m.fields[n]
      OBVIOUS
    <3>3. Partial(0)
      BY <3>1, <3>2
    <3>4. QED BY <2>2, <2>3, <3>3
  <2>4. CASE N # 0
    <3>1. N \in 1 .. L /\ N - 1 \in Nat /\ N - 1 <= L
      BY <1>2, <2>2, <2>4
    <3>2. Partial(N - 1)
      <4>1. N - 1 \notin Bad
        <5> HIDE DEF Bad
        <5>1. QED BY <2>2, <3>1
      <4> HIDE DEF Partial
      <4>2. QED BY <3>1, <4>1
    <3>3. PICK g \in [0 .. N - 1 -> Seq(Bytes)] :
            /\ g[0] = m.type
            /\ \A n \in 1 .. N - 1 : g[n] = g[n - 1] \o <<Comma>> \o m.fields[n]
      BY <3>2
    <3> DEFINE last == g[N - 1] \o <<Comma>> \o m.fields[N]
               h    == [n \in 0 .. N |-> IF n = N THEN last ELSE g[n]]
    <3>4. last \in Seq(Bytes)
      BY <1>3, <3>1, <3>3
    <3>5. /\ h \in [0 .. N -> Seq(Bytes)] /\ h[N] = last
          /\ \A n \in 0 .. N - 1 : h[n] = g[n]
      <4> HIDE DEF last
      <4>1. QED BY <3>1, <3>3, <3>4
    <3>6. h[0] = m.type
      BY <3>1, <3>3, <3>5
    <3>7. ASSUME NEW n \in 1 .. N PROVE h[n] = h[n - 1] \o <<Comma>> \o m.fields[n]
      <4>1. n - 1 \in 0 .. N - 1 /\ (n # N => n \in 1 .. N - 1 /\ n \in 0 .. N - 1)
        BY <3>1
      <4> HIDE DEF h
      <4>2. QED BY <3>3, <3>5, <4>1
    <3>8. Partial(N)
      <4> HIDE DEF h
      <4>1. QED BY <3>5, <3>6, <3>7
    <3>9. QED BY <2>2, <3>8
  <2>5. QED BY <2>3, <2>4
<1>5. PICK g \in [0 .. L -> Seq(Bytes)] :
        /\ g[0] = m.type
        /\ \A n \in 1 .. L : g[n] = g[n - 1] \o <<Comma>> \o m.fields[n]
  <2>1. Partial(L)
    <3> HIDE DEF Partial
    <3>1. QED BY <1>2, <1>4
  <2>2. QED BY <2>1
<1> HIDE DEF Partial, Bad
<1>6. g = [n \in 0 .. L |-> IF n = 0 THEN m.type ELSE g[n - 1] \o <<Comma>> \o m.fields[n]]
  BY <1>2, <1>5
<1>7. upTo = [n \in 0 .. L |-> IF n = 0 THEN m.type ELSE upTo[n - 1] \o <<Comma>> \o m.fields[n]]
  BY <1>6
<1> HIDE DEF upTo
<1>8. ASSUME NEW n \in 0 .. L PROVE upTo[n] = g[n]
  <2> DEFINE Wrong == {k \in 0 .. L : upTo[k] # g[k]}
  <2>1. SUFFICES ASSUME Wrong # {} PROVE FALSE
    BY <1>8
  <2>2. PICK k \in Wrong : \A j \in Wrong : k <= j
    <3>1. Wrong \in SUBSET Nat
      BY <1>2
    <3> HIDE DEF Wrong
    <3>2. QED BY <2>1, <3>1, LeastNat
  <2>3. k # 0
    BY <1>2, <1>5, <1>7
  <2>4. k \in 1 .. L /\ k - 1 \in 0 .. L /\ k - 1 < k
    BY <1>2, <2>3
  <2>5. upTo[k - 1] = g[k - 1]
    BY <2>2, <2>4
  <2>6. upTo[k] = g[k]
    BY <1>5, <1>7, <2>4, <2>5
  <2>7. QED BY <2>6
<1>9. Grows(m, g) /\ Body(m) = g[L]
  <2>1. L \in 0 .. L
    BY <1>2
  <2>2. QED BY <1>1, <1>5, <1>8, <2>1 DEF Grows
<1>10. QED BY <1>5, <1>9

\* A line is $, the body, and perhaps * and the checksum of the body.
LEMMA WireShape ==
  ASSUME NEW m \in Messages
  PROVE  LET n == Len(Body(m))
         IN  /\ Body(m) \in Seq(Bytes) /\ n \in Nat
             /\ Wire[m] \in Seq(Bytes) /\ Wire[m][1] = Dollar
             /\ \A i \in 1 .. n : Wire[m][i + 1] = Body(m)[i]
             /\ ~m.sum => Len(Wire[m]) = n + 1
             /\ m.sum => /\ Len(Wire[m]) = n + 4 /\ Wire[m][n + 2] = Star
                         /\ \E k \in 0 .. 255 : /\ Bits(k) = Checksum(Body(m))
                                                /\ Wire[m][n + 3] = HexToken(k)[1]
                                                /\ Wire[m][n + 4] = HexToken(k)[2]
<1> DEFINE n == Len(Body(m))
           k == CHOOSE k \in 0 .. 255 : Bits(k) = Checksum(Body(m))
<1>1. Body(m) \in Seq(Bytes) /\ n \in Nat /\ m.sum \in BOOLEAN
  <2>1. PICK g \in [0 .. Len(m.fields) -> Seq(Bytes)] : Body(m) = g[Len(m.fields)]
    BY BodyGrows
  <2>2. Len(m.fields) \in 0 .. Len(m.fields) /\ m.sum \in BOOLEAN
    BY MessageText
  <2>3. QED BY <2>1, <2>2
<1>2. Wire[m] = <<Dollar>> \o Body(m) \o Sum(m)
  BY DEF Wire
<1>3. Dollar \in Bytes /\ Star \in Bytes
  BY ParserAssumption
<1>4. CASE ~m.sum
  <2>1. Sum(m) = <<>>
    BY <1>4 DEF Sum
  <2>2. QED BY <1>1, <1>2, <1>3, <1>4, <2>1
<1>5. CASE m.sum
  <2>1. k \in 0 .. 255 /\ Bits(k) = Checksum(Body(m))
    BY SumExists
  <2>2. Sum(m) = <<Star>> \o HexToken(k)
    BY <1>5 DEF Sum
  <2> HIDE DEF k
  <2>3. HexToken(k) \in Seq(Bytes) /\ Len(HexToken(k)) = 2
    BY <2>1, HexRoundTrip
  <2>4. /\ Sum(m) \in Seq(Bytes) /\ Len(Sum(m)) = 3
        /\ Sum(m)[1] = Star /\ Sum(m)[2] = HexToken(k)[1] /\ Sum(m)[3] = HexToken(k)[2]
    <3>1. <<Star>> \in Seq(Bytes) /\ Len(<<Star>>) = 1 /\ <<Star>>[1] = Star
      BY <1>3
    <3>2. 1 - 1 = 0 /\ 2 - 1 = 1 /\ 3 - 1 = 2
      OBVIOUS
    <3>3. /\ Sum(m) \in Seq(Bytes) /\ Len(Sum(m)) = 3
          /\ \A i \in 1 .. 3 : Sum(m)[i] = IF i <= 1 THEN <<Star>>[i] ELSE HexToken(k)[i - 1]
      BY <2>2, <2>3, <3>1, ConcatProperties
    <3>4. QED BY <3>1, <3>2, <3>3
  <2>5. /\ Wire[m] \in Seq(Bytes) /\ Len(Wire[m]) = n + 4 /\ Wire[m][1] = Dollar
        /\ \A i \in 1 .. n : Wire[m][i + 1] = Body(m)[i]
        /\ Wire[m][n + 2] = Sum(m)[1] /\ Wire[m][n + 3] = Sum(m)[2]
        /\ Wire[m][n + 4] = Sum(m)[3]
    <3> DEFINE h == <<Dollar>> \o Body(m)
    <3>1. /\ h \in Seq(Bytes) /\ Len(h) = n + 1 /\ h[1] = Dollar
          /\ \A i \in 1 .. n : h[i + 1] = Body(m)[i]
      BY <1>1, <1>3
    <3>2. Wire[m] = h \o Sum(m)
      BY <1>2
    <3> HIDE DEF h
    <3>3. /\ Wire[m] \in Seq(Bytes) /\ Len(Wire[m]) = n + 4
          /\ \A i \in 1 .. n + 4 : Wire[m][i] = IF i <= n + 1 THEN h[i] ELSE Sum(m)[i - (n + 1)]
      <4>1. Len(h) + Len(Sum(m)) = n + 4
        BY <1>1, <2>4, <3>1
      <4>2. /\ h \o Sum(m) \in Seq(Bytes) /\ Len(h \o Sum(m)) = Len(h) + Len(Sum(m))
            /\ \A i \in 1 .. Len(h) + Len(Sum(m)) :
                 (h \o Sum(m))[i] = IF i <= Len(h) THEN h[i] ELSE Sum(m)[i - Len(h)]
        BY <2>4, <3>1, ConcatProperties
      <4> HIDE DEF n
      <4>3. QED BY <3>1, <3>2, <4>1, <4>2
    <3>4. /\ (n + 2) - (n + 1) = 1 /\ (n + 3) - (n + 1) = 2 /\ (n + 4) - (n + 1) = 3
          /\ ~(n + 2 <= n + 1) /\ ~(n + 3 <= n + 1) /\ ~(n + 4 <= n + 1) /\ 1 <= n + 1
          /\ 1 \in 1 .. n + 4 /\ n + 2 \in 1 .. n + 4 /\ n + 3 \in 1 .. n + 4 /\ n + 4 \in 1 .. n + 4
      BY <1>1
    <3>5. \A i \in 1 .. n : Wire[m][i + 1] = h[i + 1]
      <4>1. \A i \in 1 .. n : i + 1 \in 1 .. n + 4 /\ i + 1 <= n + 1
        BY <1>1
      <4>2. QED BY <3>3, <4>1
    <3>6. QED BY <3>1, <3>3, <3>4, <3>5
  <2>6. QED BY <1>1, <1>5, <2>1, <2>4, <2>5
<1>6. QED BY <1>1, <1>4, <1>5

------------------------------------------------------------------------------
(* What parse() makes of a line.                                             *)

\* The last place of a byte: nothing after it is that byte.
LEMMA FinalIs ==
  ASSUME NEW s \in Seq(Bytes), NEW b, NEW p \in 1 .. Len(s), s[p] = b,
         \A q \in 1 .. Len(s) : q > p => s[q] # b
  PROVE  Final(b, s) = p
<1> DEFINE I == {i \in 1 .. Len(s) : s[i] = b}
<1>1. p \in I /\ \A q \in I : q <= p
  OBVIOUS
<1>2. \A x \in I : (\A y \in I : x >= y) => x = p
  BY <1>1
<1>3. Max(I) = p
  <2> HIDE DEF I
  <2>1. QED BY <1>1, <1>2 DEF Max
<1>4. QED BY <1>1, <1>3 DEF Final, SelectLastInSeq

\* A byte that is nowhere has the last place 0.
LEMMA FinalNone ==
  ASSUME NEW s \in Seq(Bytes), NEW b, \A q \in 1 .. Len(s) : s[q] # b
  PROVE  Final(b, s) = 0
BY DEF Final, SelectLastInSeq

\* The first place of a byte: nothing before it is that byte.
LEMMA FirstIs ==
  ASSUME NEW s \in Seq(Bytes), NEW b, NEW p \in 1 .. Len(s), s[p] = b,
         \A q \in 1 .. Len(s) : q < p => s[q] # b
  PROVE  First(b, s) = p
<1> DEFINE I == {i \in 1 .. Len(s) : s[i] = b}
<1>1. p \in I /\ I \in SUBSET Nat /\ \A q \in I : p <= q
  OBVIOUS
<1>2. Min(I) = p
  <2> HIDE DEF I
  <2>1. QED BY <1>1, LeastIs
<1>3. QED BY <1>1, <1>2 DEF First, SelectInSeq

\* Blanks come off the end.
LEMMA TrimTo ==
  ASSUME NEW s \in Seq(Bytes), NEW p \in 1 .. Len(s), s[p] \notin Blanks,
         \A q \in 1 .. Len(s) : q > p => s[q] \in Blanks
  PROVE  Trim(s) = SubSeq(s, 1, p)
<1> DEFINE I == {i \in 1 .. Len(s) : s[i] \notin Blanks}
<1>1. p \in I /\ \A q \in I : q <= p
  OBVIOUS
<1>2. \A x \in I : (\A y \in I : x >= y) => x = p
  BY <1>1
<1>3. Max(I) = p
  <2> HIDE DEF I
  <2>1. QED BY <1>1, <1>2 DEF Max
<1>4. SelectLastInSeq(s, LAMBDA b : b \notin Blanks) = p
  BY <1>1, <1>3 DEF SelectLastInSeq
<1>5. QED BY <1>4 DEF Trim

\* A line that does not end with a blank stays whole.
LEMMA TrimNothing ==
  ASSUME NEW s \in Seq(Bytes), Len(s) # 0, s[Len(s)] \notin Blanks
  PROVE  Trim(s) = s
<1>1. Trim(s) = SubSeq(s, 1, Len(s))
  BY TrimTo
<1>2. QED BY <1>1

\* What parse() makes of the body, once the checksum is valid.
Read(body) ==
  LET comma == First(Comma, body)
      type  == SubSeq(body, 1, comma - 1)
      rest  == Split(SubSeq(body, comma + 1, Len(body)))
  IN  IF comma = 0 THEN NoFrame
      ELSE IF type = PSHIP THEN ParsePship(rest) ELSE ParseSentence(type, rest)

\* parse() is a check of the frame, and then Read.
LEMMA ParseReads ==
  ASSUME NEW raw, NEW s, Trim(raw) = s
  PROVE  Parse(raw) =
           IF Len(s) < 2 \/ s[1] # Dollar \/ (Final(Star, s) # 0 /\ ~ValidChecksum(s)) THEN NoFrame
           ELSE Read(SubSeq(s, 2, IF Final(Star, s) = 0 THEN Len(s) ELSE Final(Star, s) - 1))
BY DEF Parse, Read

\* A * so near the end that no checksum can follow it.
LEMMA StarTooLate ==
  ASSUME NEW raw, NEW s \in Seq(Bytes), Trim(raw) = s, NEW p \in 1 .. Len(s), s[p] = Star,
         p + 2 > Len(s), \A q \in 1 .. Len(s) : q > p => s[q] # Star
  PROVE  Parse(raw) = NoFrame
<1>1. Final(Star, s) = p
  BY FinalIs
<1>2. ~ValidChecksum(s)
  BY <1>1 DEF ValidChecksum
<1>3. QED BY <1>1, <1>2, ParseReads

\* A line that ends with * and two bytes.
LEMMA ParseSummed ==
  ASSUME NEW s \in Seq(Bytes), NEW n \in Nat, Len(s) = n + 4,
         s[n + 2] = Star, s[n + 3] # Star, s[n + 4] # Star, s[n + 4] \notin Blanks
  PROVE  Parse(s) =
           IF /\ s[1] = Dollar /\ s[n + 3] \in ToSet(Hex)
              /\ Checksum(SubSeq(s, 2, n + 1)) = Bits(Expected(s[n + 3], s[n + 4]))
           THEN Read(SubSeq(s, 2, n + 1)) ELSE NoFrame
<1>1. Trim(s) = s
  BY TrimNothing
<1>2. Final(Star, s) = n + 2
  <2>1. n + 2 \in 1 .. Len(s) /\ \A q \in 1 .. Len(s) : q > n + 2 => q = n + 3 \/ q = n + 4
    OBVIOUS
  <2>2. QED BY <2>1, FinalIs
<1>3. ValidChecksum(s) <=> /\ s[n + 3] \in ToSet(Hex)
                           /\ Checksum(SubSeq(s, 2, n + 1)) = Bits(Expected(s[n + 3], s[n + 4]))
  <2>1. (n + 2) - 1 = n + 1 /\ (n + 2) + 1 = n + 3 /\ (n + 2) + 2 = n + 4
    OBVIOUS
  <2>2. QED BY <1>2, <2>1 DEF ValidChecksum
<1>4. n + 2 # 0 /\ (n + 2) - 1 = n + 1 /\ ~(Len(s) < 2)
  OBVIOUS
<1>5. QED BY <1>1, <1>2, <1>3, <1>4, ParseReads

\* A line with one byte changed, other than the * of its checksum, is refused or is
\* read as the line that was sent.
LEMMA OneByteChanged ==
  ASSUME NEW m \in Messages, m.sum, NEW i \in DOMAIN Wire[m], NEW b \in Bytes,
         i # Len(Wire[m]) - 2
  PROVE  Parse([Wire[m] EXCEPT ![i] = b]) \in {NoFrame, Parse(Wire[m])}
<1> DEFINE n == Len(Body(m))
           w == Wire[m]
           s == [w EXCEPT ![i] = b]
<1>1. /\ Body(m) \in Seq(Bytes) /\ n \in Nat /\ w \in Seq(Bytes) /\ Len(w) = n + 4
      /\ w[1] = Dollar /\ w[n + 2] = Star /\ i \in 1 .. n + 4 /\ i # n + 2
      /\ \A j \in 1 .. n : w[j + 1] = Body(m)[j]
  BY WireShape
<1>2. PICK k \in 0 .. 255 : /\ Bits(k) = Checksum(Body(m))
                            /\ w[n + 3] = HexToken(k)[1] /\ w[n + 4] = HexToken(k)[2]
  BY WireShape
<1>3. /\ w[n + 3] \in ToSet(Hex) /\ w[n + 3] # Star /\ w[n + 3] \notin Blanks
      /\ w[n + 4] \in ToSet(Hex) /\ w[n + 4] # Star /\ w[n + 4] \notin Blanks
      /\ Expected(w[n + 3], w[n + 4]) = k
  <2>1. 1 \in 1 .. 2 /\ 2 \in 1 .. 2
    OBVIOUS
  <2> HIDE DEF w, n
  <2>2. QED BY <1>2, <2>1, HexRoundTrip
<1>4. /\ s \in Seq(Bytes) /\ Len(s) = n + 4 /\ s[i] = b
      /\ \A j \in 1 .. n + 4 : j # i => s[j] = w[j]
  BY <1>1
<1> HIDE DEF s
<1>5. SubSeq(w, 2, n + 1) = Body(m)
  BY <1>1
<1>6. Parse(w) = Read(Body(m))
  <2>1. Parse(w) =
          IF /\ w[1] = Dollar /\ w[n + 3] \in ToSet(Hex)
             /\ Checksum(SubSeq(w, 2, n + 1)) = Bits(Expected(w[n + 3], w[n + 4]))
          THEN Read(SubSeq(w, 2, n + 1)) ELSE NoFrame
    <3> HIDE DEF w, n
    <3>1. QED BY <1>1, <1>3, ParseSummed
  <2>2. QED BY <1>1, <1>2, <1>3, <1>5, <2>1
<1>7. ASSUME s[n + 2] = Star, s[n + 3] # Star, s[n + 4] # Star, s[n + 4] \notin Blanks
      PROVE  Parse(s) = IF /\ s[1] = Dollar /\ s[n + 3] \in ToSet(Hex)
                           /\ Checksum(SubSeq(s, 2, n + 1)) = Bits(Expected(s[n + 3], s[n + 4]))
                        THEN Read(SubSeq(s, 2, n + 1)) ELSE NoFrame
  <2> HIDE DEF w, n
  <2>1. QED BY <1>1, <1>4, <1>7, ParseSummed
<1> HIDE DEF w, n
<1>8. s[n + 2] = Star
  BY <1>1, <1>4
<1>9. CASE i = 1
  <2>1. s[n + 3] = w[n + 3] /\ s[n + 4] = w[n + 4]
    BY <1>1, <1>4, <1>9
  <2>2. CASE b = Dollar
    <3>1. \A j \in 1 .. n + 4 : s[j] = w[j]
      BY <1>1, <1>4, <1>9, <2>2
    <3>2. s = w
      BY <1>1, <1>4, <3>1
    <3>3. QED BY <3>2 DEF s, w
  <2>3. CASE b # Dollar
    <3>1. Parse(s) = NoFrame
      BY <1>3, <1>4, <1>7, <1>8, <1>9, <2>1, <2>3
    <3>2. QED BY <3>1 DEF s, w
  <2>4. QED BY <2>2, <2>3
<1>10. CASE i \in 2 .. n + 1
  <2>1. s[1] = Dollar /\ s[n + 3] = w[n + 3] /\ s[n + 4] = w[n + 4]
    BY <1>1, <1>4, <1>10
  <2> DEFINE r == SubSeq(s, 2, n + 1)
  <2>2. /\ r \in Seq(Bytes) /\ Len(r) = n
        /\ \A j \in 1 .. n : r[j] = s[j + 1]
    BY <1>1, <1>4
  <2>3. \A j \in 1 .. n : j # i - 1 => r[j] = Body(m)[j]
    BY <1>1, <1>4, <1>10, <2>2
  <2>4. i - 1 \in 1 .. n /\ (i - 1) + 1 = i
    BY <1>1, <1>10
  <2>5. CASE b = w[i]
    <3>1. \A j \in 1 .. n + 4 : s[j] = w[j]
      BY <1>1, <1>4, <2>5
    <3>2. s = w
      BY <1>1, <1>4, <3>1
    <3>3. QED BY <3>2 DEF s, w
  <2>6. CASE b # w[i]
    <3>1. r[i - 1] # Body(m)[i - 1]
      BY <1>1, <1>4, <2>2, <2>4, <2>6
    <3>2. Checksum(r) # Checksum(Body(m))
      <4> HIDE DEF r
      <4>1. QED BY <1>1, <2>2, <2>3, <2>4, <3>1, ChecksumDiffers DEF n
    <3>3. Parse(s) = NoFrame
      BY <1>2, <1>3, <1>7, <1>8, <2>1, <3>2
    <3>4. QED BY <3>3 DEF s, w
  <2>7. QED BY <2>5, <2>6
<1>11. CASE i = n + 3
  <2>1. /\ s[1] = Dollar /\ s[n + 3] = b /\ s[n + 4] = w[n + 4]
        /\ \A j \in 2 .. n + 1 : s[j] = w[j]
    BY <1>1, <1>4, <1>11
  <2>2. SubSeq(s, 2, n + 1) = Body(m)
    BY <1>1, <1>4, <1>5, <2>1
  <2>3. CASE b = Star
    <3>1. Trim(s) = s
      BY <1>1, <1>3, <1>4, <2>1, TrimNothing
    <3>2. \A q \in 1 .. Len(s) : q > n + 3 => s[q] # Star
      BY <1>1, <1>3, <1>4, <2>1
    <3>3. Parse(s) = NoFrame
      BY <1>1, <1>4, <2>1, <2>3, <3>1, <3>2, StarTooLate
    <3>4. QED BY <3>3 DEF s, w
  <2>4. CASE b # Star
    BY <1>3, <1>6, <1>7, <1>8, <2>1, <2>2, <2>4 DEF s, w
  <2>5. QED BY <2>3, <2>4
<1>12. CASE i = n + 4
  <2>1. /\ s[1] = Dollar /\ s[n + 3] = w[n + 3] /\ s[n + 4] = b
        /\ \A j \in 2 .. n + 1 : s[j] = w[j]
    <3>1. n + 4 # 1 /\ n + 4 # n + 3 /\ \A j \in 2 .. n + 1 : j # n + 4 /\ j \in 1 .. n + 4
      BY <1>1
    <3>2. 1 \in 1 .. n + 4 /\ n + 3 \in 1 .. n + 4
      BY <1>1
    <3>3. QED BY <1>1, <1>4, <1>12, <3>1, <3>2
  <2>2. SubSeq(s, 2, n + 1) = Body(m)
    BY <1>1, <1>4, <1>5, <2>1
  <2>3. CASE b \in Blanks
    <3> DEFINE t == SubSeq(s, 1, n + 3)
    <3>1. Trim(s) = t
      <4>1. n + 3 \in 1 .. Len(s) /\ \A q \in 1 .. Len(s) : q > n + 3 => q = n + 4
        BY <1>1, <1>4
      <4>2. QED BY <1>3, <1>4, <2>1, <2>3, <4>1, TrimTo
    <3>2. /\ t \in Seq(Bytes) /\ Len(t) = n + 3
          /\ \A j \in 1 .. n + 3 : t[j] = s[j]
      BY <1>1, <1>4
    <3> HIDE DEF t
    <3>3. /\ n + 2 \in 1 .. Len(t) /\ t[n + 2] = Star /\ (n + 2) + 2 > Len(t)
          /\ \A q \in 1 .. Len(t) : q > n + 2 => t[q] # Star
      BY <1>1, <1>3, <1>8, <2>1, <3>2
    <3>4. Parse(s) = NoFrame
      BY <3>1, <3>2, <3>3, StarTooLate
    <3>5. QED BY <3>4 DEF s, w
  <2>4. CASE b \notin Blanks /\ b = Star
    <3>1. Trim(s) = s
      BY <1>1, <1>4, <2>1, <2>4, TrimNothing
    <3>2. \A q \in 1 .. Len(s) : q > n + 4 => s[q] # Star
      BY <1>1, <1>4
    <3>3. Parse(s) = NoFrame
      BY <1>1, <1>4, <2>1, <2>4, <3>1, <3>2, StarTooLate
    <3>4. QED BY <3>3 DEF s, w
  <2>5. CASE b \notin Blanks /\ b # Star
    BY <1>3, <1>6, <1>7, <1>8, <2>1, <2>2, <2>5 DEF s, w
  <2>6. QED BY <2>3, <2>4, <2>5
<1>13. QED BY <1>1, <1>9, <1>10, <1>11, <1>12

------------------------------------------------------------------------------
(* Tokens.                                                                   *)

\* In a finite set of numbers, as many as n of its members are below exactly one.
Rank(S, c) == Cardinality({d \in S : d < c})

\* A greater member has more members below it.
LEMMA RankGrows ==
  ASSUME NEW S \in SUBSET Nat, IsFiniteSet(S), NEW a \in S, NEW b \in S, a < b
  PROVE  Rank(S, a) < Rank(S, b)
<1> DEFINE A == {d \in S : d < a}
           B == {d \in S : d < b}
<1>1. IsFiniteSet(A) /\ IsFiniteSet(B) /\ Cardinality(A) \in Nat /\ Cardinality(B) \in Nat
  BY FS_Subset, FS_CardinalityType
<1>2. A \in SUBSET B /\ a \in B /\ a \notin A
  <2>1. \A d \in Nat : d < a => d < b
    OBVIOUS
  <2>2. ~(a < a) /\ a < b
    OBVIOUS
  <2>3. A \subseteq B
    BY <2>1
  <2>4. QED BY <2>2, <2>3
<1>3. Cardinality(A) <= Cardinality(B) /\ Cardinality(A) # Cardinality(B)
  <2> HIDE DEF A, B
  <2>1. QED BY <1>1, <1>2, FS_Subset
<1> HIDE DEF A, B
<1>4. Cardinality(A) < Cardinality(B)
  BY <1>1, <1>3
<1>5. QED BY <1>4 DEF Rank, A, B

\* No two members have as many below them.
LEMMA RankUnique ==
  ASSUME NEW S \in SUBSET Nat, IsFiniteSet(S), NEW a \in S, NEW b \in S, Rank(S, a) = Rank(S, b)
  PROVE  a = b
<1>1. \A c \in S : Rank(S, c) \in Nat
  BY FS_Subset, FS_CardinalityType DEF Rank
<1>2. ~(a < b) /\ ~(b < a)
  BY <1>1, RankGrows
<1>3. QED BY <1>2

\* Every number below the size of the set is the rank of a member.
LEMMA RankExists ==
  ASSUME NEW S \in SUBSET Nat, IsFiniteSet(S), NEW n \in 0 .. Cardinality(S) - 1
  PROVE  \E c \in S : Rank(S, c) = n
<1> DEFINE T == 0 .. Cardinality(S) - 1
           F == [c \in S |-> Rank(S, c)]
<1>1. Cardinality(S) \in Nat
  BY FS_CardinalityType
<1>2. ASSUME NEW c \in S PROVE Rank(S, c) \in T
  <2> DEFINE A == {d \in S : d < c}
  <2>1. A \in SUBSET (S \ {c})
    OBVIOUS
  <2>2. IsFiniteSet(S \ {c}) /\ Cardinality(S \ {c}) = Cardinality(S) - 1
    BY FS_RemoveElement
  <2>3. IsFiniteSet(A) /\ Cardinality(A) <= Cardinality(S) - 1 /\ Cardinality(A) \in Nat
    <3> HIDE DEF A
    <3>1. QED BY <2>1, <2>2, FS_Subset, FS_CardinalityType
  <2>4. QED BY <1>1, <2>3 DEF Rank
<1>3. F \in [S -> T] /\ \A c \in S : F[c] = Rank(S, c)
  BY <1>2
<1> HIDE DEF F
<1>4. F \in Injection(S, T)
  <2>1. \A a, b \in S : F[a] = F[b] => a = b
    BY <1>3, RankUnique
  <2>2. QED BY <1>3, <2>1, Fun_IsInj
<1>5. IsFiniteSet(T) /\ Cardinality(T) = Cardinality(S)
  BY <1>1, FS_Interval
<1> HIDE DEF T
<1>6. F \in Surjection(S, T)
  BY <1>4, <1>5, FS_Injection
<1>7. n \in T
  BY DEF T
<1>8. \E c \in S : F[c] = n
  BY <1>6, <1>7 DEF Surjection
<1>9. QED BY <1>3, <1>8

\* A text is cut at finitely many places.
LEMMA CutsFinite ==
  ASSUME NEW s \in Seq(Bytes)
  PROVE  /\ Cuts(s) \in SUBSET (0 .. Len(s) + 1) /\ Cuts(s) \in SUBSET Nat
         /\ IsFiniteSet(Cuts(s)) /\ Cardinality(Cuts(s)) \in Nat
<1>1. Cuts(s) \in SUBSET (0 .. Len(s) + 1)
  BY DEF Cuts
<1>2. IsFiniteSet(0 .. Len(s) + 1)
  BY FS_Interval
<1>3. QED BY <1>1, <1>2, FS_Subset, FS_CardinalityType

\* A cut is found by its rank.
LEMMA CutIs ==
  ASSUME NEW s \in Seq(Bytes), NEW c \in Cuts(s)
  PROVE  Cut(s, Rank(Cuts(s), c)) = c
<1>1. \A d \in Cuts(s) : Rank(Cuts(s), d) = Rank(Cuts(s), c) => d = c
  BY CutsFinite, RankUnique
<1>2. QED BY <1>1 DEF Cut, Rank

\* There is a cut of every rank.
LEMMA CutExists ==
  ASSUME NEW s \in Seq(Bytes), NEW n \in 0 .. Cardinality(Cuts(s)) - 1
  PROVE  Cut(s, n) \in Cuts(s) /\ Rank(Cuts(s), Cut(s, n)) = n
<1>1. PICK c \in Cuts(s) : Rank(Cuts(s), c) = n
  BY CutsFinite, RankExists
<1>2. QED BY <1>1, CutIs

\* A token is a piece of the text.
LEMMA SplitType ==
  ASSUME NEW s \in Seq(Bytes)
  PROVE  Split(s) \in Seq(Seq(Bytes))
<1> DEFINE N == Cardinality(Cuts(s)) - 1
<1>1. ASSUME NEW n \in 1 .. N PROVE SubSeq(s, Cut(s, n - 1) + 1, Cut(s, n) - 1) \in Seq(Bytes)
  <2>1. Cardinality(Cuts(s)) \in Nat /\ n \in 0 .. N /\ n - 1 \in 0 .. N
    BY CutsFinite
  <2>2. Cut(s, n) \in 0 .. Len(s) + 1 /\ Cut(s, n - 1) \in 0 .. Len(s) + 1
    BY <2>1, CutsFinite, CutExists
  <2> DEFINE a == Cut(s, n - 1) + 1
             b == Cut(s, n) - 1
  <2>3. a \in Nat /\ a >= 1 /\ b \in Int /\ b <= Len(s)
    BY <2>2
  <2> HIDE DEF a, b
  <2>4. \A i \in a .. b : s[i] \in Bytes
    BY <2>3
  <2>5. SubSeq(s, a, b) \in Seq(Bytes)
    BY <2>3, <2>4
  <2>6. QED BY <2>5 DEF a, b
<1>2. N \in Int /\ N >= 0
  <2>1. 0 \in Cuts(s)
    BY DEF Cuts
  <2>2. Cardinality(Cuts(s)) # 0
    BY <2>1, CutsFinite, FS_EmptySet
  <2>3. QED BY <2>2, CutsFinite
<1> HIDE DEF N
<1>3. [n \in 1 .. N |-> SubSeq(s, Cut(s, n - 1) + 1, Cut(s, n) - 1)] \in Seq(Seq(Bytes))
  BY <1>1, <1>2
<1>4. QED BY <1>3 DEF Split, N

\* A text without a comma is one token.
LEMMA SplitOne ==
  ASSUME NEW f \in Seq(Bytes), \A i \in 1 .. Len(f) : f[i] # Comma
  PROVE  Split(f) = <<f>>
<1> DEFINE e == Len(f) + 1
<1>1. Len(f) \in Nat /\ e \in Nat /\ 0 # e
  OBVIOUS
<1>2. Cuts(f) = {0, e}
  BY DEF Cuts
<1>3. Cardinality({0, e}) = 2
  <2>1. IsFiniteSet({0}) /\ Cardinality({0}) = 1
    BY FS_Singleton
  <2>2. {0, e} = {0} \cup {e} /\ e \notin {0}
    BY <1>1
  <2>3. Cardinality({0} \cup {e}) = Cardinality({0}) + 1
    BY <2>1, <2>2, FS_AddElement
  <2>4. Cardinality({0, e}) = 1 + 1
    BY <2>1, <2>2, <2>3, Zenon
  <2>5. QED BY <2>4
<1>4. Rank(Cuts(f), 0) = 0 /\ Rank(Cuts(f), e) = 1
  <2>1. {d \in Cuts(f) : d < 0} = {} /\ {d \in Cuts(f) : d < e} = {0}
    BY <1>1, <1>2
  <2>2. QED BY <2>1, FS_EmptySet, FS_Singleton DEF Rank
<1>5. Cut(f, 0) = 0 /\ Cut(f, 1) = e
  BY <1>2, <1>4, CutIs
<1>6. Split(f) = [n \in 1 .. 1 |-> SubSeq(f, Cut(f, n - 1) + 1, Cut(f, n) - 1)]
  BY <1>2, <1>3 DEF Split
<1>7. SubSeq(f, Cut(f, 0) + 1, Cut(f, 1) - 1) = f
  BY <1>1, <1>5
<1>8. Split(f)[1] = f /\ Split(f) = [n \in 1 .. 1 |-> Split(f)[n]]
  BY <1>6, <1>7
<1>9. Split(f) = [n \in 1 .. 1 |-> f]
  BY <1>8
<1>10. QED BY <1>9

\* The bytes of two texts with a comma between them.
LEMMA Joined ==
  ASSUME NEW s \in Seq(Bytes), NEW f \in Seq(Bytes)
  PROVE  LET t == s \o <<Comma>> \o f
         IN  /\ Len(s) \in Nat /\ Len(f) \in Nat
             /\ t \in Seq(Bytes) /\ Len(t) = Len(s) + 1 + Len(f)
             /\ \A i \in 1 .. Len(s) : t[i] = s[i]
             /\ t[Len(s) + 1] = Comma
             /\ \A i \in 1 .. Len(f) : t[Len(s) + 1 + i] = f[i]
<1> DEFINE h == s \o <<Comma>>
           t == h \o f
<1>1. Len(s) \in Nat /\ Len(f) \in Nat /\ Comma \in Bytes
  BY ParserAssumption
<1>2. /\ h \in Seq(Bytes) /\ Len(h) = Len(s) + 1 /\ h[Len(s) + 1] = Comma
      /\ \A i \in 1 .. Len(s) : h[i] = s[i]
  BY <1>1
<1> HIDE DEF h
<1>3. /\ t \in Seq(Bytes) /\ Len(t) = Len(h) + Len(f)
      /\ \A i \in 1 .. Len(h) + Len(f) : t[i] = IF i <= Len(h) THEN h[i] ELSE f[i - Len(h)]
  BY <1>2, ConcatProperties
<1> HIDE DEF t
<1>4. \A i \in 1 .. Len(s) : i \in 1 .. Len(h) + Len(f) /\ i <= Len(h)
  BY <1>1, <1>2
<1>5. Len(s) + 1 \in 1 .. Len(h) + Len(f) /\ Len(s) + 1 <= Len(h)
  BY <1>1, <1>2
<1>6. \A i \in 1 .. Len(f) : /\ Len(s) + 1 + i \in 1 .. Len(h) + Len(f)
                             /\ ~(Len(s) + 1 + i <= Len(h)) /\ (Len(s) + 1 + i) - Len(h) = i
  BY <1>1, <1>2
<1>7. QED BY <1>1, <1>2, <1>3, <1>4, <1>5, <1>6 DEF t, h

\* Another token after a comma.
LEMMA SplitAppend ==
  ASSUME NEW s \in Seq(Bytes), NEW f \in Seq(Bytes), \A i \in 1 .. Len(f) : f[i] # Comma
  PROVE  Split(s \o <<Comma>> \o f) = Append(Split(s), f)
<1> DEFINE t == s \o <<Comma>> \o f
           e == Len(s) + 1
           z == Len(t) + 1
           N == Cardinality(Cuts(s))
<1>1. /\ Len(s) \in Nat /\ Len(f) \in Nat
      /\ t \in Seq(Bytes) /\ Len(t) = Len(s) + 1 + Len(f)
      /\ \A i \in 1 .. Len(s) : t[i] = s[i]
      /\ t[e] = Comma
      /\ \A i \in 1 .. Len(f) : t[e + i] = f[i]
  BY Joined
<1> HIDE DEF t
<1>2. Cuts(t) = Cuts(s) \cup {z} /\ z \notin Cuts(s) /\ e \in Cuts(s)
  <2>1. ASSUME NEW i \in 1 .. Len(t), t[i] = Comma PROVE i \in Cuts(s)
    <3>1. CASE i <= Len(s)
      BY <1>1, <2>1, <3>1 DEF Cuts
    <3>2. CASE i = e
      BY <3>2 DEF Cuts
    <3>3. CASE i > e
      <4>1. i - e \in 1 .. Len(f) /\ e + (i - e) = i
        BY <1>1, <2>1, <3>3
      <4>2. QED BY <1>1, <2>1, <4>1
    <3>4. QED BY <1>1, <2>1, <3>1, <3>2, <3>3
  <2>2. ASSUME NEW i \in Cuts(s) PROVE i \in Cuts(t) /\ i < z
    <3>1. i = 0 \/ i = e \/ (i \in 1 .. Len(s) /\ s[i] = Comma)
      BY <2>2 DEF Cuts
    <3>2. e \in 1 .. Len(t) /\ \A j \in 1 .. Len(s) : j \in 1 .. Len(t) /\ j < z
      BY <1>1
    <3>3. QED BY <1>1, <3>1, <3>2 DEF Cuts
  <2>3. z \in Cuts(t) /\ e \in Cuts(s) /\ 0 \in Cuts(s)
    BY DEF Cuts
  <2>4. Cuts(t) \subseteq Cuts(s) \cup {z}
    BY <1>1, <2>1, <2>3 DEF Cuts
  <2>5. z \notin Cuts(s)
    BY <1>1, <2>2
  <2>6. QED BY <2>2, <2>3, <2>4, <2>5
<1>3. N \in Nat /\ N # 0 /\ Cardinality(Cuts(t)) = N + 1
  <2>1. IsFiniteSet(Cuts(s)) /\ N \in Nat /\ Cuts(s) # {}
    BY <1>2, CutsFinite
  <2>2. N # 0
    BY <2>1, FS_EmptySet
  <2> DEFINE C == Cuts(s)
  <2> HIDE DEF C, z
  <2>3. Cardinality(C \cup {z}) = Cardinality(C) + 1
    BY <1>2, <2>1, FS_AddElement DEF C
  <2>4. QED BY <1>2, <2>1, <2>2, <2>3 DEF C
<1>4. ASSUME NEW c \in Cuts(s) PROVE Rank(Cuts(t), c) = Rank(Cuts(s), c)
  <2>1. c < z /\ c \in Nat /\ z \in Nat
    BY <1>1, CutsFinite
  <2>2. {d \in Cuts(t) : d < c} = {d \in Cuts(s) : d < c}
    BY <1>2, <2>1
  <2>3. QED BY <2>2 DEF Rank
<1>5. Rank(Cuts(t), z) = N
  <2>1. \A d \in Cuts(s) : d \in Nat /\ d < z
    BY <1>1, CutsFinite
  <2>2. {d \in Cuts(t) : d < z} = Cuts(s)
    BY <1>1, <1>2, <2>1
  <2>3. QED BY <2>2 DEF Rank
<1>6. Cut(t, N) = z
  BY <1>1, <1>2, <1>5, CutIs
<1>7. ASSUME NEW n \in 0 .. N - 1 PROVE Cut(t, n) = Cut(s, n) /\ Cut(s, n) \in 0 .. e
  <2>1. Cut(s, n) \in Cuts(s) /\ Rank(Cuts(s), Cut(s, n)) = n
    BY CutExists
  <2>2. Cut(t, n) = Cut(s, n)
    BY <1>1, <1>2, <1>4, <2>1, CutIs
  <2>3. QED BY <2>1, <2>2, CutsFinite
<1>8. Cut(s, N - 1) = e
  <2>1. {d \in Cuts(s) : d < e} = Cuts(s) \ {e}
    <3>1. \A d \in Cuts(s) : d \in Nat /\ d <= e
      BY CutsFinite
    <3>2. QED BY <3>1
  <2> DEFINE C == Cuts(s)
  <2>2. Rank(Cuts(s), e) = N - 1
    <3>1. IsFiniteSet(C) /\ e \in C
      BY <1>2, CutsFinite
    <3> HIDE DEF C, e
    <3>2. Cardinality(C \ {e}) = Cardinality(C) - 1
      BY <3>1, FS_RemoveElement
    <3>3. QED BY <2>1, <3>2 DEF Rank, C
  <2>3. QED BY <1>2, <2>2, CutIs
<1>9. Split(s) = [n \in 1 .. N - 1 |-> SubSeq(s, Cut(s, n - 1) + 1, Cut(s, n) - 1)]
  BY DEF Split
<1>10. Split(t) = [n \in 1 .. N |-> SubSeq(t, Cut(t, n - 1) + 1, Cut(t, n) - 1)]
  BY <1>3 DEF Split
<1>11. Split(s) \in Seq(Seq(Bytes)) /\ Len(Split(s)) = N - 1
  <2>1. DOMAIN Split(s) = 1 .. N - 1
    BY <1>9
  <2>2. Split(s) \in Seq(Seq(Bytes))
    BY SplitType
  <2>3. N - 1 \in Nat
    BY <1>3
  <2> HIDE DEF N
  <2>4. Len(Split(s)) = N - 1
    BY <2>1, <2>2, <2>3, LenProperties
  <2>5. QED BY <2>2, <2>4
<1>12. ASSUME NEW n \in 1 .. N - 1 PROVE Split(t)[n] = Split(s)[n]
  <2>1. n \in 0 .. N - 1 /\ n - 1 \in 0 .. N - 1 /\ n \in 1 .. N
    BY <1>3
  <2> DEFINE a == Cut(s, n - 1) + 1
             b == Cut(s, n) - 1
  <2>2. Cut(t, n - 1) + 1 = a /\ Cut(t, n) - 1 = b
    BY <1>7, <2>1
  <2>3. a \in Nat /\ a >= 1 /\ b \in Int /\ b <= Len(s)
    BY <1>1, <1>7, <2>1
  <2>4. Split(t)[n] = SubSeq(t, a, b) /\ Split(s)[n] = SubSeq(s, a, b)
    BY <1>9, <1>10, <2>1, <2>2
  <2> HIDE DEF a, b
  <2>5. SubSeq(t, a, b) = SubSeq(s, a, b)
    BY <1>1, <2>3
  <2>6. QED BY <2>4, <2>5
<1>13. Split(t)[N] = f
  <2>1. N \in 1 .. N /\ N - 1 \in 0 .. N - 1
    BY <1>3
  <2>2. Split(t)[N] = SubSeq(t, e + 1, z - 1)
    BY <1>6, <1>7, <1>8, <1>10, <2>1
  <2>3. SubSeq(t, e + 1, z - 1) = f
    BY <1>1
  <2>4. QED BY <2>2, <2>3
<1>14. Split(t) = Append(Split(s), f)
  <2> DEFINE A == Append(Split(s), f)
  <2>1. /\ A \in Seq(Seq(Bytes)) /\ Len(A) = N
        /\ \A n \in 1 .. N - 1 : A[n] = Split(s)[n]
        /\ A[N] = f
    BY <1>3, <1>11
  <2> HIDE DEF A
  <2>2. A = [n \in 1 .. N |-> A[n]]
    BY <1>3, <2>1
  <2>3. ASSUME NEW n \in 1 .. N PROVE Split(t)[n] = A[n]
    <3>1. CASE n = N
      BY <1>13, <2>1, <3>1
    <3>2. CASE n # N
      <4>1. n \in 1 .. N - 1
        BY <1>3, <3>2
      <4>2. QED BY <1>12, <2>1, <4>1
    <3>3. QED BY <3>1, <3>2
  <2>4. Split(t) = [n \in 1 .. N |-> Split(t)[n]]
    BY <1>10
  <2>5. QED BY <2>2, <2>3, <2>4 DEF A
<1>15. QED BY <1>14 DEF t

------------------------------------------------------------------------------
(* A message that arrives whole.                                             *)

\* The text between the type and the end of the body has the fields as its tokens.
LEMMA BodyFields ==
  ASSUME NEW m \in Messages
  PROVE  \E r \in Seq(Bytes) :
           /\ Body(m) = m.type \o <<Comma>> \o r
           /\ Split(r) = m.fields
           /\ \A i \in 1 .. Len(r) : r[i] # Star /\ r[i] \notin Blanks
<1> DEFINE L == Len(m.fields)
           F == m.fields
           T == m.type
           Clean(r) == \A i \in 1 .. Len(r) : r[i] # Star /\ r[i] \notin Blanks
<1>1. PICK g \in [0 .. L -> Seq(Bytes)] : Grows(m, g) /\ Body(m) = g[L]
  BY BodyGrows
<1> DEFINE Good(n) == \E r \in Seq(Bytes) : /\ g[n] = T \o <<Comma>> \o r
                                            /\ Split(r) = SubSeq(F, 1, n)
                                            /\ Clean(r)
           Bad == {n \in 1 .. L : ~Good(n)}
<1>2. /\ L \in Nat \ {0} /\ T \in Seq(Bytes) /\ F \in Seq(Seq(Bytes))
      /\ \A n \in 1 .. L : /\ F[n] \in Seq(Bytes) /\ Clean(F[n])
                           /\ \A i \in 1 .. Len(F[n]) : F[n][i] # Comma
  <2>1. /\ L \in Nat \ {0} /\ T \in Seq(Bytes) /\ F \in Seq(Text)
        /\ \A n \in 1 .. L : /\ F[n] \in Seq(Bytes) /\ Clean(F[n])
                             /\ \A i \in 1 .. Len(F[n]) : F[n][i] # Comma
    BY MessageText
  <2>2. QED BY <2>1, FieldsType
<1>3. <<Comma>> \in Seq(Bytes) /\ Comma # Star /\ Comma \notin Blanks
  BY ParserAssumption
<1>4. g[0] = T /\ \A n \in 1 .. L : g[n] = g[n - 1] \o <<Comma>> \o F[n]
  BY <1>1 DEF Grows
<1> HIDE DEF Clean
<1>5. Good(1)
  <2>1. 1 \in 1 .. L /\ 1 - 1 = 0
    BY <1>2
  <2>2. g[1] = T \o <<Comma>> \o F[1]
    BY <1>4, <2>1
  <2>3. Split(F[1]) = <<F[1]>>
    BY <1>2, <2>1, SplitOne
  <2>4. SubSeq(F, 1, 1) = <<F[1]>>
    <3>1. <<F[1]>> = [i \in 1 .. 1 |-> F[1]]
      OBVIOUS
    <3>2. SubSeq(F, 1, 1) = [i \in 1 .. 1 |-> F[i]]
      <4> HIDE DEF F
      <4>1. QED BY <1>2, <2>1
    <3>3. [i \in 1 .. 1 |-> F[i]] = [i \in 1 .. 1 |-> F[1]]
      OBVIOUS
    <3>4. QED BY <3>1, <3>2, <3>3
  <2>5. QED BY <1>2, <2>1, <2>2, <2>3, <2>4
<1>6. ASSUME NEW n \in 2 .. L, Good(n - 1) PROVE Good(n)
  <2>1. n \in 1 .. L /\ n - 1 \in 1 .. L /\ (n - 1) + 1 = n /\ n - 1 \in Nat
    BY <1>2
  <2>2. PICK r \in Seq(Bytes) : /\ g[n - 1] = T \o <<Comma>> \o r
                                /\ Split(r) = SubSeq(F, 1, n - 1)
                                /\ Clean(r)
    BY <1>6
  <2> DEFINE q == r \o <<Comma>> \o F[n]
  <2>3. q \in Seq(Bytes)
    BY <1>2, <1>3, <2>1
  <2>4. g[n] = T \o <<Comma>> \o q
    <3> DEFINE h == T \o <<Comma>>
    <3>1. g[n] = h \o r \o <<Comma>> \o F[n]
      BY <1>4, <2>1, <2>2
    <3>2. h \in Seq(Bytes) /\ r \o <<Comma>> \in Seq(Bytes) /\ F[n] \in Seq(Bytes)
      BY <1>2, <1>3, <2>1
    <3> HIDE DEF h
    <3>3. (h \o r) \o <<Comma>> = h \o (r \o <<Comma>>)
      BY <1>3, <3>2, ConcatAssociative
    <3>4. (h \o (r \o <<Comma>>)) \o F[n] = h \o ((r \o <<Comma>>) \o F[n])
      <4> DEFINE z == r \o <<Comma>>
                 f == F[n]
      <4>1. z \in Seq(Bytes) /\ f \in Seq(Bytes)
        BY <3>2
      <4> HIDE DEF z, f
      <4>2. (h \o z) \o f = h \o (z \o f)
        BY <3>2, <4>1, ConcatAssociative
      <4>3. QED BY <4>2 DEF z, f
    <3>5. QED BY <3>1, <3>3, <3>4 DEF h
  <2>5. Split(q) = SubSeq(F, 1, n)
    <3>1. Split(q) = Append(Split(r), F[n])
      BY <1>2, <2>1, SplitAppend
    <3>2. Append(SubSeq(F, 1, n - 1), F[n]) = SubSeq(F, 1, n)
      <4> HIDE DEF F
      <4>1. QED BY <1>2, <2>1
    <3>3. QED BY <2>2, <3>1, <3>2
  <2>6. Clean(q)
    <3>1. /\ Len(r) \in Nat /\ Len(F[n]) \in Nat /\ Len(q) = Len(r) + 1 + Len(F[n])
          /\ \A i \in 1 .. Len(r) : q[i] = r[i]
          /\ q[Len(r) + 1] = Comma
          /\ \A i \in 1 .. Len(F[n]) : q[Len(r) + 1 + i] = F[n][i]
      BY <1>2, <2>1, Joined
    <3> HIDE DEF q, F
    <3>2. ASSUME NEW i \in 1 .. Len(q) PROVE q[i] # Star /\ q[i] \notin Blanks
      <4>1. CASE i \in 1 .. Len(r)
        BY <2>2, <3>1, <4>1 DEF Clean
      <4>2. CASE i = Len(r) + 1
        BY <1>3, <3>1, <4>2
      <4>3. CASE i > Len(r) + 1
        <5>1. i - (Len(r) + 1) \in 1 .. Len(F[n]) /\ Len(r) + 1 + (i - (Len(r) + 1)) = i
          <6>1. \A a, b \in Nat : \A j \in 1 .. a + 1 + b :
                  j > a + 1 => j - (a + 1) \in 1 .. b /\ a + 1 + (j - (a + 1)) = j
            OBVIOUS
          <6>2. QED BY <3>1, <4>3, <6>1
        <5>2. q[i] = F[n][i - (Len(r) + 1)]
          BY <3>1, <5>1
        <5>3. QED BY <1>2, <2>1, <5>1, <5>2 DEF Clean
      <4>4. QED BY <3>1, <4>1, <4>2, <4>3
    <3>3. QED BY <3>2 DEF Clean
  <2> HIDE DEF q
  <2>7. QED BY <2>3, <2>4, <2>5, <2>6
<1>7. Bad = {}
  <2>1. SUFFICES ASSUME Bad # {} PROVE FALSE
    OBVIOUS
  <2>2. PICK n \in Bad : \A k \in Bad : n <= k
    <3>1. Bad \in SUBSET Nat
      BY <1>2
    <3> HIDE DEF Bad
    <3>2. QED BY <2>1, <3>1, LeastNat
  <2> HIDE DEF Good
  <2>3. n # 1
    BY <1>5, <2>2
  <2>4. n \in 2 .. L /\ n - 1 \in 1 .. L /\ ~(n <= n - 1)
    BY <1>2, <2>2, <2>3
  <2>5. Good(n - 1)
    BY <2>2, <2>4
  <2>6. Good(n)
    BY <1>6, <2>4, <2>5
  <2>7. QED BY <2>2, <2>6
<1>8. Good(L)
  <2> HIDE DEF Good
  <2>1. L \in 1 .. L
    BY <1>2
  <2>2. QED BY <1>7, <2>1
<1>9. SubSeq(F, 1, L) = F
  BY <1>2
<1>10. QED BY <1>1, <1>8, <1>9 DEF Clean

\* The parser sees the type and the fields of the message.
LEMMA ReadBody ==
  ASSUME NEW m \in Messages
  PROVE  Read(Body(m)) = IF m.type = PSHIP THEN ParsePship(m.fields)
                                           ELSE ParseSentence(m.type, m.fields)
<1>1. PICK r \in Seq(Bytes) : Body(m) = m.type \o <<Comma>> \o r /\ Split(r) = m.fields
  BY BodyFields
<1> DEFINE B == Body(m)
           T == m.type
           e == Len(T) + 1
<1>2. T \in Seq(Bytes) /\ \A i \in 1 .. Len(T) : T[i] # Comma
  BY MessageText
<1>3. /\ Len(T) \in Nat /\ Len(r) \in Nat
      /\ B \in Seq(Bytes) /\ Len(B) = Len(T) + 1 + Len(r)
      /\ \A i \in 1 .. Len(T) : B[i] = T[i]
      /\ B[e] = Comma
      /\ \A i \in 1 .. Len(r) : B[e + i] = r[i]
  BY <1>1, <1>2, Joined
<1> HIDE DEF B, T
<1>4. First(Comma, B) = e
  <2>1. e \in 1 .. Len(B) /\ \A q \in 1 .. Len(B) : q < e => q \in 1 .. Len(T)
    BY <1>3
  <2>2. \A q \in 1 .. Len(B) : q < e => B[q] # Comma
    BY <1>2, <1>3, <2>1
  <2> HIDE DEF e
  <2>3. QED BY <1>3, <2>1, <2>2, FirstIs
<1>5. SubSeq(B, 1, e - 1) = T
  BY <1>2, <1>3
<1>6. SubSeq(B, e + 1, Len(B)) = r
  BY <1>3
<1>7. e # 0
  BY <1>3
<1>8. QED BY <1>1, <1>4, <1>5, <1>6, <1>7 DEF Read, B, T

\* No star and no blank is in the body of a message.
LEMMA BodyClean ==
  ASSUME NEW m \in Messages
  PROVE  /\ Len(Body(m)) \in Nat \ {0}
         /\ \A i \in 1 .. Len(Body(m)) : Body(m)[i] # Star /\ Body(m)[i] \notin Blanks
<1>1. PICK r \in Seq(Bytes) : /\ Body(m) = m.type \o <<Comma>> \o r
                              /\ \A i \in 1 .. Len(r) : r[i] # Star /\ r[i] \notin Blanks
  BY BodyFields
<1> DEFINE B == Body(m)
           T == m.type
           e == Len(T) + 1
<1>2. T \in Seq(Bytes) /\ \A i \in 1 .. Len(T) : T[i] # Star /\ T[i] \notin Blanks
  BY MessageText
<1>3. /\ Len(T) \in Nat /\ Len(r) \in Nat
      /\ B \in Seq(Bytes) /\ Len(B) = Len(T) + 1 + Len(r)
      /\ \A i \in 1 .. Len(T) : B[i] = T[i]
      /\ B[e] = Comma
      /\ \A i \in 1 .. Len(r) : B[e + i] = r[i]
  BY <1>1, <1>2, Joined
<1> HIDE DEF B, T
<1>4. ASSUME NEW i \in 1 .. Len(B) PROVE B[i] # Star /\ B[i] \notin Blanks
  <2>1. CASE i \in 1 .. Len(T)
    BY <1>2, <1>3, <2>1
  <2>2. CASE i = e
    BY <1>3, <2>2, ParserAssumption
  <2>3. CASE i > e
    <3>1. i - e \in 1 .. Len(r) /\ e + (i - e) = i
      BY <1>3, <2>3
    <3>2. QED BY <1>1, <1>3, <3>1
  <2>4. QED BY <1>3, <2>1, <2>2, <2>3
<1>5. Len(B) \in Nat \ {0}
  BY <1>3
<1>6. QED BY <1>4, <1>5 DEF B

\* What parse() makes of a line that arrives as it was sent.
LEMMA ParseWhole ==
  ASSUME NEW m \in Messages
  PROVE  Parse(Wire[m]) = IF m.type = PSHIP THEN ParsePship(m.fields)
                                            ELSE ParseSentence(m.type, m.fields)
<1> DEFINE w == Wire[m]
           B == Body(m)
           n == Len(B)
<1>1. /\ B \in Seq(Bytes) /\ n \in Nat \ {0} /\ w \in Seq(Bytes) /\ w[1] = Dollar
      /\ \A i \in 1 .. n : w[i + 1] = B[i]
      /\ \A i \in 1 .. n : B[i] # Star /\ B[i] \notin Blanks
  BY WireShape, BodyClean
<1>2. CASE ~m.sum
  <2>1. Len(w) = n + 1
    BY <1>2, WireShape
  <2> HIDE DEF w, B
  <2>2. \A q \in 1 .. Len(w) : w[q] # Star
    <3>1. \A q \in 1 .. Len(w) : q = 1 \/ (q - 1 \in 1 .. n /\ (q - 1) + 1 = q)
      BY <1>1, <2>1
    <3>2. Dollar # Star
      BY ParserAssumption
    <3>3. ASSUME NEW q \in 1 .. Len(w) PROVE w[q] # Star
      <4>1. CASE q = 1
        BY <1>1, <3>2, <4>1
      <4>2. CASE q - 1 \in 1 .. n /\ (q - 1) + 1 = q
        <5>1. w[q] = B[q - 1]
          BY <1>1, <4>2
        <5>2. QED BY <1>1, <4>2, <5>1
      <4>3. QED BY <3>1, <4>1, <4>2
    <3>4. QED BY <3>3
  <2>3. w[Len(w)] \notin Blanks /\ Len(w) # 0
    <3>1. n \in 1 .. n /\ n + 1 # 0
      BY <1>1
    <3>2. QED BY <1>1, <2>1, <3>1
  <2>4. Trim(w) = w
    BY <1>1, <2>3, TrimNothing
  <2>5. Final(Star, w) = 0
    BY <1>1, <2>2, FinalNone
  <2>6. ~(Len(w) < 2)
    BY <1>1, <2>1
  <2>7. Parse(w) = Read(SubSeq(w, 2, Len(w)))
    BY <1>1, <2>4, <2>5, <2>6, ParseReads
  <2>8. SubSeq(w, 2, Len(w)) = B
    BY <1>1, <2>1
  <2>9. QED BY <2>7, <2>8, ReadBody DEF w, B
<1>3. CASE m.sum
  <2>1. /\ Len(w) = n + 4 /\ w[n + 2] = Star
        /\ \E k \in 0 .. 255 : /\ Bits(k) = Checksum(B)
                               /\ w[n + 3] = HexToken(k)[1] /\ w[n + 4] = HexToken(k)[2]
    BY <1>3, WireShape
  <2>2. PICK k \in 0 .. 255 : /\ Bits(k) = Checksum(B)
                              /\ w[n + 3] = HexToken(k)[1] /\ w[n + 4] = HexToken(k)[2]
    BY <2>1
  <2>3. /\ w[n + 3] \in ToSet(Hex) /\ w[n + 3] # Star
        /\ w[n + 4] # Star /\ w[n + 4] \notin Blanks
        /\ Expected(w[n + 3], w[n + 4]) = k
    <3>1. 1 \in 1 .. 2 /\ 2 \in 1 .. 2
      OBVIOUS
    <3> HIDE DEF w, n
    <3>2. QED BY <2>2, <3>1, HexRoundTrip
  <2> HIDE DEF w, B
  <2>4. SubSeq(w, 2, n + 1) = B
    BY <1>1, <2>1
  <2>5. Parse(w) = Read(B)
    <3>1. n \in Nat
      BY <1>1
    <3> HIDE DEF n
    <3>2. QED BY <1>1, <2>1, <2>2, <2>3, <2>4, <3>1, ParseSummed
  <2>6. QED BY <2>5, ReadBody DEF w, B
<1>4. QED BY <1>2, <1>3

------------------------------------------------------------------------------
(* Numbers.                                                                  *)

\* Min of a set of naturals is in the set and below all of it.
LEMMA MinIn == ASSUME NEW S \in SUBSET Nat, S # {}
               PROVE  Min(S) \in S /\ \A y \in S : Min(S) <= y
<1>1. PICK x \in S : \A y \in S : x <= y
  BY LeastNat
<1>2. Min(S) = x
  BY <1>1, LeastIs
<1>3. QED BY <1>1, <1>2

\* Max of a bounded set of naturals is in the set and above all of it.
LEMMA MaxIn == ASSUME NEW N \in Nat, NEW S \in SUBSET (0 .. N), S # {}
               PROVE  Max(S) \in S /\ \A y \in S : y <= Max(S)
<1> DEFINE T == {k \in 0 .. N : \E x \in S : k = N - x}
<1>1. T \in SUBSET Nat /\ T # {}
  <2>1. PICK x \in S : TRUE
    OBVIOUS
  <2>2. N - x \in T
    BY <2>1
  <2>3. T \in SUBSET Nat
    OBVIOUS
  <2>4. QED BY <2>2, <2>3
<1>2. PICK k \in T : \A j \in T : k <= j
  <2> HIDE DEF T
  <2>1. QED BY <1>1, LeastNat
<1>3. PICK p \in S : k = N - p
  BY <1>2
<1>4. ASSUME NEW y \in S PROVE p >= y
  <2>1. N - y \in T
    OBVIOUS
  <2> HIDE DEF T
  <2>2. k <= N - y
    BY <1>2, <2>1
  <2>3. QED BY <1>3, <2>2
<1>5. \A x \in S : (\A y \in S : x >= y) => x = p
  BY <1>4
<1>6. Max(S) = p
  <2>1. Max(S) \in S /\ \A y \in S : Max(S) >= y
    BY <1>4 DEF Max
  <2>2. QED BY <1>5, <2>1
<1>7. QED BY <1>4, <1>6

\* What is cut off at a is at most a.
LEMMA LesserOf == ASSUME NEW a \in Nat, NEW b \in Nat
                  PROVE  Min({a, b}) \in 0 .. a
<1>1. {a, b} \in SUBSET Nat /\ a \in {a, b}
  OBVIOUS
<1> DEFINE S == {a, b}
<1> HIDE DEF S
<1>2. Min(S) \in S /\ Min(S) <= a
  BY <1>1, MinIn DEF S
<1>3. Min(S) \in Nat
  BY <1>1, <1>2 DEF S
<1>4. QED BY <1>2, <1>3 DEF S

\* A decimal digit has a value.
LEMMA DigitValue == ASSUME NEW b \in Digits PROVE HexValue(b) \in Nat
<1>1. b \in ToSet(Hex)
  BY ParserAssumption DEF Digits, ToSet
<1>2. QED BY <1>1, HexValueType

\* The digits that follow each other from a place of the text on.
LEMMA RunIs ==
  ASSUME NEW t \in Seq(Bytes), NEW i \in 1 .. Len(t) + 1
  PROVE  /\ Run(t, i) \in 0 .. Len(t) + 1 - i
         /\ \A j \in i .. i + Run(t, i) - 1 : t[j] \in Digits
<1> DEFINE N == Len(t) + 1 - i
           E == {n \in 0 .. N : i + n <= Len(t) => t[i + n] \notin Digits}
           OK(n) == /\ \A j \in i .. i + n - 1 : t[j] \in Digits
                    /\ i + n <= Len(t) => t[i + n] \notin Digits
<1>1. Len(t) \in Nat /\ N \in Nat /\ ~(i + N <= Len(t))
  OBVIOUS
<1>2. N \in E /\ E \in SUBSET Nat
  BY <1>1
<1>3. PICK n \in E : \A k \in E : n <= k
  <2> HIDE DEF E
  <2>1. QED BY <1>2, LeastNat
<1>4. ASSUME NEW j \in i .. i + n - 1 PROVE t[j] \in Digits
  <2>1. j - i \in 0 .. N /\ ~(n <= j - i) /\ i + (j - i) = j
    BY <1>1, <1>3
  <2>2. j - i \notin E
    <3> HIDE DEF E
    <3>1. QED BY <1>3, <2>1
  <2>3. QED BY <2>1, <2>2
<1>5. n \in 0 .. N /\ OK(n)
  BY <1>3, <1>4
<1>6. Run(t, i) = CHOOSE k \in 0 .. N : OK(k)
  BY DEF Run
<1> HIDE DEF OK
<1>7. Run(t, i) \in 0 .. N /\ OK(Run(t, i))
  BY <1>5, <1>6
<1>8. QED BY <1>7 DEF OK

\* Digits and zeros amount to at most Huge, however many they are.
LEMMA AmountType ==
  ASSUME NEW t \in Seq(Bytes), NEW i \in 1 .. Len(t) + 1, NEW e \in Nat
  PROVE  Amount(t, i, e) \in 0 .. Huge
<1> DEFINE U == Run(t, i)
           R == U + e
           digit(n) == IF n <= U THEN HexValue(t[i + n - 1]) ELSE 0
           Then(v, n) == Min({Huge, 10 * v + digit(n)})
           value == CHOOSE f : f = [n \in 0 .. R |-> IF n = 0 THEN 0 ELSE Then(f[n - 1], n)]
           Partial(N) == \E g \in [0 .. N -> 0 .. Huge] :
                           g[0] = 0 /\ \A n \in 1 .. N : g[n] = Then(g[n - 1], n)
           Bad == {N \in Nat : N <= R /\ ~Partial(N)}
<1>1. Amount(t, i, e) = value[R]
  BY DEF Amount
<1>2. Huge \in Nat /\ U \in Nat /\ R \in Nat
  BY RunIs, ParserAssumption
<1>3. ASSUME NEW n \in 1 .. R, NEW v \in 0 .. Huge PROVE Then(v, n) \in 0 .. Huge
  <2>1. ASSUME n <= U PROVE HexValue(t[i + n - 1]) \in Nat
    <3>1. i + n - 1 \in i .. i + U - 1
      BY <1>2, <2>1
    <3> HIDE DEF U
    <3>2. t[i + n - 1] \in Digits
      BY <3>1, RunIs DEF U
    <3>3. QED BY <3>2, DigitValue
  <2>2. digit(n) \in Nat
    BY <2>1
  <2> HIDE DEF digit
  <2>3. 10 * v + digit(n) \in Nat
    BY <1>2, <2>2
  <2>4. QED BY <1>2, <2>3, LesserOf
<1> HIDE DEF Then, digit, R, U
<1>4. Bad = {}
  <2>1. SUFFICES ASSUME Bad # {} PROVE FALSE
    OBVIOUS
  <2>2. PICK N \in Bad : \A M \in Bad : N <= M
    <3> HIDE DEF Partial
    <3>1. Bad \in SUBSET Nat
      OBVIOUS
    <3> HIDE DEF Bad
    <3>2. QED BY <2>1, <3>1, LeastNat
  <2>3. CASE N = 0
    <3> DEFINE h == [n \in 0 .. 0 |-> 0]
    <3>1. h \in [0 .. 0 -> 0 .. Huge] /\ h[0] = 0
      BY <1>2
    <3> HIDE DEF h
    <3>2. \A n \in 1 .. 0 : h[n] = Then(h[n - 1], n)
      OBVIOUS
    <3>3. Partial(0)
      BY <3>1, <3>2
    <3>4. QED BY <2>2, <2>3, <3>3
  <2>4. CASE N # 0
    <3>1. N \in 1 .. R /\ N - 1 \in Nat /\ N - 1 <= R
      BY <1>2, <2>2, <2>4
    <3>2. Partial(N - 1)
      <4>1. N - 1 \notin Bad
        <5> HIDE DEF Bad
        <5>1. QED BY <2>2, <3>1
      <4> HIDE DEF Partial
      <4>2. QED BY <3>1, <4>1
    <3>3. PICK g \in [0 .. N - 1 -> 0 .. Huge] :
            g[0] = 0 /\ \A n \in 1 .. N - 1 : g[n] = Then(g[n - 1], n)
      BY <3>2
    <3> DEFINE last == Then(g[N - 1], N)
               h    == [n \in 0 .. N |-> IF n = N THEN last ELSE g[n]]
    <3>4. last \in 0 .. Huge
      BY <1>3, <3>1, <3>3
    <3>5. /\ h \in [0 .. N -> 0 .. Huge] /\ h[N] = last
          /\ \A n \in 0 .. N - 1 : h[n] = g[n]
      <4> HIDE DEF last
      <4>1. QED BY <3>1, <3>3, <3>4
    <3>6. h[0] = 0
      BY <3>1, <3>3, <3>5
    <3>7. ASSUME NEW n \in 1 .. N PROVE h[n] = Then(h[n - 1], n)
      <4>1. n - 1 \in 0 .. N - 1 /\ (n # N => n \in 1 .. N - 1 /\ n \in 0 .. N - 1)
        BY <3>1
      <4> HIDE DEF h
      <4>2. QED BY <3>3, <3>5, <4>1
    <3>8. Partial(N)
      <4> HIDE DEF h
      <4>1. QED BY <3>5, <3>6, <3>7
    <3>9. QED BY <2>2, <3>8
  <2>5. QED BY <2>3, <2>4
<1>5. PICK g \in [0 .. R -> 0 .. Huge] : g[0] = 0 /\ \A n \in 1 .. R : g[n] = Then(g[n - 1], n)
  <2>1. Partial(R)
    <3> HIDE DEF Partial
    <3>1. QED BY <1>2, <1>4
  <2>2. QED BY <2>1
<1> HIDE DEF Partial, Bad
<1>6. g = [n \in 0 .. R |-> IF n = 0 THEN 0 ELSE Then(g[n - 1], n)]
  BY <1>2, <1>5
<1>7. value = [n \in 0 .. R |-> IF n = 0 THEN 0 ELSE Then(value[n - 1], n)]
  BY <1>6
<1> HIDE DEF value
<1>8. \A n \in 0 .. R : value[n] \in 0 .. Huge
  <2> DEFINE Wrong == {n \in 0 .. R : value[n] \notin 0 .. Huge}
  <2>1. SUFFICES ASSUME Wrong # {} PROVE FALSE
    OBVIOUS
  <2>2. PICK k \in Wrong : \A j \in Wrong : k <= j
    <3>1. Wrong \in SUBSET Nat
      BY <1>2
    <3> HIDE DEF Wrong
    <3>2. QED BY <2>1, <3>1, LeastNat
  <2>3. k # 0
    BY <1>2, <1>7
  <2>4. k \in 1 .. R /\ k - 1 \in 0 .. R /\ k - 1 < k
    BY <1>2, <2>3
  <2>5. value[k - 1] \in 0 .. Huge
    BY <2>2, <2>4
  <2>6. value[k] \in 0 .. Huge
    BY <1>3, <1>7, <2>4, <2>5
  <2>7. QED BY <2>6
<1>9. R \in 0 .. R
  BY <1>2
<1>10. QED BY <1>1, <1>8, <1>9

\* std::stod() gives NaN, nothing, or a number below Huge.
LEMMA NumberType ==
  ASSUME NEW t \in Seq(Bytes)
  PROVE  Number(t) \in NaN .. Huge - 1
<1> DEFINE I == {k \in 1 .. Len(t) : t[k] \notin Blanks}
           i == SelectInSeq(t, LAMBDA b : b \notin Blanks)
           j == i + Run(t, i)
           e == IF j < Len(t) /\ t[j] = Exponent THEN Amount(t, j + 1, 0) ELSE 0
<1>1. Huge \in Nat /\ NaN \in NaN .. Huge - 1 /\ None \in NaN .. Huge - 1
  BY ParserAssumption DEF NaN, None
<1>2. Len(t) \in Nat
  OBVIOUS
<1>3. i = 0 \/ i \in 1 .. Len(t)
  <2>1. i = IF I # {} THEN Min(I) ELSE 0
    BY DEF SelectInSeq
  <2>2. I \in SUBSET Nat /\ I \subseteq 1 .. Len(t)
    OBVIOUS
  <2> HIDE DEF I, i
  <2>3. QED BY <2>1, <2>2, MinIn
<1> HIDE DEF i
<1>4. ASSUME i # 0 PROVE Amount(t, i, e) \in 0 .. Huge
  <2>1. i \in 1 .. Len(t) + 1
    BY <1>2, <1>3, <1>4
  <2>2. Run(t, i) \in Nat
    BY <2>1, RunIs
  <2>3. e \in Nat
    <3>1. ASSUME j < Len(t) PROVE Amount(t, j + 1, 0) \in Nat
      <4>1. j + 1 \in 1 .. Len(t) + 1
        BY <1>2, <2>1, <2>2, <3>1
      <4> HIDE DEF j
      <4>2. QED BY <1>1, <4>1, AmountType
    <3>2. QED BY <3>1
  <2> HIDE DEF e
  <2>4. QED BY <2>1, <2>3, AmountType
<1>5. Number(t) = IF i > 0 /\ IsPrefix(NanWord, SubSeq(t, i, Len(t))) THEN NaN
                  ELSE IF i = 0 \/ j = i \/ Amount(t, i, e) = Huge THEN None
                  ELSE Amount(t, i, e)
  BY DEF Number, i
<1> HIDE DEF e, j
<1>6. ASSUME NEW v \in 0 .. Huge, v # Huge PROVE v \in NaN .. Huge - 1
  BY <1>1, <1>6 DEF NaN
<1>7. QED BY <1>1, <1>4, <1>5, <1>6

------------------------------------------------------------------------------
(* The tables.                                                               *)

Mapping(d) == [id |-> d, field |-> sensors[d].field]
Of(t)      == {d \in DOMAIN sensors : sensors[d].sentence = t}

Tables ==
  /\ DOMAIN sensors \subseteq 0 .. 255
  /\ \A d \in DOMAIN sensors : sensors[d] \in Entries
  /\ DOMAIN thresholds = DOMAIN sensors
  /\ \A d \in DOMAIN sensors : thresholds[d] = sensors[d].threshold

\* Each sensor has its place, under its type or its identifier, and nobody else has one.
Configured ==
  /\ DOMAIN mappings = {sensors[d].sentence : d \in DOMAIN sensors} \ {PSHIP}
  /\ \A t \in DOMAIN mappings :
       /\ mappings[t] \in Seq([id : DOMAIN sensors, field : Int])
       /\ \A i \in 1 .. Len(mappings[t]) : \E d \in Of(t) : mappings[t][i] = Mapping(d)
       /\ \A d \in Of(t) : \E i \in 1 .. Len(mappings[t]) : mappings[t][i] = Mapping(d)
  /\ DOMAIN pship = {HexToken(d) : d \in Of(PSHIP)}
  /\ \A d \in Of(PSHIP) : pship[HexToken(d)] = Mapping(d)

ConfigInv ==
  /\ phase \in {"load", "run"} /\ loaded \in 0 .. MaxEntries
  /\ Tables
  /\ phase = "load" => mappings = Empty /\ pship = Empty /\ frame = Idle
  /\ phase = "run" => Configured

\* What an entry of the configuration holds.
LEMMA EntryType ==
  ASSUME NEW e \in Entries
  PROVE  /\ e.id \in Nat \cup {None} /\ e.field \in Int
         /\ e.threshold.warningLow \in Int /\ e.threshold.warningHigh \in Int
         /\ e.threshold.criticalLow \in Int /\ e.threshold.criticalHigh \in Int
BY ParserAssumption DEF Limit

\* Every element of a finite set is in each of its orders.
LEMMA OrderedAll ==
  ASSUME NEW S, IsFiniteSet(S), NEW f \in SetToSeqs(S)
  PROVE  /\ f \in [1 .. Cardinality(S) -> S]
         /\ \A d \in S : \E i \in 1 .. Cardinality(S) : f[i] = d
<1> DEFINE N == Cardinality(S)
<1>1. N \in Nat
  BY FS_CardinalityType
<1>2. f \in [1 .. N -> S] /\ \A i, j \in 1 .. N : i # j => f[i] # f[j]
  BY DEF SetToSeqs
<1>3. IsFiniteSet(1 .. N) /\ Cardinality(1 .. N) = N
  BY <1>1, FS_Interval
<1> DEFINE D == 1 .. N
<1> HIDE DEF D
<1>4. f \in Injection(D, S)
  BY <1>2, Fun_IsInj DEF D
<1>5. Cardinality(D) = Cardinality(S)
  BY <1>3 DEF D
<1>6. f \in Surjection(D, S)
  BY <1>4, <1>5, FS_Injection
<1>7. \A d \in S : \E i \in D : f[i] = d
  BY <1>6 DEF Surjection
<1>8. QED BY <1>2, <1>7 DEF D

\* load() of one entry keeps the tables together.
LEMMA ConfigLoad ==
  ASSUME ConfigInv, Load
  PROVE  ConfigInv'
<1>1. /\ phase = "load" /\ phase' = phase /\ loaded' \in 0 .. MaxEntries
      /\ mappings' = Empty /\ pship' = Empty /\ frame' = Idle /\ Tables
  <2>1. /\ phase = "load" /\ phase' = phase /\ loaded' = loaded + 1 /\ loaded < MaxEntries
        /\ mappings' = mappings /\ pship' = pship /\ frame' = frame
    BY DEF Load, line
  <2>2. MaxEntries \in Nat /\ loaded \in 0 .. MaxEntries
    BY ParserAssumption DEF ConfigInv
  <2>3. loaded' \in 0 .. MaxEntries
    BY <2>1, <2>2
  <2>4. QED BY <2>1, <2>3 DEF ConfigInv
<1>2. PICK e \in Entries :
        IF e.id = None THEN UNCHANGED <<sensors, thresholds>>
        ELSE /\ sensors' = Put(sensors, e.id % 256, e)
             /\ thresholds' = Put(thresholds, e.id % 256, e.threshold)
  BY DEF Load
<1>3. Tables'
  <2>1. CASE e.id = None
    BY <1>1, <1>2, <2>1 DEF Tables
  <2>2. CASE e.id # None
    <3> DEFINE k == e.id % 256
    <3>1. k \in 0 .. 255
      BY <2>2, EntryType
    <3> HIDE DEF k
    <3>2. sensors' = Put(sensors, k, e) /\ thresholds' = Put(thresholds, k, e.threshold)
      BY <1>2, <2>2 DEF k
    <3>3. /\ DOMAIN sensors' = DOMAIN sensors \cup {k}
          /\ \A d \in DOMAIN sensors' : sensors'[d] = IF d = k THEN e ELSE sensors[d]
          /\ DOMAIN thresholds' = DOMAIN thresholds \cup {k}
          /\ \A d \in DOMAIN thresholds' :
               thresholds'[d] = IF d = k THEN e.threshold ELSE thresholds[d]
      BY <3>2 DEF Put
    <3>4. QED BY <1>1, <3>1, <3>3 DEF Tables
  <2>3. QED BY <2>1, <2>2
<1>4. QED BY <1>1, <1>3 DEF ConfigInv

\* configure() gives each sensor its place, in whatever order it walks the table.
LEMMA ConfigConfigure ==
  ASSUME ConfigInv, Configure
  PROVE  ConfigInv'
<1> DEFINE own   == {d \in DOMAIN sensors : sensors[d].sentence = PSHIP}
           types == {sensors[d].sentence : d \in DOMAIN sensors \ own}
           mapping(d) == [id |-> d, field |-> sensors[d].field]
<1>1. /\ phase' = "run" /\ loaded' = loaded /\ sensors' = sensors
      /\ thresholds' = thresholds /\ Tables /\ loaded \in 0 .. MaxEntries
  BY DEF Configure, ConfigInv
<1>2. pship' = [k \in {HexToken(d) : d \in own} |-> mapping(CHOOSE d \in own : HexToken(d) = k)]
  BY DEF Configure
<1>3. PICK lists :
        /\ \A t \in types : lists[t] \in SetToSeqs(Of(t))
        /\ mappings' = [t \in types |-> [i \in DOMAIN lists[t] |-> mapping(lists[t][i])]]
  BY DEF Configure, Of
<1>4. own = Of(PSHIP) /\ Of(PSHIP) \subseteq 0 .. 255 /\ \A t : Of(t)' = Of(t)
  BY <1>1 DEF Tables, Of
<1>5. \A d : Mapping(d)' = Mapping(d) /\ mapping(d) = Mapping(d)
  BY <1>1 DEF Mapping
<1>6. types = {sensors[d].sentence : d \in DOMAIN sensors} \ {PSHIP}
  OBVIOUS
<1>7. \A d \in DOMAIN sensors : Mapping(d) \in [id : DOMAIN sensors, field : Int]
  BY <1>1, EntryType DEF Tables, Mapping
<1> HIDE DEF mapping
<1>8. /\ DOMAIN pship' = {HexToken(d) : d \in Of(PSHIP)}
      /\ \A d \in Of(PSHIP) : pship'[HexToken(d)] = Mapping(d)
  <2>1. DOMAIN pship' = {HexToken(d) : d \in Of(PSHIP)}
    BY <1>2, <1>4
  <2>2. ASSUME NEW d \in Of(PSHIP) PROVE pship'[HexToken(d)] = Mapping(d)
    <3> DEFINE c == CHOOSE x \in own : HexToken(x) = HexToken(d)
    <3>1. c \in own /\ HexToken(c) = HexToken(d)
      BY <1>4
    <3>2. pship'[HexToken(d)] = mapping(c)
      BY <1>2, <1>4
    <3> HIDE DEF c
    <3>3. c = d
      <4>1. c \in 0 .. 255 /\ d \in 0 .. 255
        BY <1>4, <3>1
      <4>2. QED BY <3>1, <4>1, HexTokenInjective
    <3>4. QED BY <1>5, <3>2, <3>3
  <2>3. QED BY <2>1, <2>2
<1>9. ASSUME NEW t \in types
      PROVE  /\ mappings'[t] \in Seq([id : DOMAIN sensors, field : Int])
             /\ \A i \in 1 .. Len(mappings'[t]) : \E d \in Of(t) : mappings'[t][i] = Mapping(d)
             /\ \A d \in Of(t) : \E i \in 1 .. Len(mappings'[t]) : mappings'[t][i] = Mapping(d)
  <2> DEFINE N == Cardinality(Of(t))
             f == lists[t]
             M == mappings'[t]
             X == [id : DOMAIN sensors, field : Int]
  <2>1. IsFiniteSet(Of(t)) /\ N \in Nat
    <3>1. Of(t) \in SUBSET (0 .. 255)
      BY <1>1 DEF Of, Tables
    <3>2. IsFiniteSet(0 .. 255)
      <4>1. 0 \in Int /\ 255 \in Int
        OBVIOUS
      <4>2. QED BY <4>1, FS_Interval, Zenon
    <3>3. IsFiniteSet(Of(t))
      BY <3>1, <3>2, FS_Subset
    <3>4. QED BY <3>3, FS_CardinalityType
  <2>2. f \in [1 .. N -> Of(t)] /\ \A d \in Of(t) : \E i \in 1 .. N : f[i] = d
    BY <1>3, <2>1, OrderedAll
  <2>3. Of(t) \subseteq DOMAIN sensors
    BY DEF Of
  <2>4. M = [i \in DOMAIN f |-> mapping(f[i])]
    BY <1>3
  <2> HIDE DEF N, f, X
  <2>5. M = [i \in 1 .. N |-> Mapping(f[i])]
    BY <1>5, <2>2, <2>4
  <2>6. \A i \in 1 .. N : Mapping(f[i]) \in X
    BY <1>7, <2>2, <2>3 DEF X
  <2> HIDE DEF M
  <2>7. M \in Seq(X) /\ DOMAIN M = 1 .. N
    BY <2>1, <2>5, <2>6
  <2>8. Len(M) = N
    BY <2>1, <2>7, LenProperties
  <2>9. ASSUME NEW i \in 1 .. Len(M) PROVE \E d \in Of(t) : M[i] = Mapping(d)
    BY <2>2, <2>5, <2>8
  <2>10. ASSUME NEW d \in Of(t) PROVE \E i \in 1 .. Len(M) : M[i] = Mapping(d)
    BY <2>2, <2>5, <2>8
  <2>11. QED BY <2>7, <2>9, <2>10 DEF M, X
<1>10. DOMAIN mappings' = types
  BY <1>3
<1> HIDE DEF own, types
<1>11. Configured'
  <2>1. Of(PSHIP)' = Of(PSHIP)
    BY <1>1 DEF Of
  <2>2. DOMAIN mappings' = {sensors'[d].sentence : d \in DOMAIN sensors'} \ {PSHIP}
    BY <1>1, <1>6, <1>10
  <2>3. ASSUME NEW t \in DOMAIN mappings'
        PROVE  /\ mappings'[t] \in Seq([id : DOMAIN sensors', field : Int])
               /\ \A i \in 1 .. Len(mappings'[t]) :
                    \E d \in Of(t)' : mappings'[t][i] = Mapping(d)'
               /\ \A d \in Of(t)' :
                    \E i \in 1 .. Len(mappings'[t]) : mappings'[t][i] = Mapping(d)'
    <3>1. t \in types /\ Of(t)' = Of(t)
      BY <1>1, <1>10 DEF Of
    <3>2. \A d : Mapping(d)' = Mapping(d)
      BY <1>1 DEF Mapping
    <3>3. QED BY <1>1, <1>9, <3>1, <3>2
  <2>4. \A d \in Of(PSHIP)' : pship'[HexToken(d)] = Mapping(d)'
    BY <1>1, <1>8, <2>1 DEF Mapping
  <2>5. QED BY <1>8, <2>1, <2>2, <2>3, <2>4 DEF Configured
<1>12. QED BY <1>1, <1>11 DEF ConfigInv, Tables

\* A line changes no table.
LEMMA ConfigLine ==
  ASSUME ConfigInv, UNCHANGED <<phase, loaded, config>>, phase = "run" \/ frame' = frame
  PROVE  ConfigInv'
<1>1. /\ phase' = phase /\ loaded' = loaded /\ sensors' = sensors
      /\ thresholds' = thresholds /\ mappings' = mappings /\ pship' = pship
  BY DEF config
<1>2. Tables'
  BY <1>1 DEF ConfigInv, Tables
<1>3. Configured => Configured'
  <2>1. Configured' <=> Configured
    BY <1>1 DEF Configured, Mapping, Of
  <2>2. QED BY <2>1
<1>4. QED BY <1>1, <1>2, <1>3 DEF ConfigInv

------------------------------------------------------------------------------
(* Who is found.                                                             *)

\* extractField(): the number of the field, if there is such a field.
LEMMA ExtractFieldIs ==
  ASSUME NEW tokens \in Seq(Seq(Bytes)), NEW index \in Int
  PROVE  /\ ExtractField(tokens, index) = IF index \in 0 .. Len(tokens) - 1
                                          THEN Number(tokens[index + 1]) ELSE None
         /\ ExtractField(tokens, index) \in NaN .. Huge - 1
<1>1. Len(tokens) \in Nat /\ None \in NaN .. Huge - 1
  BY ParserAssumption DEF None, NaN
<1>2. ExtractField(tokens, index) = IF index \in 0 .. Len(tokens) - 1
                                    THEN Number(tokens[index + 1]) ELSE None
  BY <1>1 DEF ExtractField
<1>3. ASSUME index \in 0 .. Len(tokens) - 1 PROVE Number(tokens[index + 1]) \in NaN .. Huge - 1
  <2>1. index + 1 \in 1 .. Len(tokens)
    BY <1>1, <1>3
  <2>2. tokens[index + 1] \in Seq(Bytes)
    BY <2>1, ElementOfSeq
  <2>3. QED BY <2>2, NumberType
<1>4. QED BY <1>1, <1>2, <1>3

\* Sensor d listens to the tokens of a sentence of this type.
Hears(d, type, tokens) ==
  /\ d \in DOMAIN sensors /\ sensors[d].sentence = type
  /\ type = PSHIP => Len(tokens) > 1 /\ tokens[1] = HexToken(d)
  /\ ExtractField(tokens, sensors[d].field) # None

ReadingOf(d, tokens) ==
  [id |-> d, value |-> ExtractField(tokens, sensors[d].field), level |-> "parsed"]

\* The frame is of a sensor that listens, and there is one if one does.
Found(type, tokens, r) ==
  \/ r = NoFrame /\ \A d : ~Hears(d, type, tokens)
  \/ \E d : Hears(d, type, tokens) /\ r = ReadingOf(d, tokens)

\* parsePship() finds the sensor whose identifier is the first field.
LEMMA PshipFinds ==
  ASSUME Configured, NEW tokens \in Seq(Seq(Bytes))
  PROVE  Found(PSHIP, tokens, ParsePship(tokens))
<1> DEFINE k == tokens[1]
           own == Of(PSHIP)
<1>1. /\ DOMAIN pship = {HexToken(d) : d \in own}
      /\ \A d \in own : pship[HexToken(d)] = Mapping(d)
  BY DEF Configured
<1>2. \A d : Hears(d, PSHIP, tokens) <=>
        /\ d \in own /\ Len(tokens) > 1 /\ k = HexToken(d)
        /\ ExtractField(tokens, sensors[d].field) # None
  BY DEF Hears, Of
<1>3. CASE Len(tokens) < 2
  <2>1. ~(Len(tokens) > 1)
    BY <1>3
  <2>2. QED BY <1>2, <1>3, <2>1 DEF Found, ParsePship
<1>4. CASE ~(Len(tokens) < 2) /\ k \notin DOMAIN pship
  BY <1>1, <1>2, <1>4 DEF Found, ParsePship
<1>5. CASE ~(Len(tokens) < 2) /\ k \in DOMAIN pship
  <2>1. PICK d \in own : k = HexToken(d)
    BY <1>1, <1>5
  <2>2. pship[k] = Mapping(d)
    BY <1>1, <2>1
  <2>3. pship[k].id = d /\ pship[k].field = sensors[d].field
    BY <2>2 DEF Mapping
  <2>4. Len(tokens) > 1
    BY <1>5
  <2>5. CASE ExtractField(tokens, sensors[d].field) = None
    <3>1. ParsePship(tokens) = NoFrame
      BY <2>3, <2>5 DEF ParsePship
    <3>2. ASSUME NEW c, Hears(c, PSHIP, tokens) PROVE FALSE
      <4>1. c \in own /\ k = HexToken(c)
        BY <1>2, <3>2
      <4>2. Mapping(c) = Mapping(d)
        BY <1>1, <2>2, <4>1
      <4>3. c = d
        BY <4>2 DEF Mapping
      <4>4. QED BY <1>2, <2>5, <3>2, <4>3
    <3>3. QED BY <3>1, <3>2 DEF Found
  <2>6. CASE ExtractField(tokens, sensors[d].field) # None
    <3>1. ParsePship(tokens) = ReadingOf(d, tokens)
      BY <1>5, <2>3, <2>6 DEF ParsePship, Reading, ReadingOf
    <3>2. Hears(d, PSHIP, tokens)
      BY <1>2, <2>1, <2>4, <2>6
    <3>3. QED BY <3>1, <3>2 DEF Found
  <2>7. QED BY <2>5, <2>6
<1>6. QED BY <1>3, <1>4, <1>5

\* parseSentence() finds a sensor of the type whose field is a number, if there is one.
LEMMA SentenceFinds ==
  ASSUME Configured, NEW type, type # PSHIP, NEW tokens \in Seq(Seq(Bytes))
  PROVE  Found(type, tokens, ParseSentence(type, tokens))
<1>1. \A d : Hears(d, type, tokens) <=>
        d \in Of(type) /\ ExtractField(tokens, sensors[d].field) # None
  BY DEF Hears, Of
<1>2. CASE type \notin DOMAIN mappings
  <2>1. Of(type) = {}
    BY <1>2 DEF Configured, Of
  <2>2. QED BY <1>1, <1>2, <2>1 DEF Found, ParseSentence
<1>3. CASE type \in DOMAIN mappings
  <2> DEFINE list == mappings[type]
             I == {k \in 1 .. Len(list) : ExtractField(tokens, list[k].field) # None}
             i == SelectInSeq(list, LAMBDA m : ExtractField(tokens, m.field) # None)
  <2>1. /\ \A k \in 1 .. Len(list) : \E d \in Of(type) : list[k] = Mapping(d)
        /\ \A d \in Of(type) : \E k \in 1 .. Len(list) : list[k] = Mapping(d)
        /\ Len(list) \in Nat
    <3> DEFINE X == [id : DOMAIN sensors, field : Int]
    <3>1. /\ list \in Seq(X)
          /\ \A k \in 1 .. Len(list) : \E d \in Of(type) : list[k] = Mapping(d)
          /\ \A d \in Of(type) : \E k \in 1 .. Len(list) : list[k] = Mapping(d)
      BY <1>3, Zenon DEF Configured
    <3> HIDE DEF X, list
    <3>2. Len(list) \in Nat
      BY <3>1
    <3>3. QED BY <3>1, <3>2
  <2>2. i = IF I # {} THEN Min(I) ELSE 0
    BY DEF SelectInSeq
  <2>3. I \in SUBSET Nat /\ 0 \notin I
    BY <2>1
  <2>4. ParseSentence(type, tokens) = IF i = 0 THEN NoFrame ELSE Reading(list[i], tokens)
    BY <1>3 DEF ParseSentence
  <2> HIDE DEF list, i
  <2>5. CASE I = {}
    <3>1. ASSUME NEW d, Hears(d, type, tokens) PROVE FALSE
      <4>1. PICK k \in 1 .. Len(list) : list[k] = Mapping(d)
        BY <1>1, <2>1, <3>1
      <4>2. list[k].field = sensors[d].field
        BY <4>1 DEF Mapping
      <4>3. QED BY <1>1, <2>5, <3>1, <4>2
    <3>2. ParseSentence(type, tokens) = NoFrame
      BY <2>2, <2>4, <2>5
    <3>3. QED BY <3>1, <3>2 DEF Found
  <2>6. CASE I # {}
    <3>1. i \in I /\ i # 0
      <4> HIDE DEF I
      <4>1. QED BY <2>2, <2>3, <2>6, MinIn
    <3>2. PICK d \in Of(type) : list[i] = Mapping(d)
      BY <2>1, <3>1
    <3>3. list[i].id = d /\ list[i].field = sensors[d].field
      BY <3>2 DEF Mapping
    <3>4. ParseSentence(type, tokens) = ReadingOf(d, tokens)
      BY <2>4, <3>1, <3>3 DEF Reading, ReadingOf
    <3>5. Hears(d, type, tokens)
      BY <1>1, <3>1, <3>2, <3>3
    <3>6. QED BY <3>4, <3>5 DEF Found
  <2>7. QED BY <2>5, <2>6
<1>4. QED BY <1>2, <1>3

\* A line that arrives as it was sent finds who listens to its message.
LEMMA WholeFinds ==
  ASSUME Configured, NEW m \in Messages
  PROVE  Found(m.type, m.fields, Parse(Wire[m]))
BY FieldsType, ParseWhole, PshipFinds, SentenceFinds

\* Whatever arrives is refused or has a type and tokens.
LEMMA ParseTokens ==
  ASSUME NEW raw \in Seq(Bytes)
  PROVE  \/ Parse(raw) = NoFrame
         \/ \E type : \E tokens \in Seq(Seq(Bytes)) :
              Parse(raw) = IF type = PSHIP THEN ParsePship(tokens) ELSE ParseSentence(type, tokens)
<1> DEFINE p == SelectLastInSeq(raw, LAMBDA b : b \notin Blanks)
           s == Trim(raw)
           star == Final(Star, s)
           z == IF star = 0 THEN Len(s) ELSE star - 1
           body == SubSeq(s, 2, z)
           comma == First(Comma, body)
<1>1. \A t \in Seq(Bytes) : Len(t) \in Nat
  OBVIOUS
<1>2. s \in Seq(Bytes)
  <2> DEFINE I == {k \in 1 .. Len(raw) : raw[k] \notin Blanks}
  <2>1. p = IF I # {} THEN Max(I) ELSE 0
    BY DEF SelectLastInSeq
  <2>2. I \in SUBSET (0 .. Len(raw)) /\ Len(raw) \in Nat
    OBVIOUS
  <2> HIDE DEF p, I
  <2>3. p \in 0 .. Len(raw)
    <3>1. I # {} => Max(I) \in I
      <4> DEFINE n == Len(raw)
      <4>1. I \in SUBSET (0 .. n) /\ n \in Nat
        BY <2>2
      <4> HIDE DEF n
      <4>2. QED BY <4>1, MaxIn
    <3>2. 0 \in 0 .. Len(raw)
      BY <2>2
    <3>3. QED BY <2>1, <2>2, <3>1, <3>2
  <2>4. \A k \in 1 .. p : raw[k] \in Bytes
    BY <2>2, <2>3
  <2>5. SubSeq(raw, 1, p) \in Seq(Bytes)
    BY <2>3, <2>4
  <2>6. QED BY <2>5 DEF Trim, p
<1> HIDE DEF s
<1>3. body \in Seq(Bytes)
  <2> DEFINE I == {k \in 1 .. Len(s) : s[k] = Star}
  <2>1. star = IF I # {} THEN Max(I) ELSE 0
    BY DEF Final, SelectLastInSeq
  <2>2. I \in SUBSET (0 .. Len(s)) /\ Len(s) \in Nat
    BY <1>2
  <2> HIDE DEF star, I
  <2>3. star \in 0 .. Len(s)
    <3>1. I # {} => Max(I) \in I
      <4> DEFINE n == Len(s)
      <4>1. I \in SUBSET (0 .. n) /\ n \in Nat
        BY <2>2
      <4> HIDE DEF n
      <4>2. QED BY <4>1, MaxIn
    <3>2. 0 \in 0 .. Len(s)
      BY <2>2
    <3>3. QED BY <2>1, <2>2, <3>1, <3>2
  <2>4. z \in 0 .. Len(s)
    BY <2>2, <2>3
  <2> HIDE DEF z
  <2>5. \A k \in 2 .. z : s[k] \in Bytes
    BY <1>2, <2>2, <2>4
  <2>6. QED BY <2>4, <2>5
<1> HIDE DEF body, star, z
<1>4. ASSUME comma # 0 PROVE Split(SubSeq(body, comma + 1, Len(body))) \in Seq(Seq(Bytes))
  <2> DEFINE I == {k \in 1 .. Len(body) : body[k] = Comma}
  <2>1. comma = IF I # {} THEN Min(I) ELSE 0
    BY DEF First, SelectInSeq
  <2>2. I \in SUBSET Nat /\ I \subseteq 1 .. Len(body) /\ Len(body) \in Nat
    BY <1>3
  <2> HIDE DEF comma, I
  <2>3. comma \in 1 .. Len(body)
    BY <1>4, <2>1, <2>2, MinIn
  <2>4. \A k \in comma + 1 .. Len(body) : body[k] \in Bytes
    BY <1>3, <2>2, <2>3
  <2>5. SubSeq(body, comma + 1, Len(body)) \in Seq(Bytes)
    BY <2>2, <2>3, <2>4
  <2>6. QED BY <2>5, SplitType
<1>5. Parse(raw) \in {NoFrame, Read(body)}
  BY ParseReads DEF s, body, star, z
<1>6. Read(body) = LET type == SubSeq(body, 1, comma - 1)
                       rest == Split(SubSeq(body, comma + 1, Len(body)))
                   IN  IF comma = 0 THEN NoFrame
                       ELSE IF type = PSHIP THEN ParsePship(rest) ELSE ParseSentence(type, rest)
  BY DEF Read
<1> HIDE DEF comma
<1>7. QED BY <1>4, <1>5, <1>6

\* A frame that is not refused is of a sensor and has a number.
LEMMA ParseType ==
  ASSUME Configured, Tables, NEW raw \in Seq(Bytes), Parse(raw) # NoFrame
  PROVE  /\ Parse(raw).id \in DOMAIN sensors
         /\ Parse(raw).value \in NaN .. Huge - 1
         /\ Parse(raw) = [id |-> Parse(raw).id, value |-> Parse(raw).value, level |-> "parsed"]
<1>1. PICK type : \E tokens \in Seq(Seq(Bytes)) :
        Parse(raw) = IF type = PSHIP THEN ParsePship(tokens) ELSE ParseSentence(type, tokens)
  BY ParseTokens
<1>2. PICK tokens \in Seq(Seq(Bytes)) :
        Parse(raw) = IF type = PSHIP THEN ParsePship(tokens) ELSE ParseSentence(type, tokens)
  BY <1>1
<1>3. Found(type, tokens, Parse(raw))
  BY <1>2, PshipFinds, SentenceFinds
<1>4. PICK d : Hears(d, type, tokens) /\ Parse(raw) = ReadingOf(d, tokens)
  BY <1>3 DEF Found
<1>5. d \in DOMAIN sensors /\ sensors[d].field \in Int
  BY <1>4, EntryType DEF Hears, Tables
<1>6. ExtractField(tokens, sensors[d].field) \in NaN .. Huge - 1
  BY <1>5, ExtractFieldIs
<1>7. QED BY <1>4, <1>5, <1>6 DEF ReadingOf

------------------------------------------------------------------------------
(* The line in work.                                                         *)

\* What parse() makes of a line depends on the two tables only.
LEMMA ParseUnchanged ==
  ASSUME NEW raw, mappings' = mappings, pship' = pship
  PROVE  Parse(raw)' = Parse(raw)
BY DEF Parse, ParsePship, ParseSentence, SelectInSeq

\* What parse() may make of message m, with byte k of its line changed unless k is 0.
Results(m, k) ==
  IF k = 0 THEN {Parse(Wire[m])} ELSE {Parse([Wire[m] EXCEPT ![k] = b]) : b \in Noise}

\* The frame in work is what was parsed; it has the level of its limits once it has one.
FrameOf(r) ==
  \/ r = NoFrame /\ frame = NoFrame
  \/ /\ r # NoFrame
     /\ frame = [id |-> r.id, value |-> r.value, level |-> frame.level]
     /\ \/ frame.level = "parsed"
        \/ frame.level = Level(frame.value, sensors[frame.id].threshold)

LineInv ==
  /\ frame = Idle => sent \in Messages \cup {NoMessage} /\ damage = 0
  /\ frame # Idle =>
       /\ phase = "run" /\ sent \in Messages
       /\ damage # 0 => sent.sum /\ damage \in DOMAIN Wire[sent]
       /\ \E r \in Results(sent, damage) : FrameOf(r)

Inv == ConfigInv /\ LineInv

\* Whatever byte was changed, a frame is of a sensor and has a number.
LEMMA ResultType ==
  ASSUME Configured, Tables, NEW m \in Messages, NEW k,
         k # 0 => k \in DOMAIN Wire[m], NEW r \in Results(m, k), r # NoFrame
  PROVE  /\ r.id \in DOMAIN sensors /\ r.value \in NaN .. Huge - 1
         /\ r = [id |-> r.id, value |-> r.value, level |-> "parsed"]
<1>1. Wire[m] \in Seq(Bytes)
  BY WireShape
<1>2. CASE k = 0
  BY <1>1, <1>2, ParseType DEF Results
<1>3. CASE k # 0
  <2>1. PICK b \in Noise : r = Parse([Wire[m] EXCEPT ![k] = b])
    BY <1>3 DEF Results
  <2>2. b \in Bytes
    BY ParserAssumption
  <2>3. [Wire[m] EXCEPT ![k] = b] \in Seq(Bytes)
    BY <1>1, <1>3, <2>2
  <2>4. QED BY <2>1, <2>3, ParseType
<1>4. QED BY <1>2, <1>3

\* The results for a line do not change while it is in work.
LEMMA ResultsUnchanged ==
  ASSUME NEW m, NEW k, mappings' = mappings, pship' = pship
  PROVE  Results(m, k)' = Results(m, k)
<1>1. \A raw : Parse(raw)' = Parse(raw)
  BY ParseUnchanged
<1>2. QED BY <1>1 DEF Results

\* evaluate() gives one of the three levels.
LEMMA LevelRange ==
  ASSUME NEW v, NEW th
  PROVE  Level(v, th) \in {"Normal", "Warning", "Critical"}
BY DEF Level

\* What is known of a frame that a sensor has sent.
LEMMA FrameType ==
  ASSUME Inv, frame # Idle, frame # NoFrame
  PROVE  /\ phase = "run" /\ sent \in Messages /\ Configured /\ Tables
         /\ frame.id \in DOMAIN sensors /\ frame.value \in NaN .. Huge - 1
         /\ frame = [id |-> frame.id, value |-> frame.value, level |-> frame.level]
         /\ \/ frame.level = "parsed"
            \/ /\ frame.level = Level(frame.value, sensors[frame.id].threshold)
               /\ frame.level \in {"Normal", "Warning", "Critical"}
<1>1. /\ phase = "run" /\ sent \in Messages /\ Configured /\ Tables
      /\ damage # 0 => damage \in DOMAIN Wire[sent]
  BY DEF Inv, LineInv, ConfigInv
<1>2. PICK r \in Results(sent, damage) : FrameOf(r)
  BY DEF Inv, LineInv
<1>3. /\ r # NoFrame
      /\ frame = [id |-> r.id, value |-> r.value, level |-> frame.level]
      /\ \/ frame.level = "parsed"
         \/ frame.level = Level(frame.value, sensors[frame.id].threshold)
  BY <1>2 DEF FrameOf
<1>4. r.id \in DOMAIN sensors /\ r.value \in NaN .. Huge - 1
  BY <1>1, <1>2, <1>3, ResultType
<1>5. frame.id = r.id /\ frame.value = r.value
  BY <1>3
<1>6. QED BY <1>1, <1>3, <1>4, <1>5, LevelRange

\* Inv holds of a program that has just started.
LEMMA LineInit == Init => Inv
<1> SUFFICES ASSUME Init PROVE Inv
  OBVIOUS
<1>1. MaxEntries \in Nat
  BY ParserAssumption
<1>2. DOMAIN Empty = {}
  BY DEF Empty
<1>3. ConfigInv
  BY <1>1, <1>2 DEF Init, ConfigInv, Tables
<1>4. LineInv
  BY DEF Init, LineInv
<1>5. QED BY <1>3, <1>4 DEF Inv

\* A line has arrived, and the parser has made r of it.
LEMMA Arrived ==
  ASSUME Inv, phase = "run", UNCHANGED <<phase, loaded, config>>,
         NEW m \in Messages, sent' = m, damage' # 0 => m.sum /\ damage' \in DOMAIN Wire[m],
         NEW r \in Results(m, damage'), frame' = r
  PROVE  Inv'
<1>1. ConfigInv'
  BY ConfigLine DEF Inv
<1>2. phase' = "run" /\ mappings' = mappings /\ pship' = pship /\ Configured /\ Tables
  BY DEF config, Inv, ConfigInv
<1>3. r \in Results(sent, damage)'
  <2>0. PICK k : k = damage'
    OBVIOUS
  <2>1. r \in Results(m, k)
    BY <2>0
  <2>2. Parse(Wire[m])' = Parse(Wire[m])
    BY <1>2, ParseUnchanged
  <2>3. \A b : Parse([Wire[m] EXCEPT ![k] = b])' = Parse([Wire[m] EXCEPT ![k] = b])
    BY <1>2, ParseUnchanged
  <2>4. QED BY <2>0, <2>1, <2>2, <2>3 DEF Results
<1>4. FrameOf(r)'
  <2>1. CASE r = NoFrame
    BY <2>1 DEF FrameOf
  <2>2. CASE r # NoFrame
    <3>1. r = [id |-> r.id, value |-> r.value, level |-> "parsed"]
      BY <1>2, <2>2, ResultType
    <3>2. QED BY <2>2, <3>1 DEF FrameOf
  <2>3. QED BY <2>1, <2>2
<1>5. frame' # Idle
  <2>1. NoFrame # Idle
    BY DEF NoFrame, Idle
  <2>2. r # NoFrame => r.level = "parsed"
    BY <1>2, ResultType
  <2>3. QED BY <2>1, <2>2 DEF Idle
<1>6. LineInv'
  BY <1>2, <1>3, <1>4, <1>5 DEF LineInv
<1>7. QED BY <1>1, <1>6 DEF Inv

\* Inv is preserved by every step.
LEMMA LineNext == Inv /\ [Next]_vars => Inv'
<1> SUFFICES ASSUME Inv, [Next]_vars PROVE Inv'
  OBVIOUS
<1>1. CASE Load
  <2>1. phase = "load" /\ frame = Idle /\ frame' = frame /\ sent' = sent /\ damage' = damage
    BY <1>1 DEF Load, line, Inv, ConfigInv
  <2>2. LineInv'
    BY <2>1 DEF Inv, LineInv
  <2>3. QED BY <1>1, <2>2, ConfigLoad DEF Inv
<1>2. CASE Configure
  <2>1. phase = "load" /\ frame = Idle /\ frame' = frame /\ sent' = sent /\ damage' = damage
    BY <1>2 DEF Configure, line, Inv, ConfigInv
  <2>2. LineInv'
    BY <2>1 DEF Inv, LineInv
  <2>3. QED BY <1>2, <2>2, ConfigConfigure DEF Inv
<1>3. CASE Ingest
  <2>1. PICK m \in Messages : sent' = m /\ frame' = Parse(Wire[m])
    BY <1>3 DEF Ingest
  <2>2. phase = "run" /\ UNCHANGED <<phase, loaded, config>> /\ damage' = 0
    BY <1>3 DEF Ingest, Inv, LineInv
  <2>3. frame' \in Results(m, damage')
    BY <2>1, <2>2 DEF Results
  <2>4. QED BY <2>1, <2>2, <2>3, Arrived
<1>4. CASE IngestDamaged
  <2>0. PICK m \in Messages :
          /\ m.sum /\ sent' = m
          /\ \E i \in DOMAIN Wire[m] : \E b \in Noise :
               damage' = i /\ frame' = Parse([Wire[m] EXCEPT ![i] = b])
    BY <1>4 DEF IngestDamaged
  <2>1. PICK i \in DOMAIN Wire[m], b \in Noise :
          damage' = i /\ frame' = Parse([Wire[m] EXCEPT ![i] = b])
    BY <2>0
  <2>2. phase = "run" /\ UNCHANGED <<phase, loaded, config>>
    BY <1>4 DEF IngestDamaged
  <2>3. Wire[m] \in Seq(Bytes)
    BY WireShape
  <2>4. i # 0
    BY <2>1, <2>3
  <2>5. frame' \in Results(m, damage')
    BY <2>1, <2>4 DEF Results
  <2>6. QED BY <2>0, <2>1, <2>2, <2>5, Arrived
<1>5. CASE Evaluate
  <2>1. /\ frame.level = "parsed" /\ UNCHANGED <<phase, loaded, config>>
        /\ sent' = sent /\ damage' = damage
        /\ frame' = [frame EXCEPT !.level = IF frame.id \in DOMAIN thresholds
                                            THEN Level(frame.value, thresholds[frame.id])
                                            ELSE "Normal"]
    BY <1>5 DEF Evaluate
  <2>2. frame # Idle /\ frame # NoFrame
    BY <2>1 DEF Idle, NoFrame
  <2>3. /\ phase = "run" /\ sent \in Messages /\ Configured /\ Tables
        /\ frame.id \in DOMAIN sensors
        /\ frame = [id |-> frame.id, value |-> frame.value, level |-> frame.level]
    BY <2>2, FrameType
  <2> DEFINE lv == Level(frame.value, sensors[frame.id].threshold)
  <2>4. frame.id \in DOMAIN thresholds /\ thresholds[frame.id] = sensors[frame.id].threshold
    BY <2>3 DEF Tables
  <2>5. frame' = [frame EXCEPT !.level = lv]
    BY <2>1, <2>4
  <2>6. lv \in {"Normal", "Warning", "Critical"}
    BY LevelRange
  <2> HIDE DEF lv
  <2>7. /\ frame' = [id |-> frame.id, value |-> frame.value, level |-> lv]
        /\ frame'.id = frame.id /\ frame'.value = frame.value /\ frame'.level = lv
    BY <2>3, <2>5
  <2>8. ConfigInv'
    BY <2>1, <2>3, ConfigLine DEF Inv
  <2>9. phase' = "run" /\ sensors' = sensors /\ mappings' = mappings /\ pship' = pship
    BY <2>1, <2>3 DEF config
  <2>10. PICK r \in Results(sent, damage) : FrameOf(r)
    BY <2>2 DEF Inv, LineInv
  <2>11. r # NoFrame /\ frame.id = r.id /\ frame.value = r.value
    BY <2>2, <2>10 DEF FrameOf
  <2>12. frame'.level = Level(frame.value, sensors[frame.id].threshold)
    BY <2>7 DEF lv
  <2>13. FrameOf(r)'
    <3>1. frame' = [id |-> r.id, value |-> r.value, level |-> frame'.level]
      BY <2>7, <2>11
    <3>2. frame'.level = Level(frame'.value, sensors'[frame'.id].threshold)
      BY <2>7, <2>9, <2>12
    <3>3. QED BY <2>11, <3>1, <3>2 DEF FrameOf, Level
  <2>14. frame' # Idle
    BY <2>6, <2>7 DEF Idle
  <2>15. \E q \in Results(sent, damage)' : FrameOf(q)'
    <3>1. r \in Results(sent, damage)'
      <4>1. \A m, k : Results(m, k)' = Results(m, k)
        BY <2>9, ResultsUnchanged
      <4>2. QED BY <2>1, <2>9, <2>10, <4>1, ParseUnchanged DEF Results
    <3>2. QED BY <2>13, <3>1
  <2>16. LineInv'
    BY <2>1, <2>2, <2>3, <2>9, <2>14, <2>15 DEF Inv, LineInv
  <2>17. QED BY <2>8, <2>16 DEF Inv
<1>6. CASE Finish
  <2>1. /\ frame # Idle /\ UNCHANGED <<phase, loaded, config>>
        /\ sent' = NoMessage /\ damage' = 0 /\ frame' = Idle
    BY <1>6 DEF Finish
  <2>2. phase = "run"
    BY <2>1 DEF Inv, LineInv
  <2>3. ConfigInv'
    BY <2>1, <2>2, ConfigLine DEF Inv
  <2>4. QED BY <2>1, <2>3 DEF Inv, LineInv
<1>7. CASE UNCHANGED vars
  <2>1. /\ UNCHANGED <<phase, loaded, config>> /\ mappings' = mappings /\ pship' = pship
        /\ phase' = phase /\ sensors' = sensors
        /\ sent' = sent /\ damage' = damage /\ frame' = frame
    BY <1>7 DEF vars, config, line
  <2>2. ConfigInv'
    BY <2>1, ConfigLine DEF Inv
  <2>3. Results(sent, damage)' = Results(sent, damage)
    BY <2>1, ParseUnchanged DEF Results
  <2>4. \A r : FrameOf(r)' <=> FrameOf(r)
    BY <2>1 DEF FrameOf, Level
  <2>5. LineInv'
    BY <2>1, <2>3, <2>4 DEF Inv, LineInv
  <2>6. QED BY <2>2, <2>5 DEF Inv
<1>8. QED BY <1>1, <1>2, <1>3, <1>4, <1>5, <1>6, <1>7 DEF Next

\* Inv holds always.
LEMMA ParserInvariant == Spec => []Inv
<1>1. QED BY LineInit, LineNext, PTL DEF Spec

------------------------------------------------------------------------------
(* Theorems.                                                                 *)

\* The tables have one row for each sensor, every mapping points to a row, and a frame
\* is of a sensor that is configured and has a value there is.
THEOREM ParserTypeCorrect == Spec => []TypeOK
<1>1. Inv => TypeOK
  <2> SUFFICES ASSUME Inv PROVE TypeOK
    OBVIOUS
  <2>1. phase \in {"load", "run"} /\ loaded \in 0 .. MaxEntries /\ Tables
    BY DEF Inv, ConfigInv
  <2>2. \A t \in DOMAIN mappings : \A i \in DOMAIN mappings[t] :
          mappings[t][i].id \in DOMAIN sensors
    <3>1. CASE phase = "load"
      <4>1. DOMAIN mappings = {}
        BY <3>1 DEF Inv, ConfigInv, Empty
      <4>2. QED BY <4>1
    <3>2. CASE phase = "run"
      <4>1. Configured
        BY <3>2 DEF Inv, ConfigInv
      <4>2. ASSUME NEW t \in DOMAIN mappings, NEW i \in DOMAIN mappings[t]
            PROVE  mappings[t][i].id \in DOMAIN sensors
        <5> DEFINE M == mappings[t]
                   X == [id : DOMAIN sensors, field : Int]
        <5>1. M \in Seq(X)
          BY <4>1 DEF Configured
        <5>2. \A x \in X : x.id \in DOMAIN sensors
          OBVIOUS
        <5> HIDE DEF X
        <5>3. M[i] \in X
          BY <4>2, <5>1
        <5>4. QED BY <5>2, <5>3
      <4>3. QED BY <4>2
    <3>3. QED BY <2>1, <3>1, <3>2
  <2>3. \A k \in DOMAIN pship : pship[k].id \in DOMAIN sensors
    <3>1. CASE phase = "load"
      <4>1. DOMAIN pship = {}
        BY <3>1 DEF Inv, ConfigInv, Empty
      <4>2. QED BY <4>1
    <3>2. CASE phase = "run"
      <4>1. Configured
        BY <3>2 DEF Inv, ConfigInv
      <4>2. ASSUME NEW k \in DOMAIN pship PROVE pship[k].id \in DOMAIN sensors
        <5>1. PICK d \in Of(PSHIP) : k = HexToken(d)
          BY <4>1 DEF Configured
        <5>2. pship[k] = Mapping(d)
          BY <4>1, <5>1 DEF Configured
        <5>3. QED BY <5>2 DEF Mapping, Of
      <4>3. QED BY <4>2
    <3>3. QED BY <2>1, <3>1, <3>2
  <2>4. sent \in Messages \cup {NoMessage} /\ damage \in Nat
    <3>1. CASE frame = Idle
      BY <3>1 DEF Inv, LineInv
    <3>2. CASE frame # Idle
      <4>1. sent \in Messages /\ (damage # 0 => damage \in DOMAIN Wire[sent])
        BY <3>2 DEF Inv, LineInv
      <4>2. Wire[sent] \in Seq(Bytes)
        BY <4>1, WireShape
      <4>3. damage \in Nat
        BY <4>1, <4>2
      <4>4. QED BY <4>1, <4>3
    <3>3. QED BY <3>1, <3>2
  <2>5. /\ frame.id \in DOMAIN sensors \cup {None} /\ frame.value \in NaN .. Huge - 1
        /\ frame.level \in {"none", "refused", "parsed", "Normal", "Warning", "Critical"}
    <3>1. None \in NaN .. Huge - 1
      BY ParserAssumption DEF None, NaN
    <3>2. CASE frame = Idle \/ frame = NoFrame
      BY <3>1, <3>2 DEF Idle, NoFrame
    <3>3. CASE frame # Idle /\ frame # NoFrame
      BY <3>3, FrameType
    <3>4. QED BY <3>2, <3>3
  <2>6. QED BY <2>1, <2>2, <2>3, <2>4, <2>5 DEF TypeOK, Tables
<1>2. QED BY <1>1, ParserInvariant, PTL

\* A message that arrives whole gives a frame exactly if somebody listens to it, and the
\* frame of one who does, for every configuration and every message: the sentence is
\* built, checked, cut into tokens and looked up byte by byte.
THEOREM RoutingCorrect == Spec => []RoutesToListener
<1>1. Inv => RoutesToListener
  <2> SUFFICES ASSUME Inv, frame # Idle, damage = 0
               PROVE  IF frame = NoFrame THEN Listeners(sent) = {}
                      ELSE /\ frame.id \in Listeners(sent)
                           /\ frame.value = Number(sent.fields[sensors[frame.id].field + 1])
    BY DEF RoutesToListener
  <2>1. sent \in Messages /\ Configured /\ Tables
    BY DEF Inv, LineInv, ConfigInv
  <2> DEFINE r == Parse(Wire[sent])
  <2>2. Found(sent.type, sent.fields, r)
    BY <2>1, WholeFinds
  <2>3. FrameOf(r)
    BY DEF Inv, LineInv, Results
  <2> HIDE DEF r
  <2>4. sent.fields \in Seq(Seq(Bytes))
    BY <2>1, FieldsType
  <2>5. ASSUME NEW d \in DOMAIN sensors
        PROVE  /\ ExtractField(sent.fields, sensors[d].field) # None <=>
                    /\ sensors[d].field \in 0 .. Len(sent.fields) - 1
                    /\ Number(sent.fields[sensors[d].field + 1]) # None
               /\ ExtractField(sent.fields, sensors[d].field) # None =>
                    ExtractField(sent.fields, sensors[d].field) =
                      Number(sent.fields[sensors[d].field + 1])
    <3>1. sensors[d].field \in Int
      BY <2>1, EntryType DEF Tables
    <3>2. QED BY <2>4, <3>1, ExtractFieldIs
  <2>6. \A d : Hears(d, sent.type, sent.fields) <=> d \in Listeners(sent)
    BY <2>5 DEF Hears, Listeners
  <2>7. CASE frame = NoFrame
    <3>1. r = NoFrame
      <4>1. r # NoFrame => frame.level # "refused"
        BY <2>3, LevelRange DEF FrameOf
      <4>2. QED BY <2>7, <4>1 DEF NoFrame
    <3>2. ASSUME NEW d PROVE r # ReadingOf(d, sent.fields)
      BY <3>1 DEF NoFrame, ReadingOf
    <3>3. QED BY <2>2, <2>6, <2>7, <3>2 DEF Found
  <2>8. CASE frame # NoFrame
    <3>1. r # NoFrame /\ frame.id = r.id /\ frame.value = r.value
      BY <2>3, <2>8 DEF FrameOf
    <3>2. PICK d : Hears(d, sent.type, sent.fields) /\ r = ReadingOf(d, sent.fields)
      BY <2>2, <3>1 DEF Found
    <3>3. r.id = d /\ r.value = ExtractField(sent.fields, sensors[d].field)
      BY <3>2 DEF ReadingOf
    <3>4. d \in DOMAIN sensors /\ ExtractField(sent.fields, sensors[d].field) # None
      BY <3>2 DEF Hears
    <3>5. QED BY <2>5, <2>6, <2>8, <3>1, <3>2, <3>3, <3>4
  <2>9. QED BY <2>7, <2>8
<1>2. QED BY <1>1, ParserInvariant, PTL

\* A sentence with a checksum that one changed byte reaches is refused or read as it was
\* sent, whatever the byte, the sentence and the configuration, unless it is the byte
\* that announces the checksum.
THEOREM ErrorsCaught == Spec => []SingleErrorCaught
<1>1. Inv => SingleErrorCaught
  <2> SUFFICES ASSUME Inv, frame # Idle, frame # NoFrame, damage # 0,
                      damage # Len(Wire[sent]) - 2
               PROVE  /\ frame.id = Parse(Wire[sent]).id
                      /\ frame.value = Parse(Wire[sent]).value
    BY DEF SingleErrorCaught
  <2>1. sent \in Messages /\ sent.sum /\ damage \in DOMAIN Wire[sent]
    BY DEF Inv, LineInv
  <2>2. PICK r \in Results(sent, damage) : FrameOf(r)
    BY DEF Inv, LineInv
  <2>3. PICK b \in Noise : r = Parse([Wire[sent] EXCEPT ![damage] = b])
    BY <2>2 DEF Results
  <2>4. b \in Bytes
    BY ParserAssumption
  <2>5. r \in {NoFrame, Parse(Wire[sent])}
    BY <2>1, <2>3, <2>4, OneByteChanged
  <2>6. r # NoFrame /\ frame.id = r.id /\ frame.value = r.value
    BY <2>2 DEF FrameOf
  <2>7. QED BY <2>5, <2>6
<1>2. QED BY <1>1, ParserInvariant, PTL

\* The level of a frame is that of the limits of its sensor, in every order of the
\* entries of the configuration.
THEOREM LevelCorrect == Spec => []LevelOfRow
<1>1. Inv => LevelOfRow
  <2> SUFFICES ASSUME Inv, frame.level \in {"Normal", "Warning", "Critical"}
               PROVE  LevelOfRow
    BY DEF LevelOfRow
  <2>1. frame # Idle /\ frame # NoFrame /\ frame.level # "parsed"
    BY DEF Idle, NoFrame
  <2> DEFINE th == sensors[frame.id].threshold
             v  == frame.value
  <2>2. /\ frame.id \in DOMAIN sensors /\ v \in NaN .. Huge - 1 /\ Tables
        /\ frame.level = Level(v, th)
    BY <2>1, FrameType
  <2>3. v \in Int
    BY <2>2, ParserAssumption DEF NaN
  <2>4. /\ th.warningLow \in Int /\ th.warningHigh \in Int
        /\ th.criticalLow \in Int /\ th.criticalHigh \in Int
    BY <2>2, EntryType DEF Tables
  <2> DEFINE critical == v # NaN /\ ~(th.criticalLow < v /\ v < th.criticalHigh)
             warning  == v # NaN /\ ~(th.warningLow < v /\ v < th.warningHigh)
  <2>5. /\ critical <=> AtMost(v, th.criticalLow) \/ AtLeast(v, th.criticalHigh)
        /\ warning <=> AtMost(v, th.warningLow) \/ AtLeast(v, th.warningHigh)
    BY <2>3, <2>4 DEF AtMost, AtLeast
  <2>6. Level(v, th) = IF critical THEN "Critical" ELSE IF warning THEN "Warning" ELSE "Normal"
    BY <2>5 DEF Level
  <2>7. /\ frame.level = "Critical" <=> critical
        /\ frame.level = "Normal" <=> ~critical /\ ~warning
    <3> HIDE DEF critical, warning
    <3>1. QED BY <2>2, <2>6
  <2>8. QED BY <2>7 DEF LevelOfRow
<1>2. QED BY <1>1, ParserInvariant, PTL

\* The limit that the event log names for an alert is of the level of the alert, and
\* the value has reached it.
THEOREM DescriptionCorrect == Spec => []DescriptionFits
<1>1. Inv => DescriptionFits
  <2> SUFFICES ASSUME Inv, frame.level \in {"Warning", "Critical"}
               PROVE  DescriptionFits
    BY DEF DescriptionFits
  <2>1. frame # Idle /\ frame # NoFrame /\ frame.level # "parsed"
    BY DEF Idle, NoFrame
  <2> DEFINE th == sensors[frame.id].threshold
             v  == frame.value
             d  == ThresholdDesc(v, th)
  <2>2. frame.level = Level(v, th)
    BY <2>1, FrameType
  <2>3. d[1] = frame.level
    BY <2>2 DEF ThresholdDesc, Level
  <2>4. /\ d = <<"Critical", "high">> => AtLeast(v, th.criticalHigh)
        /\ d = <<"Critical", "low">>  => AtMost(v, th.criticalLow)
        /\ d = <<"Warning", "high">>  => AtLeast(v, th.warningHigh)
        /\ d = <<"Warning", "low">>   => AtMost(v, th.warningLow)
    BY <2>2 DEF ThresholdDesc, Level
  <2>5. QED BY <2>3, <2>4 DEF DescriptionFits, AtLeast, AtMost
<1>2. QED BY <1>1, ParserInvariant, PTL
==============================================================================
