------------------------ MODULE SerialPortReaderProofs ------------------------
(* Theorems about SerialPortReader for every alphabet, every set of descriptor *)
(* numbers, every buffer size and any number of sessions.                      *)
EXTENDS SerialPortReader, SequenceTheorems, FiniteSetTheorems, TLAPS

\* Stripping a line leaves a line.
LEMMA StrippedType ==
  ASSUME NEW S, NEW l \in Seq(S)
  PROVE  Stripped(l) \in Seq(S)
<1>1. CASE l = <<>>
  BY <1>1 DEF Stripped
<1>2. CASE l # <<>>
  <2>1. Len(l) \in Nat /\ \A i \in 1 .. Len(l) - 1 : l[i] \in S
    BY LenProperties, ElementOfSeq
  <2>2. SubSeq(l, 1, Len(l) - 1) \in Seq(S)
    BY <2>1, SubSeqProperties
  <2>3. QED BY <2>2 DEF Stripped
<1>3. QED BY <1>1, <1>2

\* A byte is taken from buf.
LEMMA ConsumeType ==
  ASSUME TypeOK, Consume
  PROVE  /\ Head(chunk) \in Bytes
         /\ stream' \in Seq(Bytes)
         /\ chunk' \in Seq(Bytes) /\ Len(chunk') <= MaxChunk
         /\ thread' \in {"check", "bytes"} /\ (thread' = "bytes" <=> chunk' # <<>>)
<1>1. chunk \in Seq(Bytes) /\ chunk # <<>> /\ stream \in Seq(Bytes) /\ Len(chunk) <= MaxChunk
  BY DEF Consume, TypeOK
<1>2. Head(chunk) \in Bytes /\ Tail(chunk) \in Seq(Bytes) /\ Len(Tail(chunk)) = Len(chunk) - 1
  BY <1>1, HeadTailProperties
<1>3. Append(stream, Head(chunk)) \in Seq(Bytes)
  BY <1>1, <1>2, AppendProperties
<1>4. Len(chunk) \in Nat /\ MaxChunk \in Nat
  BY <1>1, LenProperties, ReaderAssumption
<1>5. QED BY <1>1, <1>2, <1>3, <1>4 DEF Consume

\* A read() that returns bytes fills buf.
LEMMA ReturnsType ==
  ASSUME Returns
  PROVE  chunk' \in Seq(Bytes) /\ chunk' # <<>> /\ Len(chunk') <= MaxChunk
<1>1. PICK n \in 1 .. MaxChunk : chunk' \in [1 .. n -> Bytes]
  BY DEF Returns
<1>2. chunk' \in Seq(Bytes) /\ Len(chunk') = n
  BY <1>1, LenProperties, SeqDef
<1>3. QED BY <1>1, <1>2, EmptySeq, ReaderAssumption

\* Every variable of SerialPortReader always holds a value of its type.
THEOREM TypeCorrect == Spec => []TypeOK
<1> USE ReaderAssumption
<1>1. Init => TypeOK
  <2>1. /\ <<>> \in Seq(Bytes) /\ <<>> \in Seq(Bytes \ {LF})
        /\ <<>> \in Seq(Seq(Bytes \ {LF})) /\ Len(<<>>) = 0
    BY EmptySeq
  <2> SUFFICES ASSUME Init PROVE TypeOK
    OBVIOUS
  <2>2. file \in [Fds -> {"free", "port", "other"}]
    BY DEF Init
  <2>3. chunk \in Seq(Bytes) /\ Len(chunk) <= MaxChunk /\ chunk = <<>>
    BY <2>1 DEF Init
  <2>4. line \in Seq(Bytes \ {LF}) /\ stream \in Seq(Bytes) /\ lines \in Seq(Seq(Bytes \ {LF}))
    BY <2>1 DEF Init
  <2>5. running \in BOOLEAN /\ stale \in BOOLEAN /\ foreign \in BOOLEAN
    BY DEF Init
  <2>6. starts \in 0 .. MaxStarts
    BY DEF Init
  <2>7. thread = "bytes" <=> chunk # <<>>
    BY DEF Init
  <2>8. QED BY <2>2, <2>3, <2>4, <2>5, <2>6, <2>7 DEF Init, TypeOK
<1>2. TypeOK /\ [Next]_vars => TypeOK'
  <2> SUFFICES ASSUME TypeOK, [Next]_vars PROVE TypeOK'
    OBVIOUS
  <2> USE DEF ownerVars, readerVars, historyVars
  <2>1. CASE OtherOpens
    BY <2>1 DEF OtherOpens, TypeOK
  <2>2. CASE OtherCloses
    BY <2>2 DEF OtherCloses, TypeOK
  <2>3. CASE StartIgnored
    BY <2>3 DEF StartIgnored, Begin, TypeOK
  <2>4. CASE StartThrows
    BY <2>4 DEF StartThrows, Begin, TypeOK, NoFd
  <2>5. CASE Start
    <3>1. <<>> \in Seq(Bytes) /\ <<>> \in Seq(Bytes \ {LF})
            /\ <<>> \in Seq(Seq(Bytes \ {LF})) /\ Len(<<>>) = 0
      BY EmptySeq
    <3>2. file' \in [Fds -> {"free", "port", "other"}] /\ fd' \in Fds
      BY <2>5 DEF Start, TypeOK
    <3>3. chunk' \in Seq(Bytes) /\ Len(chunk') <= MaxChunk /\ chunk' = <<>>
      BY <2>5, <3>1 DEF Start
    <3>4. line' \in Seq(Bytes \ {LF}) /\ stream' \in Seq(Bytes)
            /\ lines' \in Seq(Seq(Bytes \ {LF}))
      BY <2>5, <3>1 DEF Start
    <3>5. starts' \in 0 .. MaxStarts
      BY <2>5 DEF Start, Begin, TypeOK
    <3>6. QED BY <2>5, <3>2, <3>3, <3>4, <3>5 DEF Start, TypeOK
  <2>6. CASE Stop
    BY <2>6 DEF Stop, TypeOK
  <2>7. CASE CloseFd
    BY <2>7 DEF CloseFd, TypeOK
  <2>8. CASE ClearFd
    BY <2>8 DEF ClearFd, TypeOK, NoFd
  <2>9. CASE Join
    BY <2>9 DEF Join, TypeOK
  <2>10. CASE Visible
    BY <2>10 DEF Visible, TypeOK
  <2>11. CASE Check
    BY <2>11 DEF Check, TypeOK
  <2>12. CASE LoadFd
    BY <2>12 DEF LoadFd, TypeOK
  <2>13. CASE ReadData
    BY <2>13, ReturnsType DEF ReadData, Returns, TypeOK
  <2>14. CASE ReadNothing
    BY <2>14 DEF ReadNothing, TypeOK
  <2>15. CASE DeviceFails
    BY <2>15 DEF DeviceFails, TypeOK
  <2>16. CASE BadDescriptor
    BY <2>16 DEF BadDescriptor, TypeOK
  <2>17. CASE Accumulate
    <3>1. Head(chunk) \in Bytes \ {LF} /\ Consume
      BY <2>17, ConsumeType DEF Accumulate
    <3>2. line' \in Seq(Bytes \ {LF})
      BY <2>17, <3>1, AppendProperties DEF Accumulate, TypeOK
    <3>3. QED BY <2>17, <3>1, <3>2, ConsumeType DEF Accumulate, Consume, TypeOK
  <2>18. CASE Dispatch
    <3>1. Stripped(line) \in Seq(Bytes \ {LF})
      BY StrippedType DEF TypeOK
    <3>2. lines' \in Seq(Seq(Bytes \ {LF}))
      BY <2>18, <3>1, AppendProperties DEF Dispatch, TypeOK
    <3>3. line' \in Seq(Bytes \ {LF})
      BY <2>18, EmptySeq DEF Dispatch
    <3>4. QED BY <2>18, <3>2, <3>3, ConsumeType DEF Dispatch, Consume, TypeOK
  <2>19. CASE ReadBlocks
    BY <2>19 DEF ReadBlocks, TypeOK
  <2>20. CASE ReadWakes
    <3>1. CASE Returns /\ foreign' = TRUE
      BY <2>20, <3>1, ReturnsType DEF ReadWakes, Returns, TypeOK
    <3>2. CASE /\ thread' \in {"check", "done"}
               /\ UNCHANGED <<file, ownerVars, readerVars, historyVars>>
      BY <2>20, <3>2 DEF ReadWakes, TypeOK
    <3>3. QED BY <2>20, <3>1, <3>2 DEF ReadWakes
  <2>21. CASE UNCHANGED vars
    BY <2>21 DEF vars, TypeOK
  <2>22. QED
    BY <2>1, <2>2, <2>3, <2>4, <2>5, <2>6, <2>7, <2>8, <2>9, <2>10, <2>11, <2>12,
       <2>13, <2>14, <2>15, <2>16, <2>17, <2>18, <2>19, <2>20, <2>21
       DEF Next, StopStep, ReadStep
<1>3. QED BY <1>1, <1>2, PTL DEF Spec

------------------------------------------------------------------------------
(* The descriptor and the thread.                                            *)

Ports == {d \in Fds : file[d] = "port"}

\* How m_running, m_fd, the open files and the thread belong together at each
\* point of stop(), and what the thread has loaded while it is meant to run.
FdInv ==
  /\ main # "idle" => ~running
  /\ main = "idle" /\ ~running => thread = "none" /\ fd = NoFd
  /\ main = "close" => fd # NoFd
  /\ main = "join" => fd = NoFd
  /\ main \in {"idle", "close"} => Ports = {fd} \ {NoFd}
  /\ main \in {"clear", "join"} => Ports = {}
  /\ running /\ thread = "read" => loaded = fd
  /\ thread = "blocked" => ~running
  /\ ForeignOnlyInStop

\* FdInv is an invariant.
LEMMA FdCorrect == Spec => []FdInv
<1> USE ReaderAssumption
<1>1. Init => FdInv
  BY DEF Init, FdInv, Ports, NoFd, ForeignOnlyInStop
<1>2. TypeOK /\ FdInv /\ [Next]_vars => FdInv'
  <2> SUFFICES ASSUME TypeOK, FdInv, [Next]_vars PROVE FdInv'
    OBVIOUS
  <2> USE DEF ownerVars, readerVars, historyVars, ForeignOnlyInStop
  <2>1. CASE OtherOpens
    <3>1. Ports' = Ports
      BY <2>1 DEF OtherOpens, Lowest, Ports, TypeOK
    <3>2. QED BY <2>1, <3>1 DEF OtherOpens, FdInv
  <2>2. CASE OtherCloses
    <3>1. Ports' = Ports
      BY <2>2 DEF OtherCloses, Ports, TypeOK
    <3>2. QED BY <2>2, <3>1 DEF OtherCloses, FdInv
  <2>3. CASE StartIgnored
    BY <2>3 DEF StartIgnored, Begin, FdInv, Ports
  <2>4. CASE StartThrows
    BY <2>4 DEF StartThrows, Begin, FdInv, Ports
  <2>5. CASE Start
    <3>1. PICK d \in Fds : Lowest(d) /\ fd' = d /\ file' = [file EXCEPT ![d] = "port"]
      BY <2>5 DEF Start
    <3>2. Ports = {}
      BY <2>5 DEF Start, Begin, FdInv
    <3>3. Ports' = {fd'} \ {NoFd}
      BY <3>1, <3>2 DEF Ports, TypeOK, NoFd
    <3>4. QED BY <2>5, <3>3 DEF Start, Begin, FdInv
  <2>6. CASE Stop
    BY <2>6 DEF Stop, FdInv, Ports
  <2>7. CASE CloseFd
    <3>1. Ports = {fd} \ {NoFd}
      BY <2>7 DEF CloseFd, FdInv
    <3>2. Ports' = {}
      BY <2>7, <3>1 DEF CloseFd, Ports, TypeOK
    <3>3. QED BY <2>7, <3>2 DEF CloseFd, FdInv
  <2>8. CASE ClearFd
    BY <2>8 DEF ClearFd, FdInv, Ports
  <2>9. CASE Join
    BY <2>9 DEF Join, FdInv, Ports
  <2>10. CASE Visible
    BY <2>10 DEF Visible, FdInv, Ports
  <2>11. CASE Check
    BY <2>11 DEF Check, FdInv, Ports
  <2>12. CASE LoadFd
    BY <2>12 DEF LoadFd, FdInv, Ports
  <2>13. CASE ReadData
    <3>1. running => file[loaded] = "port"
      BY <2>13 DEF ReadData, Readable, FdInv, Ports
    <3>2. QED BY <2>13, <3>1 DEF ReadData, Returns, FdInv, Ports
  <2>14. CASE ReadNothing
    BY <2>14 DEF ReadNothing, FdInv, Ports
  <2>15. CASE DeviceFails
    BY <2>15 DEF DeviceFails, FdInv, Ports
  <2>16. CASE BadDescriptor
    BY <2>16 DEF BadDescriptor, FdInv, Ports
  <2>17. CASE Accumulate \/ Dispatch
    BY <2>17 DEF Accumulate, Dispatch, Consume, FdInv, Ports
  <2>18. CASE ReadBlocks
    <3>1. ~running
      BY <2>18 DEF ReadBlocks, Readable, FdInv, Ports
    <3>2. QED BY <2>18, <3>1 DEF ReadBlocks, FdInv, Ports
  <2>19. CASE ReadWakes
    BY <2>19 DEF ReadWakes, Returns, FdInv, Ports
  <2>20. CASE UNCHANGED vars
    BY <2>20 DEF vars, FdInv, Ports
  <2>21. QED
    BY <2>1, <2>2, <2>3, <2>4, <2>5, <2>6, <2>7, <2>8, <2>9, <2>10, <2>11, <2>12,
       <2>13, <2>14, <2>15, <2>16, <2>17, <2>18, <2>19, <2>20 DEF Next, StopStep, ReadStep
<1>3. QED BY <1>1, <1>2, TypeCorrect, PTL DEF Spec

\* Whatever fails and whenever stop() is called, the port is open under m_fd and
\* under no other number, and stop() closes the port and nothing else.
THEOREM NoDescriptorLeaks == Spec => []DescriptorOwned
<1>1. TypeOK /\ FdInv => DescriptorOwned
  BY DEF TypeOK, FdInv, Ports, DescriptorOwned
<1>2. QED BY <1>1, FdCorrect, TypeCorrect, PTL

\* start() never assigns to a joinable m_thread, and no thread outlives stop().
THEOREM AtMostOneReader == Spec => []OneReader
<1>1. FdInv => OneReader
  BY DEF FdInv, OneReader
<1>2. QED BY <1>1, FdCorrect, PTL

\* A reader that is meant to run gets bytes of its port only.
THEOREM ForeignBytesOnlyInStop == Spec => []ForeignOnlyInStop
<1>1. FdInv => ForeignOnlyInStop
  BY DEF FdInv
<1>2. QED BY <1>1, FdCorrect, PTL

------------------------------------------------------------------------------
(* The lines of a stream that grows by one byte.                             *)

\* The line under construction of stream s is l, and begins at a.
OpenLine(s, l, a) == /\ a \in 1 .. Len(s) + 1
                     /\ a = 1 \/ s[a - 1] = LF
                     /\ \A i \in a .. Len(s) : s[i] # LF
                     /\ Len(l) = Len(s) + 1 - a
                     /\ \A i \in 1 .. Len(l) : l[i] = s[a + i - 1]

\* A byte that is not LF completes no line.
LEMMA NoLineAdded ==
  ASSUME NEW s \in Seq(Bytes), NEW c \in Bytes, c # LF
  PROVE  Lines(Append(s, c)) = Lines(s)
<1> DEFINE t == Append(s, c)
<1>1. /\ Len(s) \in Nat /\ Len(t) = Len(s) + 1
      /\ DOMAIN s = 1 .. Len(s) /\ DOMAIN t = 1 .. Len(s) + 1
      /\ \A i \in 1 .. Len(s) : t[i] = s[i]
      /\ t[Len(s) + 1] = c
  BY AppendProperties, LenProperties
<1>2. ASSUME NEW l \in Lines(t) PROVE l \in Lines(s)
  <2>1. l \in [first : 1 .. Len(s) + 1, last : 1 .. Len(s) + 1] /\ t[l.last] = LF
        /\ (l.first = 1 \/ t[l.first - 1] = LF) /\ l.first <= l.last
        /\ \A i \in l.first .. l.last - 1 : t[i] # LF
    BY <1>1 DEF Lines
  <2>2. l.last \in 1 .. Len(s) /\ l.first \in 1 .. Len(s)
    BY <1>1, <2>1
  <2>3. s[l.last] = LF /\ (l.first = 1 \/ s[l.first - 1] = LF)
    BY <1>1, <2>1, <2>2
  <2>4. \A i \in l.first .. l.last - 1 : s[i] # LF
    BY <1>1, <2>1, <2>2
  <2>5. l \in [first : DOMAIN s, last : DOMAIN s]
    BY <1>1, <2>1, <2>2
  <2>6. QED BY <2>1, <2>3, <2>4, <2>5 DEF Lines
<1>3. ASSUME NEW l \in Lines(s) PROVE l \in Lines(t)
  <2>1. l \in [first : 1 .. Len(s), last : 1 .. Len(s)] /\ s[l.last] = LF
        /\ (l.first = 1 \/ s[l.first - 1] = LF) /\ l.first <= l.last
        /\ \A i \in l.first .. l.last - 1 : s[i] # LF
    BY <1>1 DEF Lines
  <2>2. t[l.last] = LF /\ (l.first = 1 \/ t[l.first - 1] = LF)
    BY <1>1, <2>1
  <2>3. \A i \in l.first .. l.last - 1 : t[i] # LF
    BY <1>1, <2>1
  <2>4. l \in [first : DOMAIN t, last : DOMAIN t]
    BY <1>1, <2>1
  <2>5. QED BY <2>1, <2>2, <2>3, <2>4 DEF Lines
<1>4. QED BY <1>2, <1>3

\* An LF completes the line that is open, and no other.
LEMMA OneLineAdded ==
  ASSUME NEW s \in Seq(Bytes), NEW x \in Seq(Bytes), NEW a, OpenLine(s, x, a)
  PROVE  Lines(Append(s, LF)) = Lines(s) \cup {[first |-> a, last |-> Len(s) + 1]}
<1> DEFINE t == Append(s, LF)
           new == [first |-> a, last |-> Len(s) + 1]
<1>1. /\ Len(s) \in Nat /\ Len(t) = Len(s) + 1
      /\ DOMAIN s = 1 .. Len(s) /\ DOMAIN t = 1 .. Len(s) + 1
      /\ \A i \in 1 .. Len(s) : t[i] = s[i]
      /\ t[Len(s) + 1] = LF
  BY AppendProperties, LenProperties DEF Bytes
<1>2. /\ a \in 1 .. Len(s) + 1 /\ (a = 1 \/ s[a - 1] = LF)
      /\ \A i \in a .. Len(s) : s[i] # LF
  BY DEF OpenLine
<1>3. ASSUME NEW l \in Lines(t), l.last # Len(s) + 1 PROVE l \in Lines(s)
  <2>1. l \in [first : 1 .. Len(s) + 1, last : 1 .. Len(s) + 1] /\ t[l.last] = LF
        /\ (l.first = 1 \/ t[l.first - 1] = LF) /\ l.first <= l.last
        /\ \A i \in l.first .. l.last - 1 : t[i] # LF
    BY <1>1 DEF Lines
  <2>2. l.last \in 1 .. Len(s) /\ l.first \in 1 .. Len(s)
    BY <1>1, <1>3, <2>1
  <2>3. s[l.last] = LF /\ (l.first = 1 \/ s[l.first - 1] = LF)
    BY <1>1, <2>1, <2>2
  <2>4. \A i \in l.first .. l.last - 1 : s[i] # LF
    BY <1>1, <2>1, <2>2
  <2>5. l \in [first : DOMAIN s, last : DOMAIN s]
    BY <1>1, <2>1, <2>2
  <2>6. QED BY <2>1, <2>3, <2>4, <2>5 DEF Lines
<1>4. ASSUME NEW l \in Lines(t), l.last = Len(s) + 1 PROVE l = new
  <2>1. l \in [first : 1 .. Len(s) + 1, last : 1 .. Len(s) + 1]
        /\ (l.first = 1 \/ t[l.first - 1] = LF)
        /\ \A i \in l.first .. Len(s) : t[i] # LF
    BY <1>1, <1>4 DEF Lines
  <2>2. ~(l.first < a)
    BY <1>1, <1>2, <2>1
  <2>3. ~(a < l.first)
    BY <1>1, <1>2, <2>1
  <2>4. l.first = a
    BY <1>1, <1>2, <2>1, <2>2, <2>3
  <2>5. QED BY <1>4, <2>1, <2>4
<1>5. ASSUME NEW l \in Lines(s) PROVE l \in Lines(t)
  <2>1. l \in [first : 1 .. Len(s), last : 1 .. Len(s)] /\ s[l.last] = LF
        /\ (l.first = 1 \/ s[l.first - 1] = LF) /\ l.first <= l.last
        /\ \A i \in l.first .. l.last - 1 : s[i] # LF
    BY <1>1 DEF Lines
  <2>2. t[l.last] = LF /\ (l.first = 1 \/ t[l.first - 1] = LF)
    BY <1>1, <2>1
  <2>3. \A i \in l.first .. l.last - 1 : t[i] # LF
    BY <1>1, <2>1
  <2>4. l \in [first : DOMAIN t, last : DOMAIN t]
    BY <1>1, <2>1
  <2>5. QED BY <2>1, <2>2, <2>3, <2>4 DEF Lines
<1>6. new \in Lines(t)
  <2>1. new \in [first : DOMAIN t, last : DOMAIN t]
    BY <1>1, <1>2
  <2>2. a = 1 \/ t[a - 1] = LF
    BY <1>1, <1>2
  <2>3. \A i \in a .. Len(s) : t[i] # LF
    BY <1>1, <1>2
  <2>4. QED BY <1>1, <1>2, <2>1, <2>2, <2>3 DEF Lines
<1>7. QED BY <1>3, <1>4, <1>5, <1>6

\* What is appended to a stream changes no text of its lines.
LEMMA TextUnchanged ==
  ASSUME NEW s \in Seq(Bytes), NEW c \in Bytes, NEW l \in Lines(s)
  PROVE  Text(Append(s, c), l) = Text(s, l)
<1> DEFINE t == Append(s, c)
<1>1. /\ Len(s) \in Nat /\ DOMAIN s = 1 .. Len(s)
      /\ \A i \in 1 .. Len(s) : t[i] = s[i] /\ s[i] \in Bytes
  BY AppendProperties, LenProperties, ElementOfSeq
<1>2. l.first \in 1 .. Len(s) /\ l.last \in 1 .. Len(s) /\ l.first <= l.last
  BY <1>1 DEF Lines
<1> DEFINE m == l.first
           n == l.last - 1
<1>3. m \in Int /\ n \in Int /\ \A i \in m .. n : i \in 1 .. Len(s)
  BY <1>1, <1>2
<1>4. \A i \in m .. n : s[i] \in Bytes /\ t[i] \in Bytes /\ t[i] = s[i]
  BY <1>1, <1>3
<1> HIDE DEF m, n, t
<1>5. /\ SubSeq(s, m, n) \in Seq(Bytes)
      /\ Len(SubSeq(s, m, n)) = IF m <= n THEN n - m + 1 ELSE 0
      /\ \A i \in 1 .. n - m + 1 : SubSeq(s, m, n)[i] = s[m + i - 1]
  BY <1>3, <1>4, SubSeqProperties
<1>6. /\ SubSeq(t, m, n) \in Seq(Bytes)
      /\ Len(SubSeq(t, m, n)) = IF m <= n THEN n - m + 1 ELSE 0
      /\ \A i \in 1 .. n - m + 1 : SubSeq(t, m, n)[i] = t[m + i - 1]
  BY <1>3, <1>4, SubSeqProperties
<1>7. \A i \in 1 .. Len(SubSeq(s, m, n)) : SubSeq(s, m, n)[i] = SubSeq(t, m, n)[i]
  BY <1>3, <1>4, <1>5, <1>6
<1>8. SubSeq(s, m, n) = SubSeq(t, m, n)
  BY <1>5, <1>6, <1>7, SeqEqual
<1>9. QED BY <1>8 DEF Text, m, n, t

\* The text of the line that an LF completes is the line under construction.
LEMMA TextOfNew ==
  ASSUME NEW s \in Seq(Bytes), NEW x \in Seq(Bytes), NEW a, OpenLine(s, x, a)
  PROVE  Text(Append(s, LF), [first |-> a, last |-> Len(s) + 1]) = Stripped(x)
<1> DEFINE t == Append(s, LF)
           n == Len(s)
<1>1. /\ n \in Nat /\ Len(x) \in Nat /\ a \in 1 .. n + 1 /\ Len(x) = n + 1 - a
      /\ \A i \in 1 .. n : t[i] = s[i] /\ s[i] \in Bytes
      /\ \A i \in 1 .. Len(x) : x[i] = s[a + i - 1]
  BY AppendProperties, LenProperties, ElementOfSeq DEF Bytes, OpenLine
<1> HIDE DEF n, t
<1>2. a \in Int /\ n \in Int /\ \A i \in a .. n : t[i] \in Bytes
  <2>1. a \in Int /\ n \in Int /\ \A i \in a .. n : i \in 1 .. n
    BY <1>1
  <2>2. QED BY <1>1, <2>1
<1>3. /\ SubSeq(t, a, n) \in Seq(Bytes)
      /\ Len(SubSeq(t, a, n)) = IF a <= n THEN n - a + 1 ELSE 0
      /\ \A i \in 1 .. n - a + 1 : SubSeq(t, a, n)[i] = t[a + i - 1]
  BY <1>2, SubSeqProperties
<1>4. Len(SubSeq(t, a, n)) = Len(x)
  BY <1>1, <1>3
<1>5. \A i \in 1 .. Len(SubSeq(t, a, n)) : SubSeq(t, a, n)[i] = x[i]
  BY <1>1, <1>3, <1>4
<1>6. SubSeq(t, a, n) = x
  BY <1>3, <1>4, <1>5, SeqEqual
<1> DEFINE l == [first |-> a, last |-> n + 1]
<1>7. l.first = a /\ l.last = n + 1
  OBVIOUS
<1> HIDE DEF l
<1>8. Text(t, l) = Stripped(x)
  <2>1. l.first = a /\ l.last - 1 = n
    BY <1>1, <1>7, SMT
  <2>2. SubSeq(t, l.first, l.last - 1) = x
    BY <1>6, <2>1, Zenon
  <2>3. QED BY <2>2, Zenon DEF Text
<1>9. QED BY <1>8 DEF l, n, t

\* What LinesExact says, and that line is the beginning of the line under
\* construction.
LineInv == /\ IsFiniteSet(FullLines(stream))
           /\ LinesExact
           /\ \E a \in 1 .. Len(stream) + 1 : OpenLine(stream, line, a)

\* The place of a line is an index of lines.
LEMMA PlaceInRange ==
  ASSUME NEW s \in Seq(Bytes), IsFiniteSet(FullLines(s)), NEW l \in FullLines(s)
  PROVE  Place(s, l) \in 1 .. Cardinality(FullLines(s))
<1> DEFINE F == FullLines(s)
           K == {k \in F : k.last <= l.last}
<1>1. l \in K
  <2>1. l.last \in Int
    BY LenProperties DEF FullLines, Lines
  <2>2. QED BY <2>1
<1>2. K \in SUBSET F
  OBVIOUS
<1> HIDE DEF F, K
<1>3. IsFiniteSet(F)
  BY DEF F
<1>4. IsFiniteSet(K) /\ Cardinality(K) <= Cardinality(F)
  BY <1>2, <1>3, FS_Subset
<1>5. Cardinality(K) \in Nat /\ Cardinality(F) \in Nat /\ Cardinality(K) # 0
  BY <1>1, <1>3, <1>4, FS_CardinalityType, FS_EmptySet
<1>6. Cardinality(K) \in 1 .. Cardinality(F)
  BY <1>4, <1>5
<1>7. QED BY <1>6 DEF Place, F, K

\* A byte that is not LF leaves the complete lines alone.
LEMMA SameFullLines ==
  ASSUME NEW s \in Seq(Bytes), NEW c \in Bytes, c # LF
  PROVE  /\ FullLines(Append(s, c)) = FullLines(s)
         /\ \A l \in FullLines(s) : /\ Place(Append(s, c), l) = Place(s, l)
                                    /\ Text(Append(s, c), l) = Text(s, l)
<1>1. Lines(Append(s, c)) = Lines(s)
  BY NoLineAdded
<1>2. \A l \in Lines(s) : Text(Append(s, c), l) = Text(s, l)
  BY TextUnchanged
<1>3. FullLines(Append(s, c)) = FullLines(s)
  BY <1>1, <1>2 DEF FullLines
<1>4. QED BY <1>2, <1>3 DEF FullLines, Place

\* Accumulate keeps LineInv.
LEMMA AccumulateLine ==
  ASSUME TypeOK, LineInv, Accumulate
  PROVE  LineInv'
<1> DEFINE c == Head(chunk)
<1>1. /\ c \in Bytes \ {LF} /\ stream \in Seq(Bytes) /\ line \in Seq(Bytes)
      /\ stream' = Append(stream, c) /\ line' = Append(line, c) /\ lines' = lines
  <2>1. line \in Seq(Bytes)
    BY LenProperties, IsASeq DEF TypeOK
  <2>2. QED BY <2>1, ConsumeType DEF Accumulate, Consume, TypeOK
<1> HIDE DEF c
<1>2. /\ FullLines(stream') = FullLines(stream)
      /\ \A l \in FullLines(stream) : /\ Place(stream', l) = Place(stream, l)
                                      /\ Text(stream', l) = Text(stream, l)
  BY <1>1, SameFullLines
<1>3. IsFiniteSet(FullLines(stream')) /\ LinesExact'
  BY <1>1, <1>2 DEF LineInv, LinesExact
<1>4. PICK a \in 1 .. Len(stream) + 1 : OpenLine(stream, line, a)
  BY DEF LineInv
<1>5. /\ Len(stream) \in Nat /\ Len(stream') = Len(stream) + 1
      /\ \A i \in 1 .. Len(stream) : stream'[i] = stream[i]
      /\ stream'[Len(stream) + 1] = c
      /\ Len(line) \in Nat /\ Len(line') = Len(line) + 1
      /\ \A i \in 1 .. Len(line) : line'[i] = line[i]
      /\ line'[Len(line) + 1] = c
  BY <1>1, AppendProperties, LenProperties
<1>6. a \in 1 .. Len(stream') + 1 /\ (a = 1 \/ stream'[a - 1] = LF)
        /\ Len(line') = Len(stream') + 1 - a
  BY <1>4, <1>5 DEF OpenLine
<1>7. \A i \in a .. Len(stream') : stream'[i] # LF
  BY <1>1, <1>4, <1>5 DEF OpenLine
<1>8. \A i \in 1 .. Len(line') : line'[i] = stream'[a + i - 1]
  <2>1. ASSUME NEW i \in 1 .. Len(line) PROVE line'[i] = stream'[a + i - 1]
    <3>1. line[i] = stream[a + i - 1] /\ a + i - 1 \in 1 .. Len(stream)
      BY <1>4, <1>5 DEF OpenLine
    <3>2. QED BY <1>5, <3>1
  <2>2. a + (Len(line) + 1) - 1 = Len(stream) + 1
    BY <1>4, <1>5 DEF OpenLine
  <2>3. line'[Len(line) + 1] = stream'[a + (Len(line) + 1) - 1]
    BY <1>5, <2>2
  <2>4. \A i \in 1 .. Len(line') : i \in 1 .. Len(line) \/ i = Len(line) + 1
    BY <1>5
  <2>5. QED BY <2>1, <2>3, <2>4, Zenon
<1>9. OpenLine(stream', line', a)
  BY <1>6, <1>7, <1>8 DEF OpenLine
<1>10. QED BY <1>3, <1>6, <1>9 DEF LineInv

\* Dispatch keeps LineInv.
LEMMA DispatchLine ==
  ASSUME TypeOK, LineInv, Dispatch
  PROVE  LineInv'
<1> DEFINE n == Len(stream)
           F == FullLines(stream)
<1>1. /\ stream \in Seq(Bytes) /\ line \in Seq(Bytes) /\ LF \in Bytes
      /\ stream' = Append(stream, LF) /\ line' = <<>>
      /\ lines' = IF Stripped(line) = <<>> THEN lines ELSE Append(lines, Stripped(line))
      /\ lines \in Seq(Seq(Bytes)) /\ Stripped(line) \in Seq(Bytes)
  <2>1. line \in Seq(Bytes)
    BY LenProperties, IsASeq DEF TypeOK
  <2>2. lines \in Seq(Seq(Bytes))
    <3>1. Seq(Bytes \ {LF}) \subseteq Seq(Bytes)
      BY LenProperties, IsASeq
    <3>2. QED BY <3>1, LenProperties, IsASeq DEF TypeOK
  <2>3. QED BY <2>1, <2>2, StrippedType DEF Dispatch, Consume, TypeOK, Bytes
<1>2. /\ n \in Nat /\ Len(stream') = n + 1 /\ stream'[n + 1] = LF
  BY <1>1, AppendProperties, LenProperties
<1>3. PICK a \in 1 .. n + 1 : OpenLine(stream, line, a)
  BY DEF LineInv
<1> DEFINE new == [first |-> a, last |-> n + 1]
<1>4. Lines(stream') = Lines(stream) \cup {new} /\ Text(stream', new) = Stripped(line)
  BY <1>1, <1>3, OneLineAdded, TextOfNew
<1>5. \A l \in Lines(stream) : Text(stream', l) = Text(stream, l)
  BY <1>1, TextUnchanged
<1>6. \A l \in Lines(stream) : l.last \in Int /\ l.last < n + 1
  BY <1>1, <1>2, LenProperties DEF Lines
<1>7. new.last = n + 1 /\ new \notin Lines(stream)
  BY <1>2, <1>6
<1>8. IsFiniteSet(F) /\ Len(lines) = Cardinality(F) /\ Cardinality(F) \in Nat
        /\ \A l \in F : lines[Place(stream, l)] = Text(stream, l)
  BY FS_CardinalityType DEF LineInv, LinesExact
<1>9. \A l \in F : l \in Lines(stream) /\ Place(stream, l) \in 1 .. Len(lines)
  BY <1>1, <1>8, PlaceInRange DEF FullLines
<1>10. OpenLine(stream', line', n + 2) /\ n + 2 \in 1 .. Len(stream') + 1
  BY <1>1, <1>2, EmptySeq DEF OpenLine
<1>11. CASE Stripped(line) = <<>>
  <2>1. FullLines(stream') = F
    BY <1>4, <1>5, <1>11 DEF FullLines
  <2>2. \A l \in F : Place(stream', l) = Place(stream, l)
    BY <2>1 DEF Place
  <2>3. LinesExact'
    BY <1>1, <1>5, <1>8, <1>9, <1>11, <2>1, <2>2 DEF LinesExact
  <2>4. QED BY <1>8, <1>10, <2>1, <2>3 DEF LineInv
<1>12. CASE Stripped(line) # <<>>
  <2>1. FullLines(stream') = F \cup {new}
    BY <1>4, <1>5, <1>12 DEF FullLines
  <2>2. new \notin F
    BY <1>7, <1>9
  <2>3. IsFiniteSet(FullLines(stream')) /\ Cardinality(FullLines(stream')) = Cardinality(F) + 1
    BY <1>8, <2>1, <2>2, FS_AddElement
  <2>4. /\ Len(lines') = Len(lines) + 1 /\ Len(lines) \in Nat
        /\ \A i \in 1 .. Len(lines) : lines'[i] = lines[i]
        /\ lines'[Len(lines) + 1] = Stripped(line)
    BY <1>1, <1>12, AppendProperties, LenProperties
  <2>5. ASSUME NEW l \in F PROVE lines'[Place(stream', l)] = Text(stream', l)
    <3>1. l.last \in Int /\ l.last < n + 1 /\ l \in Lines(stream)
      BY <1>6, <1>9
    <3>2. {k \in FullLines(stream') : k.last <= l.last} = {k \in F : k.last <= l.last}
      BY <1>2, <1>7, <2>1, <3>1
    <3>3. Place(stream', l) = Place(stream, l)
      BY <3>2 DEF Place
    <3>4. QED BY <1>5, <1>8, <1>9, <2>4, <3>1, <3>3
  <2>6. lines'[Place(stream', new)] = Text(stream', new)
    <3>1. {k \in FullLines(stream') : k.last <= new.last} = FullLines(stream')
      BY <1>2, <1>6, <1>7, <1>9, <2>1
    <3>2. Place(stream', new) = Len(lines) + 1
      BY <1>8, <2>3, <3>1 DEF Place
    <3>3. QED BY <1>4, <2>4, <3>2
  <2>7. LinesExact'
    BY <1>8, <2>1, <2>3, <2>4, <2>5, <2>6 DEF LinesExact
  <2>8. QED BY <1>10, <2>3, <2>7 DEF LineInv
<1>13. QED BY <1>11, <1>12

\* The empty stream has no line, and one begins at its end.
LEMMA EmptyLines ==
  /\ Len(<<>>) = 0
  /\ FullLines(<<>>) = {}
  /\ OpenLine(<<>>, <<>>, 1) /\ 1 \in 1 .. Len(<<>>) + 1
<1>1. Len(<<>>) = 0 /\ DOMAIN <<>> = {}
  BY EmptySeq, LenProperties
<1>2. Lines(<<>>) = {}
  BY <1>1 DEF Lines
<1>3. QED BY <1>1, <1>2 DEF FullLines, OpenLine

\* The callback gets the lines of the stream that are not blank, each once, in
\* order and complete, for every alphabet, buffer size and cut of the stream.
THEOREM EveryLineOnce == Spec => []LinesExact
<1>1. Init => LineInv
  BY EmptyLines, FS_EmptySet DEF Init, LineInv, LinesExact
<1>2. TypeOK /\ LineInv /\ [Next]_vars => LineInv'
  <2> SUFFICES ASSUME TypeOK, LineInv, [Next]_vars PROVE LineInv'
    OBVIOUS
  <2>1. CASE Start
    <3>1. stream' = <<>> /\ line' = <<>> /\ lines' = <<>>
      BY <2>1 DEF Start
    <3>2. QED BY <3>1, EmptyLines, FS_EmptySet DEF LineInv, LinesExact
  <2>2. CASE Accumulate
    BY <2>2, AccumulateLine
  <2>3. CASE Dispatch
    BY <2>3, DispatchLine
  <2>4. CASE UNCHANGED <<line, stream, lines>>
    BY <2>4 DEF LineInv, LinesExact
  <2>5. QED
    BY <2>1, <2>2, <2>3, <2>4
       DEF Next, StopStep, ReadStep, OtherOpens, OtherCloses, StartIgnored, StartThrows,
           Stop, CloseFd, ClearFd, Join, Visible, Check, LoadFd, ReadData, Returns,
           ReadNothing, ReadBlocks, ReadWakes, DeviceFails, BadDescriptor, vars, readerVars, historyVars
<1>3. LineInv => LinesExact
  BY DEF LineInv
<1>4. QED BY <1>1, <1>2, <1>3, TypeCorrect, PTL DEF Spec
==============================================================================
