--------------------------- MODULE SimulatorProofs ----------------------------
(* Theorems about Simulator for every length of the sentences, every size of   *)
(* the pseudoterminal and any number of sessions.                              *)
EXTENDS Simulator, SequenceTheorems, TLAPS

\* The master is open exactly between openPty() and close(), and the thread runs
\* only between start() and join().
OwnerInv ==
  /\ main \in {"probe", "start", "wait", "stop", "join", "close"} => fd = "open"
  /\ main \in {"open", "exit", "failed"} => fd # "open"
  /\ main \in {"open", "probe", "start", "failed"} => worker = "none"
  /\ main \in {"close", "exit"} => worker = "done"

\* OwnerInv holds at every step of main() and of the thread.
LEMMA OwnerCorrect == Spec => []OwnerInv
<1>1. Init => OwnerInv
  BY DEF Init, OwnerInv
<1>2. OwnerInv /\ [Next]_vars => OwnerInv'
  <2> SUFFICES ASSUME OwnerInv, [Next]_vars PROVE OwnerInv'
    OBVIOUS
  <2>1. CASE MainStep
    BY <2>1 DEF MainStep, OpenPty, OpenPtyThrows, ProbeReady, ProbeFails, Start, Leave, Stop,
                Join, Close, Goes, OwnerInv
  <2>2. CASE WorkerStep
    <3>1. worker \notin {"none", "done"} /\ UNCHANGED mainVars
      BY <2>2 DEF WorkerStep, Check, Build, EndTick, Write, WriteFails
    <3>2. QED BY <3>1 DEF OwnerInv, mainVars
  <2>3. CASE Signal \/ SlaveOpens \/ SlaveReads \/ ReaderEnds \/ SlaveCloses
    BY <2>3 DEF Signal, SlaveOpens, SlaveReads, ReaderEnds, SlaveCloses, OwnerInv, mainVars
  <2>4. CASE UNCHANGED vars
    BY <2>4 DEF vars, OwnerInv, mainVars
  <2>5. QED BY <2>1, <2>2, <2>3, <2>4 DEF Next
<1>3. QED BY <1>1, <1>2, PTL DEF Spec

------------------------------------------------------------------------------
\* A set of channels that is not empty has a first one.
LEMMA FirstChannel == ASSUME NEW S \in SUBSET Channels, S # {}
                      PROVE  Min(S) \in S /\ \A d \in S : Min(S) <= d
<1>1. \E x \in S : \A y \in S : x <= y
  <2>1. CASE 1 \in S
    BY <2>1 DEF Channels
  <2>2. CASE 1 \notin S /\ 2 \in S
    BY <2>2 DEF Channels
  <2>3. CASE 1 \notin S /\ 2 \notin S /\ 3 \in S
    BY <2>3 DEF Channels
  <2>4. CASE S \cap 1 .. 3 = {} /\ 4 \in S
    BY <2>4 DEF Channels
  <2>5. CASE S \cap 1 .. 4 = {} /\ 5 \in S
    BY <2>5 DEF Channels
  <2>6. CASE S \cap 1 .. 5 = {} /\ 6 \in S
    BY <2>6 DEF Channels
  <2>7. CASE S \cap 1 .. 6 = {} /\ 7 \in S
    BY <2>7 DEF Channels
  <2>8. CASE S \cap 1 .. 7 = {}
    <3>1. \A x \in S : x = 8
      BY <2>8 DEF Channels
    <3>2. QED BY <3>1
  <2>9. QED BY <2>1, <2>2, <2>3, <2>4, <2>5, <2>6, <2>7, <2>8 DEF Channels
<1>2. QED BY <1>1 DEF Min

\* What a session leaves behind is as long as it was.
LEMMA StaleType == ASSUME NEW s \in Seq(Byte)
                   PROVE  Stale(s) \in Seq(Byte) /\ Len(Stale(s)) = Len(s)
<1>1. \A i \in 1 .. Len(s) : [tick |-> 0, channel |-> 0, place |-> s[i].place] \in Byte
  <2> SUFFICES ASSUME NEW i \in 1 .. Len(s)
               PROVE  [tick |-> 0, channel |-> 0, place |-> s[i].place] \in Byte
    OBVIOUS
  <2>1. s[i] \in Byte
    BY ElementOfSeq
  <2>2. s[i].place \in 1 .. Length
    BY <2>1 DEF Byte
  <2>3. QED BY <2>2 DEF Byte, Cycle
<1>2. DOMAIN s = 1 .. Len(s) /\ Len(s) \in Nat
  OBVIOUS
<1>3. Stale(s) \in [1 .. Len(s) -> Byte]
  BY <1>1, <1>2 DEF Stale
<1>4. QED BY <1>2, <1>3, SeqDef, LenProperties

\* A piece of a sentence has its length.
LEMMA BytesType ==
  ASSUME NEW t \in 0 .. Cycle - 1, NEW c \in Channels,
         NEW from \in 1 .. Length, NEW to \in 0 .. Length, from <= to + 1
  PROVE  Bytes(t, c, from, to) \in Seq(Byte) /\ Len(Bytes(t, c, from, to)) = to + 1 - from
BY SimulatorAssumption DEF Bytes, Byte, Channels, Cycle

\* Every variable of Simulator always holds a value of its type.
THEOREM TypeCorrect == Spec => []TypeOK
<1>1. Init => TypeOK
  <2>1. <<>> \in Seq(Byte) /\ Len(<<>>) = 0
    BY EmptySeq
  <2> SUFFICES ASSUME Init PROVE TypeOK
    OBVIOUS
  <2>2. /\ wire \in Seq(Byte) /\ Len(wire) <= Room
        /\ line \in Seq(Byte) /\ got \in Seq(Byte)
        /\ prev \in Seq(Byte) /\ Len(prev) <= 1
    BY <2>1, SimulatorAssumption DEF Init
  <2>3. /\ slave \in BOOLEAN /\ reading \in BOOLEAN /\ (reading => slave)
        /\ g_running \in BOOLEAN /\ running \in BOOLEAN
    BY DEF Init
  <2>4. /\ fd \in {"none", "open", "closed"} /\ main = "open" /\ worker = "none"
        /\ sessions \in 0 .. MaxSessions /\ attempt \in Nat /\ ~(attempt > 0)
        /\ tick \in 0 .. 9 /\ at \in 1 .. 9 /\ remaining \in 0 .. Length /\ ~(remaining > 0)
    BY SimulatorAssumption DEF Init
  <2>5. QED BY <2>2, <2>3, <2>4 DEF TypeOK, Cycle
<1>2. TypeOK /\ OwnerInv /\ [Next]_vars => TypeOK'
  <2> SUFFICES ASSUME TypeOK, OwnerInv, [Next]_vars PROVE TypeOK'
    OBVIOUS
  <2> USE SimulatorAssumption
  <2>1. CASE MainStep
    <3>1. UNCHANGED <<g_running, writerVars, wire, readerVars>>
      BY <2>1 DEF MainStep, OpenPty, OpenPtyThrows, ProbeReady, ProbeFails, Start, Leave, Stop,
                  Join, Close
    <3>2. fd' \in {"none", "open", "closed"} /\ running' \in BOOLEAN
      BY <2>1 DEF MainStep, OpenPty, OpenPtyThrows, ProbeReady, ProbeFails, Start, Leave, Stop,
                  Join, Close, TypeOK
    <3>3. /\ main' \in {"open", "probe", "start", "wait", "stop", "join", "close", "exit",
                       "failed"}
          /\ attempt' \in Nat /\ (attempt' > 0 => attempt' < Attempts)
      <4>1. CASE ProbeFails
        BY <4>1 DEF ProbeFails, TypeOK
      <4>2. CASE ~ProbeFails
        BY <2>1, <4>2 DEF MainStep, OpenPty, OpenPtyThrows, ProbeReady, Start, Leave, Stop,
                          Join, Close, Goes, TypeOK
      <4>3. QED BY <4>1, <4>2
    <3>4. worker' = worker \/ (worker = "none" /\ worker' = "check")
      <4>1. CASE Start
        BY <4>1 DEF Start, Goes, OwnerInv
      <4>2. CASE OpenPty \/ OpenPtyThrows \/ ProbeReady \/ ProbeFails
        BY <4>2 DEF OpenPty, OpenPtyThrows, ProbeReady, ProbeFails
      <4>3. CASE Leave \/ Stop \/ Join \/ Close
        BY <4>3 DEF Leave, Stop, Join, Close
      <4>4. QED BY <2>1, <4>1, <4>2, <4>3 DEF MainStep
    <3>5. QED BY <3>1, <3>2, <3>3, <3>4 DEF TypeOK, writerVars, readerVars
  <2>2. CASE Signal
    BY <2>2 DEF Signal, TypeOK, mainVars, writerVars, readerVars
  <2>3. CASE Check
    BY <2>3 DEF Check, TypeOK, mainVars, readerVars, Cycle
  <2>4. CASE Build
    <3>1. Min(Due(tick, at)) \in Channels
      BY <2>4, FirstChannel DEF Build, Due
    <3>2. QED BY <2>4, <3>1 DEF Build, TypeOK, mainVars, readerVars, Channels
  <2>5. CASE EndTick
    BY <2>5 DEF EndTick, TypeOK, mainVars, writerVars, readerVars
  <2>6. CASE Write
    <3>1. PICK n \in 1 .. remaining :
            /\ Len(wire) + n <= Room
            /\ LET bytes == Bytes(tick, at, Length + 1 - remaining, Length + n - remaining)
               IN  wire' = wire \o (IF slave THEN bytes ELSE Stale(bytes))
            /\ remaining' = remaining - n
            /\ IF n = remaining THEN worker' = "turn" /\ at' = at + 1 ELSE UNCHANGED <<worker, at>>
      BY <2>6 DEF Write
    <3> DEFINE bytes == Bytes(tick, at, Length + 1 - remaining, Length + n - remaining)
    <3>2. bytes \in Seq(Byte) /\ Len(bytes) = n
      <4>1. /\ tick \in 0 .. Cycle - 1 /\ at \in Channels /\ remaining \in 1 .. Length
            /\ Length + 1 - remaining \in 1 .. Length
            /\ Length + n - remaining \in 0 .. Length
            /\ Length + 1 - remaining <= Length + n - remaining + 1
            /\ Length + n - remaining + 1 - (Length + 1 - remaining) = n
        BY <2>6 DEF Write, TypeOK
      <4> HIDE SimulatorAssumption
      <4>2. QED BY <4>1, BytesType
    <3>3. Stale(bytes) \in Seq(Byte) /\ Len(Stale(bytes)) = n
      BY <3>2, StaleType
    <3>4. wire' \in Seq(Byte) /\ Len(wire') <= Room
      BY <3>1, <3>2, <3>3 DEF TypeOK
    <3>5. remaining' \in 0 .. Length /\ worker' \in {"turn", "write"} /\ at' \in 1 .. 9
            /\ (worker' = "write" <=> remaining' > 0) /\ (worker' = "write" => at' \in Channels)
      <4>1. worker = "write" /\ remaining \in 1 .. Length /\ at \in 1 .. 8
        BY <2>6 DEF Write, TypeOK, Channels
      <4>2. remaining' = remaining - n
        BY <3>1
      <4>3. CASE n = remaining
        BY <3>1, <4>1, <4>2, <4>3
      <4>4. CASE n # remaining
        BY <3>1, <4>1, <4>2, <4>4 DEF Channels
      <4>5. QED BY <4>3, <4>4
    <3>6. QED BY <2>6, <3>4, <3>5 DEF Write, TypeOK, mainVars, readerVars
  <2>7. CASE WriteFails
    BY <2>7 DEF WriteFails, TypeOK, mainVars, readerVars, Channels
  <2>8. CASE SlaveOpens
    BY <2>8 DEF SlaveOpens, TypeOK, mainVars, writerVars
  <2>9. CASE SlaveReads
    <3>1. Head(wire) \in Byte /\ wire' \in Seq(Byte) /\ Len(wire') <= Room
      BY <2>9 DEF SlaveReads, TypeOK
    <3>2. Append(line, Head(wire)) \in Seq(Byte)
      BY <3>1 DEF TypeOK
    <3>3. line' \in Seq(Byte) /\ got' \in Seq(Byte)
      <4>1. CASE Head(wire).place < Length
        BY <2>9, <3>2, <4>1 DEF SlaveReads, TypeOK
      <4>2. CASE ~(Head(wire).place < Length)
        <5>1. line' = <<>> /\ got' \in {<<>>, Append(line, Head(wire))}
          BY <2>9, <4>2 DEF SlaveReads
        <5>2. QED BY <3>2, <5>1, EmptySeq
      <4>3. QED BY <4>1, <4>2
    <3>4. prev' \in Seq(Byte) /\ Len(prev') <= 1
      <4>1. \/ prev' = prev \/ prev' = <<>>
            \/ got # <<>> /\ prev' = <<got[Len(got)]>>
        <5>1. CASE Head(wire).place < Length
          BY <2>9, <5>1 DEF SlaveReads
        <5>2. CASE ~(Head(wire).place < Length)
          BY <2>9, <5>2 DEF SlaveReads
        <5>3. QED BY <5>1, <5>2
      <4>2. got # <<>> => <<got[Len(got)]>> \in Seq(Byte) /\ Len(<<got[Len(got)]>>) = 1
        <5>1. got # <<>> => got[Len(got)] \in Byte
          BY ElementOfSeq, EmptySeq DEF TypeOK
        <5>2. QED BY <5>1
      <4>3. <<>> \in Seq(Byte) /\ Len(<<>>) = 0
        BY EmptySeq
      <4>4. prev \in Seq(Byte) /\ Len(prev) <= 1
        BY DEF TypeOK
      <4>5. CASE prev' = prev
        BY <4>4, <4>5
      <4>6. CASE prev' = <<>>
        BY <4>3, <4>6
      <4>7. CASE got # <<>> /\ prev' = <<got[Len(got)]>>
        BY <4>2, <4>7
      <4>8. QED BY <4>1, <4>5, <4>6, <4>7
    <3>5. QED BY <2>9, <3>1, <3>3, <3>4 DEF SlaveReads, TypeOK, mainVars, writerVars
  <2>10. CASE SlaveCloses
    <3>1. <<>> \in Seq(Byte) /\ Len(<<>>) = 0
      BY EmptySeq
    <3>2. Stale(wire) \in Seq(Byte) /\ Len(Stale(wire)) <= Room
      BY StaleType DEF TypeOK
    <3>3. wire' \in Seq(Byte) /\ Len(wire') <= Room
      <4>1. wire' = Stale(wire) \/ wire' = <<>>
        BY <2>10 DEF SlaveCloses
      <4>2. CASE wire' = Stale(wire)
        BY <3>2, <4>2
      <4>3. CASE wire' = <<>>
        BY <3>1, <4>3
      <4>4. QED BY <4>1, <4>2, <4>3
    <3>4. line' \in Seq(Byte) /\ got' \in Seq(Byte) /\ prev' \in Seq(Byte) /\ Len(prev') <= 1
      BY <2>10, <3>1 DEF SlaveCloses
    <3>5. QED BY <2>10, <3>3, <3>4 DEF SlaveCloses, TypeOK, mainVars, writerVars
  <2>11. CASE ReaderEnds
    BY <2>11 DEF ReaderEnds, TypeOK, mainVars, writerVars
  <2>12. CASE UNCHANGED vars
    BY <2>12 DEF vars, TypeOK, mainVars, writerVars, readerVars
  <2>13. QED
    BY <2>1, <2>2, <2>3, <2>4, <2>5, <2>6, <2>7, <2>8, <2>9, <2>10, <2>11, <2>12
       DEF Next, WorkerStep
<1>3. QED BY <1>1, <1>2, OwnerCorrect, PTL DEF Spec

------------------------------------------------------------------------------
\* The thread never writes to a master that is closed, and main() ends without a
\* running thread or an open master.
THEOREM MasterAlwaysOwned == Spec => []MasterOwned
<1>1. TypeOK /\ OwnerInv => MasterOwned
  BY DEF TypeOK, OwnerInv, MasterOwned
<1>2. QED BY <1>1, OwnerCorrect, TypeCorrect, PTL

------------------------------------------------------------------------------
FirstByte(t, c) == [tick |-> t, channel |-> c, place |-> 1]

\* The byte that follows byte b on the line, if nothing fails.
Follower(b) ==
  IF b.place < Length THEN [tick |-> b.tick, channel |-> b.channel, place |-> b.place + 1]
  ELSE FirstByte(Following(b.tick, b.channel)[1], Following(b.tick, b.channel)[2])

\* The next byte that the thread will write.
Upcoming ==
  IF worker = "write" THEN [tick |-> tick, channel |-> at, place |-> Length + 1 - remaining]
  ELSE IF worker = "turn" /\ Due(tick, at) # {} THEN FirstByte(tick, Min(Due(tick, at)))
  ELSE FirstByte((tick + 1) % Cycle, 1)

\* What the reader has of a line, what is on the wire and what comes next, in a row.
Ahead(i) == IF i <= Len(line) THEN line[i]
            ELSE IF i <= Len(line) + Len(wire) THEN wire[i - Len(line)]
            ELSE Upcoming

\* A byte that is not stale is followed by its follower, from the reader's line over
\* the wire to the writer; the bytes of a line are of one sentence; the last line is
\* a sentence, or the end of one, and goes before all that and after the line before.
ChainInv ==
  /\ \A i \in 1 .. Len(line) + Len(wire) :
       Ahead(i).channel # 0 => Ahead(i + 1) = Follower(Ahead(i))
  /\ ~slave => /\ line = <<>> /\ got = <<>>
               /\ \A i \in 1 .. Len(wire) : wire[i].channel = 0
  /\ \A i \in 1 .. Len(line) :
       /\ line[i].place < Length
       /\ line[1].channel # 0 =>
            line[i] = [tick |-> line[1].tick, channel |-> line[1].channel,
                       place |-> line[1].place + i - 1]
  /\ got # <<>> =>
       /\ Ahead(1) = Follower(got[Len(got)])
       /\ prev # <<>> => prev[1].place = Length /\ got[1] = Follower(prev[1])
       /\ got[1].place + Len(got) - 1 = Length
       /\ \A i \in 1 .. Len(got) :
            got[i] = [tick |-> got[1].tick, channel |-> got[1].channel,
                      place |-> got[1].place + i - 1]

\* Nothing on the reader's side depends on a step that leaves the upcoming byte and
\* the wire alone.
LEMMA ChainKept ==
  ASSUME ChainInv, UNCHANGED <<wire, slave, line, got, prev>>, Upcoming' = Upcoming
  PROVE  ChainInv'
<1>1. \A i : Ahead(i)' = Ahead(i)
  BY DEF Ahead
<1>2. QED BY <1>1 DEF ChainInv

\* The byte that is to be written next remains so until it is written.
LEMMA UpcomingKept ==
  ASSUME TypeOK, OwnerInv, MainStep \/ Signal \/ Check \/ Build \/ EndTick
  PROVE  Upcoming' = Upcoming
<1>1. CASE MainStep
  <2>1. CASE Start
    BY <2>1 DEF Start, Goes, OwnerInv, writerVars, Upcoming
  <2>2. CASE ~Start
    BY <1>1, <2>2 DEF MainStep, OpenPty, OpenPtyThrows, ProbeReady, ProbeFails, Leave, Stop,
                      Join, Close, writerVars, Upcoming
  <2>3. QED BY <2>1, <2>2
<1>2. CASE Signal
  BY <1>2 DEF Signal, writerVars, Upcoming
<1>3. CASE Check
  <2>1. CASE running
    <3>1. worker' = "turn" /\ tick' = (tick + 1) % Cycle /\ at' = 1
            /\ worker \notin {"write", "turn"}
      BY <1>3, <2>1 DEF Check
    <3>2. tick' \in 0 .. Cycle - 1
      BY <3>1 DEF TypeOK, Cycle
    <3>3. 1 \in Due(tick', 1)
      BY <3>2 DEF Due, Channels, Every, Cycle
    <3>4. Min(Due(tick', 1)) = 1
      <4>1. Due(tick', 1) \in SUBSET Channels
        BY DEF Due
      <4>2. Min(Due(tick', 1)) \in Channels /\ Min(Due(tick', 1)) <= 1
        BY <3>3, <4>1, FirstChannel
      <4>3. QED BY <4>2 DEF Channels
    <3>5. QED BY <3>1, <3>3, <3>4 DEF Upcoming
  <2>2. CASE ~running
    BY <1>3, <2>2 DEF Check, Upcoming
  <2>3. QED BY <2>1, <2>2
<1>4. CASE Build
  <2>1. Upcoming = FirstByte(tick, Min(Due(tick, at)))
    BY <1>4 DEF Build, Upcoming
  <2>2. Upcoming' = [tick |-> tick, channel |-> Min(Due(tick, at)), place |-> Length + 1 - Length]
    BY <1>4 DEF Build, Upcoming
  <2>3. QED BY <2>1, <2>2, SimulatorAssumption DEF FirstByte
<1>5. CASE EndTick
  BY <1>5 DEF EndTick, writerVars, Upcoming
<1>6. QED BY <1>1, <1>2, <1>3, <1>4, <1>5

\* The bytes of one write() follow each other and begin with the upcoming one, and
\* the upcoming one afterwards follows the last.
LEMMA WriteChain ==
  ASSUME TypeOK, worker = "write", NEW n \in 1 .. remaining, remaining' = remaining - n,
         IF n = remaining THEN worker' = "turn" /\ at' = at + 1 ELSE UNCHANGED <<worker, at>>,
         UNCHANGED tick
  PROVE  LET bytes == Bytes(tick, at, Length + 1 - remaining, Length + n - remaining)
         IN  /\ bytes \in Seq(Byte) /\ Len(bytes) = n
             /\ bytes[1] = Upcoming
             /\ \A i \in 1 .. n - 1 : bytes[i + 1] = Follower(bytes[i])
             /\ Upcoming' = Follower(bytes[n])
<1> DEFINE bytes == Bytes(tick, at, Length + 1 - remaining, Length + n - remaining)
<1>1. /\ tick \in 0 .. Cycle - 1 /\ at \in Channels /\ remaining \in 1 .. Length
      /\ Length + 1 - remaining \in 1 .. Length
      /\ Length + n - remaining \in 0 .. Length
      /\ Length + 1 - remaining <= Length + n - remaining + 1
      /\ Length + n - remaining + 1 - (Length + 1 - remaining) = n
  BY SimulatorAssumption DEF TypeOK
<1>2. bytes \in Seq(Byte) /\ Len(bytes) = n
  BY <1>1, BytesType
<1>3. \A i \in 1 .. n :
        bytes[i] = [tick |-> tick, channel |-> at, place |-> Length - remaining + i]
  BY <1>1, SimulatorAssumption DEF Bytes
<1>4. bytes[1] = Upcoming
  BY <1>1, <1>3, SimulatorAssumption DEF Upcoming
<1>5. \A i \in 1 .. n - 1 : bytes[i + 1] = Follower(bytes[i])
  <2> SUFFICES ASSUME NEW i \in 1 .. n - 1 PROVE bytes[i + 1] = Follower(bytes[i])
    OBVIOUS
  <2>1. i \in 1 .. n /\ i + 1 \in 1 .. n /\ Length - remaining + i < Length
          /\ Length - remaining + (i + 1) = Length - remaining + i + 1
    BY <1>1, SimulatorAssumption
  <2>2. /\ bytes[i] = [tick |-> tick, channel |-> at, place |-> Length - remaining + i]
        /\ bytes[i + 1] = [tick |-> tick, channel |-> at, place |-> Length - remaining + i + 1]
    BY <1>3, <2>1
  <2>3. QED BY <2>1, <2>2 DEF Follower
<1>6. Upcoming' = Follower(bytes[n])
  <2>1. bytes[n] = [tick |-> tick, channel |-> at, place |-> Length - remaining + n]
    BY <1>3
  <2>2. CASE n = remaining
    <3>1. Follower(bytes[n]) = FirstByte(Following(tick, at)[1], Following(tick, at)[2])
      BY <1>1, <2>1, <2>2, SimulatorAssumption DEF Follower
    <3>2. Upcoming' = IF Due(tick, at + 1) # {} THEN FirstByte(tick, Min(Due(tick, at + 1)))
                      ELSE FirstByte((tick + 1) % Cycle, 1)
      BY <2>2 DEF Upcoming
    <3>3. QED BY <3>1, <3>2 DEF Following
  <2>3. CASE n # remaining
    BY <1>1, <2>1, <2>3, SimulatorAssumption DEF Follower, Upcoming
  <2>4. QED BY <2>2, <2>3
<1>7. QED BY <1>2, <1>4, <1>5, <1>6

\* ChainInv is kept when the thread writes.
LEMMA WriteKeepsChain == TypeOK /\ ChainInv /\ Write => ChainInv'
<1> SUFFICES ASSUME TypeOK, ChainInv, Write PROVE ChainInv'
  OBVIOUS
<1>1. PICK n \in 1 .. remaining :
        /\ LET bytes == Bytes(tick, at, Length + 1 - remaining, Length + n - remaining)
           IN  wire' = wire \o (IF slave THEN bytes ELSE Stale(bytes))
        /\ remaining' = remaining - n
        /\ IF n = remaining THEN worker' = "turn" /\ at' = at + 1 ELSE UNCHANGED <<worker, at>>
  BY DEF Write
<1> DEFINE bytes == Bytes(tick, at, Length + 1 - remaining, Length + n - remaining)
<1>2. /\ bytes \in Seq(Byte) /\ Len(bytes) = n
      /\ bytes[1] = Upcoming
      /\ \A i \in 1 .. n - 1 : bytes[i + 1] = Follower(bytes[i])
      /\ Upcoming' = Follower(bytes[n])
  BY <1>1, WriteChain DEF Write
<1>3. UNCHANGED <<slave, line, got, prev>> /\ n \in Nat \ {0}
  BY DEF Write, readerVars, TypeOK
<1>4. wire \in Seq(Byte) /\ line \in Seq(Byte) /\ Len(wire) \in Nat /\ Len(line) \in Nat
  BY DEF TypeOK
<1> HIDE DEF bytes
<1>5. CASE slave
  <2>1. wire' = wire \o bytes
    BY <1>1, <1>5 DEF bytes
  <2>2. /\ Len(wire') = Len(wire) + n
        /\ \A i \in 1 .. Len(wire) : wire'[i] = wire[i]
        /\ \A i \in 1 .. n : wire'[Len(wire) + i] = bytes[i]
    <3>1. /\ Len(wire') = Len(wire) + n
          /\ \A j \in 1 .. Len(wire) + n :
               wire'[j] = IF j <= Len(wire) THEN wire[j] ELSE bytes[j - Len(wire)]
      BY <1>2, <1>4, <2>1, ConcatProperties
    <3>2. ASSUME NEW i \in 1 .. n PROVE wire'[Len(wire) + i] = bytes[i]
      <4>1. Len(wire) + i \in 1 .. Len(wire) + n /\ ~(Len(wire) + i <= Len(wire))
              /\ Len(wire) + i - Len(wire) = i
        BY <1>3, <1>4
      <4>2. QED BY <3>1, <4>1
    <3>3. ASSUME NEW i \in 1 .. Len(wire) PROVE wire'[i] = wire[i]
      BY <1>3, <1>4, <3>1
    <3>4. QED BY <3>1, <3>2, <3>3
  <2>0. PICK before \in Nat : before = Len(line) + Len(wire)
    BY <1>4
  <2>3. \A i \in 1 .. before : Ahead(i)' = Ahead(i)
    BY <1>3, <1>4, <2>0, <2>2 DEF Ahead
  <2>4. \A i \in 1 .. n : Ahead(before + i)' = bytes[i]
    <3> SUFFICES ASSUME NEW i \in 1 .. n PROVE Ahead(before + i)' = bytes[i]
      OBVIOUS
    <3>1. /\ ~(before + i <= Len(line')) /\ before + i <= Len(line') + Len(wire')
          /\ before + i - Len(line') = Len(wire) + i
      BY <1>3, <1>4, <2>0, <2>2
    <3>2. Ahead(before + i)' = wire'[before + i - Len(line')]
      BY <3>1 DEF Ahead
    <3>3. QED BY <2>2, <3>1, <3>2
  <2>5. Ahead(before + n + 1)' = Follower(bytes[n]) /\ Ahead(before + 1) = Upcoming
    BY <1>2, <1>3, <1>4, <2>0, <2>2 DEF Ahead
  <2>6. ASSUME NEW i \in 1 .. before + n, Ahead(i)'.channel # 0
        PROVE  Ahead(i + 1)' = Follower(Ahead(i))'
    <3>1. Follower(Ahead(i))' = Follower(Ahead(i)')
      BY DEF Follower
    <3>2. CASE i < before
      BY <1>4, <2>0, <2>3, <2>6, <3>1, <3>2 DEF ChainInv
    <3>3. CASE i = before
      <4>1. before \in 1 .. before /\ 1 \in 1 .. n
        BY <1>3, <1>4, <2>0, <3>3
      <4>2. Ahead(i + 1)' = bytes[1] /\ Ahead(i)' = Ahead(before)
        BY <2>3, <2>4, <3>3, <4>1
      <4>3. Ahead(before + 1) = Follower(Ahead(before))
        BY <2>0, <2>6, <3>3, <4>1, <4>2 DEF ChainInv
      <4>4. QED BY <1>2, <2>5, <3>1, <4>2, <4>3
    <3>4. CASE i \in before + 1 .. before + n - 1
      <4>1. /\ i - before \in 1 .. n - 1 /\ i - before + 1 \in 1 .. n
            /\ before + (i - before) = i /\ before + (i - before + 1) = i + 1
        BY <1>3, <1>4, <2>0, <3>4
      <4> DEFINE k == i - before
      <4>2. Ahead(i)' = bytes[k] /\ Ahead(i + 1)' = bytes[k + 1] /\ k \in 1 .. n - 1
        <5>1. Ahead(before + k)' = bytes[k] /\ Ahead(before + (k + 1))' = bytes[k + 1]
          <6>1. k \in 1 .. n /\ k + 1 \in 1 .. n
            BY <1>3, <1>4, <2>0, <4>1
          <6> HIDE DEF k
          <6>2. QED BY <2>4, <6>1
        <5>2. QED BY <4>1, <5>1
      <4> HIDE DEF k
      <4>3. QED BY <1>2, <3>1, <4>2
    <3>5. CASE i = before + n
      <4>1. n \in 1 .. n /\ before + n + 1 = i + 1
        BY <1>3, <1>4, <2>0, <3>5
      <4>2. Ahead(i)' = bytes[n]
        BY <2>4, <3>5, <4>1
      <4>3. QED BY <2>5, <3>1, <4>1, <4>2
    <3>6. QED BY <1>3, <1>4, <2>0, <3>2, <3>3, <3>4, <3>5
  <2>7. Ahead(1)' = Ahead(1)
    <3>1. CASE before = 0
      <4>1. 1 \in 1 .. n /\ before + 1 = 1
        BY <1>3, <3>1
      <4>2. QED BY <1>2, <2>4, <2>5, <4>1
    <3>2. CASE before # 0
      <4>1. 1 \in 1 .. before
        BY <1>4, <2>0, <3>2
      <4>2. QED BY <2>3, <4>1
    <3>3. QED BY <3>1, <3>2
  <2>8. got # <<>> => Ahead(1)' = Follower(got[Len(got)])
    BY <2>7 DEF ChainInv
  <2>9. Len(line') + Len(wire') = before + n
    BY <1>3, <1>4, <2>0, <2>2
  <2>10. QED BY <1>3, <1>5, <2>6, <2>8, <2>9 DEF ChainInv, Follower
<1>6. CASE ~slave
  <2>1. /\ Stale(bytes) \in Seq(Byte) /\ Len(Stale(bytes)) = n
        /\ \A i \in 1 .. n : Stale(bytes)[i].channel = 0
    <3>1. \A i \in 1 .. n : i \in DOMAIN bytes
      BY <1>2, <1>3
    <3>2. QED BY <1>2, <3>1, StaleType DEF Stale
  <2>2. wire' = wire \o Stale(bytes)
    BY <1>1, <1>6 DEF bytes
  <2>3. wire' \in Seq(Byte) /\ \A i \in 1 .. Len(wire') : wire'[i].channel = 0
    BY <1>3, <1>4, <1>6, <2>1, <2>2, ConcatProperties DEF ChainInv
  <2>4. line' = <<>> /\ Len(line') = 0 /\ got' = <<>> /\ ~slave'
    BY <1>3, <1>6 DEF ChainInv
  <2>5. Len(wire') \in Nat /\ \A i \in 1 .. Len(wire') : Ahead(i)' = wire'[i]
    BY <2>3, <2>4 DEF Ahead
  <2>6. QED BY <2>3, <2>4, <2>5 DEF ChainInv
<1>7. QED BY <1>5, <1>6

\* When nobody has the slave open there is nothing to keep.
Nobody == /\ line = <<>> /\ got = <<>> /\ wire \in Seq(Byte)
          /\ \A i \in 1 .. Len(wire) : wire[i].channel = 0

\* Between two sessions there is no chain to keep.
LEMMA NobodyChain == Nobody => ChainInv
<1> SUFFICES ASSUME Nobody PROVE ChainInv
  OBVIOUS
<1> USE DEF Nobody
<1>1. Len(line) = 0 /\ Len(wire) \in Nat
  BY EmptySeq
<1>2. \A i \in 1 .. Len(wire) : Ahead(i) = wire[i]
  BY <1>1 DEF Ahead
<1>3. QED BY <1>1, <1>2 DEF ChainInv

\* ChainInv is kept when the reader opens or closes the slave.
LEMMA SessionKeepsChain == TypeOK /\ ChainInv /\ (SlaveOpens \/ SlaveCloses) => ChainInv'
<1> SUFFICES ASSUME TypeOK, ChainInv, SlaveOpens \/ SlaveCloses PROVE ChainInv'
  OBVIOUS
<1>1. CASE SlaveOpens
  <2>1. Nobody'
    BY <1>1 DEF SlaveOpens, ChainInv, TypeOK, Nobody
  <2>2. QED BY <2>1, NobodyChain, PTL
<1>2. CASE SlaveCloses
  <2>1. Stale(wire) \in Seq(Byte) /\ Len(Stale(wire)) = Len(wire)
    BY StaleType DEF TypeOK
  <2>2. \A i \in 1 .. Len(wire) : Stale(wire)[i].channel = 0
    BY DEF TypeOK, Stale
  <2>3. <<>> \in Seq(Byte) /\ Len(<<>>) = 0
    BY EmptySeq
  <2>4. line' = <<>> /\ got' = <<>> /\ (wire' = Stale(wire) \/ wire' = <<>>)
    BY <1>2 DEF SlaveCloses
  <2>5. wire' \in Seq(Byte) /\ \A i \in 1 .. Len(wire') : wire'[i].channel = 0
    <3>1. CASE wire' = Stale(wire)
      BY <2>1, <2>2, <3>1
    <3>2. CASE wire' = <<>>
      BY <2>3, <3>2
    <3>3. QED BY <2>4, <3>1, <3>2
  <2>6. Nobody'
    BY <2>4, <2>5 DEF Nobody
  <2>7. QED BY <2>6, NobodyChain, PTL
<1>3. QED BY <1>1, <1>2

\* ChainInv is kept when the reader reads a byte.
LEMMA ReadKeepsChain == TypeOK /\ ChainInv /\ SlaveReads => ChainInv'
<1> SUFFICES ASSUME TypeOK, ChainInv, SlaveReads PROVE ChainInv'
  OBVIOUS
<1> DEFINE whole == Append(line, Head(wire))
<1>1. /\ wire \in Seq(Byte) /\ line \in Seq(Byte) /\ got \in Seq(Byte)
      /\ Len(wire) \in Nat \ {0} /\ Len(line) \in Nat /\ Head(wire) = wire[1]
      /\ wire[1] \in Byte
  BY EmptySeq DEF TypeOK, SlaveReads
<1>2. /\ Len(wire') = Len(wire) - 1
      /\ \A i \in 1 .. Len(wire) - 1 : wire'[i] = wire[i + 1]
  BY <1>1 DEF SlaveReads
<1>3. /\ whole \in Seq(Byte) /\ Len(whole) = Len(line) + 1
      /\ \A i \in 1 .. Len(line) : whole[i] = line[i]
      /\ whole[Len(line) + 1] = wire[1]
  BY <1>1
<1>4. Upcoming' = Upcoming /\ slave /\ slave'
  BY DEF SlaveReads, writerVars, Upcoming, TypeOK
<1>5. \A i \in 1 .. Len(line) + 1 : Ahead(i) = whole[i]
  BY <1>1, <1>3 DEF Ahead
\* A line whose first byte is not stale holds bytes of one sentence, in order.
<1>6. line # <<>> /\ line[1].channel # 0 =>
        wire[1] = [tick |-> line[1].tick, channel |-> line[1].channel,
                   place |-> line[1].place + Len(line)]
  <2> SUFFICES ASSUME line # <<>>, line[1].channel # 0
               PROVE  wire[1] = [tick |-> line[1].tick, channel |-> line[1].channel,
                                 place |-> line[1].place + Len(line)]
    OBVIOUS
  <2>1. Len(line) \in 1 .. Len(line) /\ Len(line) \in 1 .. Len(line) + Len(wire)
    BY <1>1, EmptySeq
  <2>2. Ahead(Len(line)) = line[Len(line)] /\ Ahead(Len(line) + 1) = wire[1]
    BY <1>3, <1>5, <2>1
  <2>3. /\ line[Len(line)].place < Length
        /\ line[Len(line)] = [tick |-> line[1].tick, channel |-> line[1].channel,
                              place |-> line[1].place + Len(line) - 1]
    BY <2>1 DEF ChainInv
  <2>4. wire[1] = Follower(line[Len(line)])
    BY <2>1, <2>2, <2>3 DEF ChainInv
  <2>5. line[1].place \in Nat
    <3>1. line[1] \in Byte
      BY <1>1, <2>1, ElementOfSeq
    <3>2. QED BY <3>1, SimulatorAssumption DEF Byte
  <2>6. line[1].place + Len(line) - 1 + 1 = line[1].place + Len(line)
    BY <1>1, <2>5
  <2>7. QED BY <2>3, <2>4, <2>6 DEF Follower
<1>7. ASSUME whole[1].channel # 0, NEW i \in 1 .. Len(line) + 1
      PROVE  whole[i] = [tick |-> whole[1].tick, channel |-> whole[1].channel,
                         place |-> whole[1].place + i - 1]
  <2>1. whole[1] \in Byte /\ whole[1].place \in Nat
    <3>1. whole[1] \in Byte
      BY <1>1, <1>3, ElementOfSeq
    <3>2. QED BY <3>1, SimulatorAssumption DEF Byte
  <2>2. CASE line = <<>>
    <3>1. i = 1 /\ Len(line) = 0
      BY <2>2, EmptySeq
    <3>2. QED BY <2>1, <3>1 DEF Byte
  <2>3. CASE line # <<>>
    <3>1. 1 \in 1 .. Len(line) /\ whole[1] = line[1]
      BY <1>1, <1>3, <2>3, EmptySeq
    <3>2. CASE i \in 1 .. Len(line)
      BY <1>3, <1>7, <3>1, <3>2 DEF ChainInv
    <3>3. CASE i = Len(line) + 1
      <4>1. whole[i] = wire[1] /\ whole[1].place + i - 1 = line[1].place + Len(line)
        BY <1>1, <1>3, <2>1, <3>1, <3>3
      <4>2. QED BY <1>6, <1>7, <2>3, <3>1, <4>1
    <3>4. QED BY <1>1, <3>2, <3>3
  <2>4. QED BY <2>2, <2>3
<1> HIDE DEF whole
<1>8. CASE wire[1].place < Length
  <2>1. line' = whole /\ UNCHANGED <<got, prev>>
    BY <1>1, <1>8 DEF SlaveReads, whole
  <2>2. PICK before \in Nat : before = Len(line) + Len(wire)
    BY <1>1
  <2>3. Len(line') + Len(wire') = before /\ Len(line') = Len(line) + 1
    BY <1>1, <1>2, <1>3, <2>1, <2>2
  <2>4. ASSUME NEW i \in 1 .. before + 1 PROVE Ahead(i)' = Ahead(i)
    <3>1. CASE i \in 1 .. Len(line) + 1
      <4>1. Ahead(i)' = whole[i]
        BY <1>1, <2>1, <2>3, <3>1 DEF Ahead
      <4>2. QED BY <1>5, <3>1, <4>1
    <3>2. CASE i > Len(line) + 1 /\ i <= before
      <4>1. Ahead(i)' = wire'[i - (Len(line) + 1)]
        BY <1>1, <2>2, <2>3, <3>2 DEF Ahead
      <4>2. i - (Len(line) + 1) \in 1 .. Len(wire) - 1
              /\ i - (Len(line) + 1) + 1 = i - Len(line)
        BY <1>1, <2>2, <3>2
      <4>3. Ahead(i)' = wire[i - Len(line)]
        BY <1>2, <4>1, <4>2
      <4>4. QED BY <1>1, <2>2, <3>2, <4>3 DEF Ahead
    <3>3. CASE i = before + 1
      BY <1>1, <1>4, <2>2, <2>3, <3>3 DEF Ahead
    <3>4. QED BY <1>1, <2>2, <3>1, <3>2, <3>3
  <2>5. ASSUME NEW i \in 1 .. before, Ahead(i)'.channel # 0
        PROVE  Ahead(i + 1)' = Follower(Ahead(i))'
    <3>1. i \in 1 .. before + 1 /\ i + 1 \in 1 .. before + 1
      OBVIOUS
    <3>2. Ahead(i)' = Ahead(i) /\ Ahead(i + 1)' = Ahead(i + 1)
      BY <2>4, <3>1
    <3>3. QED BY <2>2, <2>5, <3>2 DEF ChainInv, Follower
  <2>6. ASSUME NEW i \in 1 .. Len(line) + 1
        PROVE  /\ line'[i].place < Length
               /\ line'[1].channel # 0 =>
                    line'[i] = [tick |-> line'[1].tick, channel |-> line'[1].channel,
                                place |-> line'[1].place + i - 1]
    <3>1. whole[i].place < Length
      <4>1. CASE i = Len(line) + 1
        BY <1>3, <1>8, <4>1
      <4>2. CASE i \in 1 .. Len(line)
        BY <1>3, <4>2 DEF ChainInv
      <4>3. QED BY <1>1, <4>1, <4>2
    <3>2. QED BY <1>7, <2>1, <3>1
  <2>7. Ahead(1)' = Ahead(1)
    BY <2>4
  <2>8. got' # <<>> =>
          /\ Ahead(1)' = Follower(got[Len(got)])
          /\ prev' # <<>> => prev'[1].place = Length /\ got'[1] = Follower(prev[1])
          /\ got'[1].place + Len(got') - 1 = Length
          /\ \A i \in 1 .. Len(got') :
               got'[i] = [tick |-> got'[1].tick, channel |-> got'[1].channel,
                          place |-> got'[1].place + i - 1]
    BY <2>1, <2>7 DEF ChainInv
  <2>9. QED BY <1>4, <2>1, <2>3, <2>5, <2>6, <2>8 DEF ChainInv, Follower
<1>9. CASE ~(wire[1].place < Length)
  <2>1. /\ line' = <<>> /\ Len(line') = 0
        /\ got' = IF \E i \in DOMAIN whole : whole[i].channel = 0 THEN <<>> ELSE whole
        /\ prev' = IF got = <<>> THEN <<>> ELSE <<got[Len(got)]>>
    BY <1>1, <1>9, EmptySeq DEF SlaveReads, whole
  <2>2. PICK start \in Nat : start = Len(line) + 1
    BY <1>1
  <2>3. ASSUME NEW i \in 1 .. Len(wire) PROVE Ahead(i)' = Ahead(start + i)
    <3>1. CASE i <= Len(wire) - 1
      <4>1. Ahead(i)' = wire'[i]
        BY <1>1, <1>2, <2>1, <3>1 DEF Ahead
      <4>2. Ahead(start + i) = wire[i + 1]
        <5>1. ~(start + i <= Len(line)) /\ start + i <= Len(line) + Len(wire)
                /\ start + i - Len(line) = i + 1
          BY <1>1, <2>2, <3>1
        <5>2. QED BY <5>1 DEF Ahead
      <4>3. QED BY <1>2, <3>1, <4>1, <4>2
    <3>2. CASE i = Len(wire)
      <4>1. ~(start + i <= Len(line)) /\ ~(start + i <= Len(line) + Len(wire))
              /\ ~(i <= Len(line')) /\ ~(i <= Len(line') + Len(wire'))
        BY <1>1, <1>2, <2>1, <2>2, <3>2
      <4>2. QED BY <1>4, <4>1 DEF Ahead
    <3>3. QED BY <1>1, <3>1, <3>2
  <2>4. PICK more \in Nat : more = Len(wire) - 1 /\ Len(line') + Len(wire') = more
    BY <1>1, <1>2, <2>1
  <2>5. ASSUME NEW i \in 1 .. more, Ahead(i)'.channel # 0
        PROVE  Ahead(i + 1)' = Follower(Ahead(i))'
    <3>1. i \in 1 .. Len(wire) /\ i + 1 \in 1 .. Len(wire)
      BY <1>1, <2>4
    <3>2. Ahead(i)' = Ahead(start + i) /\ Ahead(i + 1)' = Ahead(start + (i + 1))
      BY <2>3, <3>1
    <3>3. start + i \in 1 .. Len(line) + Len(wire) /\ start + (i + 1) = start + i + 1
      BY <1>1, <2>2, <2>4
    <3>4. Ahead(start + i).channel # 0
      BY <2>5, <3>2
    <3>5. Ahead(start + i + 1) = Follower(Ahead(start + i))
      BY <3>3, <3>4 DEF ChainInv
    <3>6. QED BY <3>2, <3>3, <3>5 DEF Follower
  <2>6. ASSUME got' # <<>>
        PROVE  /\ Ahead(1)' = Follower(got'[Len(got')])
               /\ prev' # <<>> => prev'[1].place = Length /\ got'[1] = Follower(prev'[1])
               /\ got'[1].place + Len(got') - 1 = Length
               /\ \A i \in 1 .. Len(got') :
                    got'[i] = [tick |-> got'[1].tick, channel |-> got'[1].channel,
                               place |-> got'[1].place + i - 1]
    <3>1. got' = whole /\ \A i \in 1 .. Len(line) + 1 : whole[i].channel # 0
      BY <1>3, <2>1, <2>6
    <3>2. whole[1].channel # 0 /\ start \in 1 .. Len(line) + 1
            /\ 1 \in 1 .. Len(line) + 1
      BY <1>1, <2>2, <3>1
    <3>3. \A i \in 1 .. Len(line) + 1 :
            whole[i] = [tick |-> whole[1].tick, channel |-> whole[1].channel,
                        place |-> whole[1].place + i - 1]
      BY <1>7, <3>2
    <3>4. whole[start] = wire[1] /\ Len(whole) = start
      BY <1>3, <2>2
    <3>5. wire[1].place = Length
      BY <1>1, <1>9, SimulatorAssumption DEF Byte
    <3>6. got'[1].place + Len(got') - 1 = Length
      BY <2>2, <3>1, <3>2, <3>3, <3>4, <3>5
    <3>7. Ahead(1)' = Follower(got'[Len(got')])
      <4>1. Ahead(1)' = Ahead(start + 1) /\ Ahead(start) = whole[start]
        BY <1>1, <1>5, <2>2, <2>3, <3>2
      <4>2. Ahead(start).channel # 0 /\ start \in 1 .. Len(line) + Len(wire)
        BY <1>1, <2>2, <3>1, <3>2, <4>1
      <4>3. Ahead(start + 1) = Follower(Ahead(start))
        BY <4>2 DEF ChainInv
      <4>4. QED BY <3>1, <3>4, <4>1, <4>3
    <3>8. prev' # <<>> => prev'[1].place = Length /\ got'[1] = Follower(prev'[1])
      <4> SUFFICES ASSUME prev' # <<>>
                   PROVE  prev'[1].place = Length /\ got'[1] = Follower(prev'[1])
        OBVIOUS
      <4>1. got # <<>> /\ prev' = <<got[Len(got)]>>
        BY <2>1
      <4>2. prev'[1] = got[Len(got)]
        BY <4>1
      <4>3. Ahead(1) = Follower(got[Len(got)]) /\ Ahead(1) = whole[1]
        BY <1>5, <3>2, <4>1 DEF ChainInv
      <4>4. got[Len(got)].place = Length
        <5>1. Len(got) \in 1 .. Len(got)
          BY <1>1, <4>1, EmptySeq
        <5>2. got[Len(got)] = [tick |-> got[1].tick, channel |-> got[1].channel,
                               place |-> got[1].place + Len(got) - 1]
          BY <4>1, <5>1 DEF ChainInv
        <5>3. got[1].place + Len(got) - 1 = Length
          BY <4>1 DEF ChainInv
        <5>4. QED BY <5>2, <5>3
      <4>5. QED BY <3>1, <4>2, <4>3, <4>4
    <3>9. QED BY <1>3, <3>1, <3>3, <3>6, <3>7, <3>8
  <2>7. QED BY <1>4, <2>1, <2>4, <2>5, <2>6 DEF ChainInv, Follower
<1>10. QED BY <1>8, <1>9

\* A reader that stays gets the schedule without a gap, whole sentences alone in
\* their lines, for every length of a sentence and every size of the pseudoterminal.
THEOREM ScheduleAlwaysArrives == Spec => []ScheduleArrives
<1>1. Init => ChainInv
  <2> SUFFICES ASSUME Init PROVE ChainInv
    OBVIOUS
  <2>1. <<>> \in Seq(Byte) /\ Len(<<>>) = 0
    BY EmptySeq
  <2>2. Nobody
    BY <2>1 DEF Init, Nobody
  <2>3. QED BY <2>2, NobodyChain
<1>2. TypeOK /\ OwnerInv /\ ChainInv /\ [Next]_vars => ChainInv'
  <2> SUFFICES ASSUME TypeOK, OwnerInv, ChainInv, [Next]_vars PROVE ChainInv'
    OBVIOUS
  <2>1. CASE MainStep \/ Signal \/ Check \/ Build \/ EndTick
    <3>1. UNCHANGED <<wire, slave, line, got, prev>>
      <4>1. CASE MainStep
        BY <4>1 DEF MainStep, OpenPty, OpenPtyThrows, ProbeReady, ProbeFails, Start, Leave,
                    Stop, Join, Close, readerVars
      <4>2. CASE Signal \/ Check \/ Build \/ EndTick
        BY <4>2 DEF Signal, Check, Build, EndTick, readerVars
      <4>3. QED BY <2>1, <4>1, <4>2
    <3>2. QED BY <2>1, <3>1, UpcomingKept, ChainKept
  <2>2. CASE Write
    BY <2>2, WriteKeepsChain
  <2>3. CASE WriteFails
    <3>1. Nobody'
      BY <2>3 DEF WriteFails, readerVars, Nobody, ChainInv, TypeOK
    <3>2. QED BY <3>1, NobodyChain, PTL
  <2>4. CASE SlaveOpens \/ SlaveCloses
    BY <2>4, SessionKeepsChain
  <2>5. CASE SlaveReads
    BY <2>5, ReadKeepsChain
  <2>6. CASE ReaderEnds \/ UNCHANGED vars
    <3>1. UNCHANGED <<wire, slave, line, got, prev>> /\ Upcoming' = Upcoming
      BY <2>6 DEF ReaderEnds, vars, readerVars, writerVars, Upcoming
    <3>2. QED BY <3>1, ChainKept
  <2>7. QED BY <2>1, <2>2, <2>3, <2>4, <2>5, <2>6 DEF Next, WorkerStep
<1>3. TypeOK /\ ChainInv => ScheduleArrives
  <2> SUFFICES ASSUME TypeOK, ChainInv, got # <<>>, prev # <<>>,
                      NEW now, now = Following(prev[1].tick, prev[1].channel)
               PROVE  got = Bytes(now[1], now[2], 1, Length)
    BY DEF ScheduleArrives
  <2>1. got[1] = FirstByte(now[1], now[2])
    BY SimulatorAssumption DEF ChainInv, Follower
  <2>2. got[1].tick = now[1] /\ got[1].channel = now[2] /\ got[1].place = 1
    BY <2>1 DEF FirstByte
  <2>3. /\ Len(got) = Length
        /\ \A i \in 1 .. Length : got[i] = [tick |-> now[1], channel |-> now[2], place |-> i]
    <3>1. Len(got) \in Nat /\ 1 + Len(got) - 1 = Length
      BY <2>2 DEF ChainInv, TypeOK
    <3>2. Len(got) = Length
      BY <3>1, SimulatorAssumption
    <3>3. \A i \in 1 .. Length : 1 + i - 1 = i
      OBVIOUS
    <3>4. QED BY <2>2, <3>2, <3>3 DEF ChainInv
  <2>4. got = [i \in 1 .. Length |-> got[i]]
    BY <2>3, LenProperties DEF TypeOK
  <2>5. Bytes(now[1], now[2], 1, Length) =
          [i \in 1 .. Length |-> [tick |-> now[1], channel |-> now[2], place |-> i]]
    <3>1. Length + 1 - 1 = Length /\ \A i \in 1 .. Length : 1 + i - 1 = i
      BY SimulatorAssumption
    <3>2. QED BY <3>1 DEF Bytes
  <2>6. QED BY <2>3, <2>4, <2>5
<1>4. QED BY <1>1, <1>2, <1>3, TypeCorrect, OwnerCorrect, PTL DEF Spec
==============================================================================
