------------------------------ MODULE Simulator -------------------------------
(***************************************************************************)
(* simulator/src: main() opens a pseudoterminal, starts the thread of a     *)
(* SensorSimulator, which writes sentences to the master, and stops it      *)
(* after SIGINT or SIGTERM.  Another process, the monitor, opens the slave, *)
(* reads it, may cease to read it, and closes it again.                     *)
(*                                                                         *)
(* A sentence is its place in the schedule and its bytes are numbered, the  *)
(* last being LF.  A write() that cannot write anything blocks, or returns  *)
(* EAGAIN and is made again after 1 ms: either way nothing changes.  That   *)
(* m_running is read relaxed makes no difference here, because stop() does  *)
(* nothing but wait after it has cleared it.                                *)
(***************************************************************************)
EXTENDS Naturals, Sequences, FiniteSetsExt

CONSTANTS Attempts,    \* probes of the slave before main() goes on without a reader
          Length,      \* the bytes of a sentence, CR LF included
          Room,        \* the bytes the pseudoterminal holds
          MaxSessions  \* bound: how often the slave is opened

ASSUME SimulatorAssumption == /\ Length \in Nat \ {0} /\ Room \in Nat \ {0}
                              /\ Attempts \in Nat /\ MaxSessions \in Nat

VARIABLES fd,         \* the master
          slave,      \* somebody has the slave open
          reading,    \* and has a thread that reads it
          sessions,   \* history: how often it has been opened
          wire,       \* the bytes between master and slave
          main, attempt, g_running,
          running,    \* m_running
          worker,     \* where emitLoop() is
          tick,       \* m_tick, modulo Cycle
          at,         \* the "if" of emitLoop() it is in or comes to next
          remaining,  \* writeSentence()'s remaining
          line,       \* the bytes of the line the reader is in
          got,        \* history: the reader's last line, <<>> if it has stale bytes
          prev        \* history: the last byte of the one before that

mainVars   == <<fd, main, attempt, running>>
writerVars == <<tick, at, remaining>>
readerVars == <<slave, reading, sessions, line, got, prev>>
vars == <<mainVars, g_running, worker, writerVars, wire, readerVars>>

\* kTickRpm, kTickTemp, kTickDepth, kTickWind twice, kTickFuel, kTickVibration and
\* kTickTorque, in the order of emitLoop(); after ten ticks the schedule repeats.
Every    == <<1, 10, 10, 5, 5, 5, 2, 2>>
Channels == 1 .. 8
Cycle    == 10

\* The channels that are due in tick t, from the c-th on.
Due(t, c) == {d \in Channels : d >= c /\ t % Every[d] = 0}

\* Of a byte that was written when nobody had the slave open, or that a reader left
\* on the wire, only the place in its sentence is kept: it is stale, of channel 0.
Byte == [tick : 0 .. Cycle - 1, channel : 0 .. 8, place : 1 .. Length]
Bytes(t, c, from, to) ==
  [i \in 1 .. to + 1 - from |-> [tick |-> t, channel |-> c, place |-> from + i - 1]]
Stale(s) == [i \in DOMAIN s |-> [tick |-> 0, channel |-> 0, place |-> s[i].place]]

TypeOK ==
  /\ fd \in {"none", "open", "closed"}
  /\ slave \in BOOLEAN /\ reading \in BOOLEAN /\ (reading => slave)
  /\ sessions \in 0 .. MaxSessions
  /\ wire \in Seq(Byte) /\ Len(wire) <= Room
  /\ main \in {"open", "probe", "start", "wait", "stop", "join", "close", "exit", "failed"}
  /\ attempt \in Nat /\ (attempt > 0 => attempt < Attempts)
  /\ g_running \in BOOLEAN /\ running \in BOOLEAN
  /\ worker \in {"none", "check", "turn", "write", "done"}
  /\ tick \in 0 .. Cycle - 1 /\ at \in 1 .. 9
  /\ remaining \in 0 .. Length
  /\ worker = "write" <=> remaining > 0
  /\ worker = "write" => at \in Channels
  /\ line \in Seq(Byte) /\ got \in Seq(Byte)
  /\ prev \in Seq(Byte) /\ Len(prev) <= 1

Init == /\ fd = "none" /\ main = "open" /\ attempt = 0
        /\ g_running = TRUE /\ running = FALSE
        /\ worker = "none" /\ tick = 0 /\ at = 1 /\ remaining = 0
        /\ slave = FALSE /\ reading = FALSE /\ sessions = 0 /\ wire = <<>>
        /\ line = <<>> /\ got = <<>> /\ prev = <<>>

------------------------------------------------------------------------------
(* main()                                                                    *)

Goes(from, to) == main = from /\ main' = to

OpenPty == /\ Goes("open", "probe")
           /\ fd' = "open"
           /\ UNCHANGED <<attempt, running, g_running, worker, writerVars, wire, readerVars>>

\* posix_openpt() fails, or something after it, and the master is closed again.
OpenPtyThrows ==
  /\ Goes("open", "failed")
  /\ fd' \in {"none", "closed"}
  /\ UNCHANGED <<attempt, running, g_running, worker, writerVars, wire, readerVars>>

\* A write of no bytes succeeds, or fails with anything but EIO.
ProbeReady == /\ Goes("probe", "start")
              /\ attempt' = 0
              /\ UNCHANGED <<fd, running, g_running, worker, writerVars, wire, readerVars>>

\* EIO: nobody has the slave open.  After the last attempt main() goes on anyway.
ProbeFails == /\ main = "probe" /\ ~slave
              /\ IF attempt + 1 < Attempts THEN attempt' = attempt + 1 /\ UNCHANGED main
                                           ELSE attempt' = 0 /\ main' = "start"
              /\ UNCHANGED <<fd, running, g_running, worker, writerVars, wire, readerVars>>

\* start()
Start == /\ Goes("start", "wait")
         /\ running' = TRUE /\ worker' = "check"
         /\ UNCHANGED <<fd, attempt, g_running, writerVars, wire, readerVars>>

\* onSignal()
Signal == /\ g_running' = FALSE
          /\ UNCHANGED <<mainVars, worker, writerVars, wire, readerVars>>

\* The loop of main() ends.
Leave == /\ Goes("wait", "stop")
         /\ ~g_running
         /\ UNCHANGED <<fd, attempt, running, g_running, worker, writerVars, wire, readerVars>>

\* stop()
Stop == /\ Goes("stop", "join")
        /\ running' = FALSE
        /\ UNCHANGED <<fd, attempt, g_running, worker, writerVars, wire, readerVars>>

\* (Mutant of Join: the thread is detached.)
Detach == /\ Goes("join", "close")
          /\ UNCHANGED <<fd, attempt, running, g_running, worker, writerVars, wire, readerVars>>

Join == /\ Goes("join", "close")
        /\ worker = "done"
        /\ UNCHANGED <<fd, attempt, running, g_running, worker, writerVars, wire, readerVars>>

Close == /\ Goes("close", "exit")
         /\ fd' = "closed"
         /\ UNCHANGED <<attempt, running, g_running, worker, writerVars, wire, readerVars>>

------------------------------------------------------------------------------
(* emitLoop() and writeSentence()                                            *)

\* (Mutant of Check: m_tick starts again before the channels of 1 Hz are due.)
CheckLate == /\ worker = "check"
             /\ worker' = IF running THEN "turn" ELSE "done"
             /\ tick' = IF running THEN (tick % (Cycle - 1)) + 1 ELSE tick
             /\ at' = 1
             /\ UNCHANGED <<mainVars, g_running, remaining, wire, readerVars>>

\* The loop condition, and ++m_tick.
Check == /\ worker = "check"
         /\ worker' = IF running THEN "turn" ELSE "done"
         /\ tick' = IF running THEN (tick + 1) % Cycle ELSE tick
         /\ at' = 1
         /\ UNCHANGED <<mainVars, g_running, remaining, wire, readerVars>>

\* The "if"s of the channels that are not due are passed; the sentence is built.
Build == /\ worker = "turn" /\ Due(tick, at) # {}
         /\ worker' = "write" /\ remaining' = Length
         /\ at' = Min(Due(tick, at))
         /\ UNCHANGED <<mainVars, g_running, tick, wire, readerVars>>

EndTick == /\ worker = "turn" /\ Due(tick, at) = {}
           /\ worker' = "check"
           /\ UNCHANGED <<mainVars, g_running, writerVars, wire, readerVars>>

\* (Mutant of Write: after a partial write the sentence begins again.)
WriteAgain ==
  /\ worker = "write"
  /\ \E n \in 1 .. remaining :
       /\ Len(wire) + n <= Room
       /\ LET bytes == Bytes(tick, at, Length + 1 - remaining, Length + n - remaining)
          IN  wire' = wire \o (IF slave THEN bytes ELSE Stale(bytes))
       /\ remaining' = IF n = remaining THEN 0 ELSE Length
       /\ IF n = remaining THEN worker' = "turn" /\ at' = at + 1 ELSE UNCHANGED <<worker, at>>
  /\ UNCHANGED <<mainVars, g_running, tick, readerVars>>

\* (Mutant of Write: the loop goes round once more after the last byte.)
WriteOnce ==
  /\ worker = "write" /\ remaining > 0
  /\ \E n \in 1 .. remaining :
       /\ Len(wire) + n <= Room
       /\ remaining' = remaining - n
       /\ wire' = wire \o Stale(Bytes(tick, at, 1, n))
  /\ UNCHANGED <<mainVars, g_running, worker, tick, at, readerVars>>

\* write() returned n.  After the last byte the sentence is done.
Write ==
  /\ worker = "write"
  /\ \E n \in 1 .. remaining :
       /\ Len(wire) + n <= Room
       /\ LET bytes == Bytes(tick, at, Length + 1 - remaining, Length + n - remaining)
          IN  wire' = wire \o (IF slave THEN bytes ELSE Stale(bytes))
       /\ remaining' = remaining - n
       /\ IF n = remaining THEN worker' = "turn" /\ at' = at + 1 ELSE UNCHANGED <<worker, at>>
  /\ UNCHANGED <<mainVars, g_running, tick, readerVars>>

\* (Mutant of WriteFails: any error is taken for EAGAIN.)
WriteNeverFails == FALSE

\* Another error: the rest of the sentence is given up, and the loop goes on.
WriteFails == /\ worker = "write" /\ ~slave
              /\ worker' = "turn" /\ at' = at + 1 /\ remaining' = 0
              /\ UNCHANGED <<mainVars, g_running, tick, wire, readerVars>>

------------------------------------------------------------------------------
(* The process at the other end.                                             *)

SlaveOpens ==
  /\ fd = "open" /\ ~slave /\ slave' = TRUE /\ reading' = TRUE
  /\ sessions < MaxSessions /\ sessions' = sessions + 1
  /\ UNCHANGED <<mainVars, g_running, worker, writerVars, wire, line, got, prev>>

\* One byte.  What is read from the wire is a line when it ends with LF.
SlaveReads ==
  /\ reading /\ wire # <<>>
  /\ wire' = Tail(wire)
  /\ IF Head(wire).place < Length
     THEN line' = Append(line, Head(wire)) /\ UNCHANGED <<got, prev>>
     ELSE /\ line' = <<>>
          /\ got'  = LET whole == Append(line, Head(wire))
                     IN  IF \E i \in DOMAIN whole : whole[i].channel = 0 THEN <<>> ELSE whole
          /\ prev' = IF got = <<>> THEN <<>> ELSE <<got[Len(got)]>>
  /\ UNCHANGED <<mainVars, g_running, worker, writerVars, slave, reading, sessions>>

\* Its reading thread ends on an error, as at SerialPortReader.cpp:67: the slave stays
\* open, and nobody reads it any more.
ReaderEnds ==
  /\ reading /\ reading' = FALSE
  /\ UNCHANGED <<mainVars, g_running, worker, writerVars, wire, slave, sessions, line, got, prev>>

\* What it has not read may be lost, or wait for the next one.
SlaveCloses ==
  /\ slave /\ slave' = FALSE /\ reading' = FALSE
  /\ wire' \in {Stale(wire), <<>>}
  /\ line' = <<>> /\ got' = <<>> /\ prev' = <<>>
  /\ UNCHANGED <<mainVars, g_running, worker, writerVars, sessions>>

------------------------------------------------------------------------------
MainStep == OpenPty \/ OpenPtyThrows \/ ProbeReady \/ ProbeFails \/ Start \/ Leave
            \/ Stop \/ Join \/ Close
WorkerStep == Check \/ Build \/ EndTick \/ Write \/ WriteFails

Next == MainStep \/ Signal \/ WorkerStep
        \/ SlaveOpens \/ SlaveReads \/ ReaderEnds \/ SlaveCloses

Spec == Init /\ [][Next]_vars

\* Both threads are scheduled, and so is a thread that reads the slave, while there is
\* one.  Whoever has the slave open need not keep such a thread; nobody has to open
\* the slave, close it, or send a signal.
FairSpec == Spec /\ WF_vars(MainStep) /\ WF_vars(WorkerStep) /\ WF_vars(SlaveReads)

------------------------------------------------------------------------------
\* The sentence after that of channel c in tick t.
Following(t, c) == IF Due(t, c + 1) # {} THEN <<t, Min(Due(t, c + 1))>>
                                         ELSE <<(t + 1) % Cycle, 1>>

\* A reader that stays gets the schedule without a gap: after a line of its own
\* session comes the next sentence, whole and alone in its line, however the writes
\* and the reads have cut it, and even if the line before was spoilt by a write that
\* failed, or by an earlier reader that took its beginning.
ScheduleArrives ==
  got # <<>> /\ prev # <<>> =>
    LET now == Following(prev[1].tick, prev[1].channel)
    IN  got = Bytes(now[1], now[2], 1, Length)

\* The thread writes to the master only while it is open: whenever the signal comes,
\* close() comes after the last write(), so that it never hits a descriptor number
\* that is reused; and main() ends without an open master or a running thread.
MasterOwned ==
  /\ worker \notin {"none", "done"} => fd = "open"
  /\ main \in {"exit", "failed"} => fd # "open" /\ worker \in {"none", "done"}

\* The one case in which stop() may wait for ever: a process that has the slave open
\* and neither reads nor closes it any more.  When the pseudoterminal is full, write()
\* then blocks, or returns EAGAIN in a loop that does not look at m_running.
SlaveAbandoned == <>[](slave /\ ~reading)

\* SensorSimulator.cpp:34-38, stop() joins a thread that may be in write(): unless the
\* slave is abandoned, the simulator ends after a signal, even if the pseudoterminal is
\* full, and also if the reader goes away in the middle of a sentence, or never came.
ShutdownEnds == SlaveAbandoned \/ (~g_running ~> main \in {"exit", "failed"})

\* SensorSimulator.hpp:19-27: each channel has its rate.  While a reader stays, goes on
\* reading, and nobody stops the simulator, it gets sentences of every channel again
\* and again.
EveryChannelFlows ==
  <>[](reading /\ g_running) => \A c \in Channels : []<>(got # <<>> /\ got[Len(got)].channel = c)
==============================================================================
