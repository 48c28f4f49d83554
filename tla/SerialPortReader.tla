--------------------------- MODULE SerialPortReader ---------------------------
(***************************************************************************)
(* serial/src/SerialPortReader.cpp: a thread that reads the serial port and *)
(* hands complete lines to a callback.  The owner calls start() and stop(); *)
(* m_running is atomic, but m_fd is a plain int that stop() closes and      *)
(* clears while the thread uses it.  Other threads of the process open and  *)
(* close files too, and the kernel gives a closed descriptor's number to    *)
(* the next file that is opened.                                            *)
(***************************************************************************)
EXTENDS Naturals, Sequences, FiniteSets

CONSTANTS Chars,      \* the bytes that are not CR or LF
          CR, LF,     \* the two bytes the loop looks at
          Fds,        \* descriptor numbers, from 1
          MaxStarts,  \* bound: calls of start()
          MaxChunk,   \* sizeof(buf)
          MaxBytes    \* bound: bytes read in one session

ASSUME ReaderAssumption == /\ CR # LF /\ CR \notin Chars /\ LF \notin Chars
                           /\ Fds \subseteq Nat \ {0}
                           /\ MaxStarts \in Nat /\ MaxBytes \in Nat
                           /\ MaxChunk \in Nat \ {0}

VARIABLES file,       \* what the kernel has open under each descriptor
          running,    \* m_running
          stale,      \* the thread may still read m_running as true
          fd,         \* m_fd; 0 stands for -1
          main,       \* where the owner is in stop()
          thread,     \* where readLoop() is; "none": m_thread is not joinable
          loaded,     \* the value of m_fd the thread passes to read()
          chunk,      \* the bytes of buf not yet looked at
          line,       \* readLoop()'s line
          starts,     \* history: calls of start()
          outcome,    \* history: how the last start() ended
          stream,     \* history: the bytes looked at in this session
          lines,      \* history: the lines given to the callback in this session
          foreign     \* history: read() has returned bytes of another file

ownerVars   == <<running, stale, fd, main, starts, outcome>>
readerVars  == <<loaded, chunk, line>>
historyVars == <<stream, lines, foreign>>
vars == <<file, thread, ownerVars, readerVars, historyVars>>

Bytes == Chars \cup {CR, LF}
NoFd  == 0

TypeOK ==
  /\ file \in [Fds -> {"free", "port", "other"}]
  /\ running \in BOOLEAN /\ stale \in BOOLEAN
  /\ fd \in Fds \cup {NoFd} /\ loaded \in Fds \cup {NoFd}
  /\ main \in {"idle", "close", "clear", "join"}
  /\ thread \in {"none", "check", "load", "read", "blocked", "bytes", "done"}
  /\ chunk \in Seq(Bytes) /\ Len(chunk) <= MaxChunk
  /\ thread = "bytes" <=> chunk # <<>>
  /\ line \in Seq(Bytes \ {LF})
  /\ starts \in 0 .. MaxStarts
  /\ outcome \in {"none", "reading", "ignored", "threw"}
  /\ stream \in Seq(Bytes)
  /\ lines \in Seq(Seq(Bytes \ {LF}))
  /\ foreign \in BOOLEAN

Init == /\ file = [d \in Fds |-> "free"]
        /\ running = FALSE /\ stale = FALSE
        /\ fd = NoFd /\ loaded = NoFd
        /\ main = "idle" /\ thread = "none"
        /\ chunk = <<>> /\ line = <<>>
        /\ starts = 0 /\ outcome = "none"
        /\ stream = <<>> /\ lines = <<>> /\ foreign = FALSE

------------------------------------------------------------------------------
(* The rest of the process.                                                  *)

\* The kernel gives the lowest free number.
Lowest(d) == file[d] = "free" /\ \A e \in Fds : file[e] = "free" => d <= e

OtherOpens == /\ \E d \in Fds : Lowest(d) /\ file' = [file EXCEPT ![d] = "other"]
              /\ UNCHANGED <<thread, ownerVars, readerVars, historyVars>>

OtherCloses == /\ \E d \in Fds : file[d] = "other" /\ file' = [file EXCEPT ![d] = "free"]
               /\ UNCHANGED <<thread, ownerVars, readerVars, historyVars>>

------------------------------------------------------------------------------
(* The owner.  No other thread uses the reader while start() runs.           *)

Begin == main = "idle" /\ starts < MaxStarts /\ starts' = starts + 1

\* start(): m_running.exchange(true) returned true.
StartIgnored == /\ Begin
                /\ running
                /\ outcome' = "ignored"
                /\ UNCHANGED <<file, running, stale, fd, main, thread, readerVars, historyVars>>

\* (Mutant of StartThrows: m_fd keeps the descriptor that has been closed.)
StartThrowsKeepsFd ==
  /\ Begin
  /\ ~running /\ running' = TRUE
  /\ fd' \in {NoFd} \cup {d \in Fds : Lowest(d)}
  /\ outcome' = "threw"
  /\ UNCHANGED <<file, stale, main, thread, readerVars, historyVars>>

\* start(): the port cannot be opened, or it is opened, cannot be configured, and
\* is closed again.  The exception leaves m_running true.
StartThrows == /\ Begin
               /\ ~running /\ running' = TRUE
               /\ fd' = NoFd
               /\ outcome' = "threw"
               /\ UNCHANGED <<file, stale, main, thread, readerVars, historyVars>>

\* start(): the port is open and configured, and the thread begins.
Start == /\ Begin
         /\ ~running /\ running' = TRUE
         /\ \E d \in Fds : Lowest(d) /\ fd' = d /\ file' = [file EXCEPT ![d] = "port"]
         /\ thread' = "check"
         /\ chunk' = <<>> /\ line' = <<>>
         /\ outcome' = "reading"
         /\ stream' = <<>> /\ lines' = <<>> /\ foreign' = FALSE
         /\ UNCHANGED <<stale, main, loaded>>

\* (Mutant of Stop: m_running is left alone.)
StopFdOnly == /\ main = "idle"
              /\ main' = IF fd = NoFd THEN "join" ELSE "close"
              /\ UNCHANGED <<file, running, stale, fd, thread, starts, outcome,
                             readerVars, historyVars>>

\* stop(), also called by the destructor: m_running.store(false).
Stop == /\ main = "idle"
        /\ running' = FALSE /\ stale' = TRUE
        /\ main' = IF fd = NoFd THEN "join" ELSE "close"
        /\ UNCHANGED <<file, fd, thread, starts, outcome, readerVars, historyVars>>

\* stop(): ::close(m_fd).
CloseFd == /\ main = "close"
           /\ file' = [file EXCEPT ![fd] = "free"]
           /\ main' = "clear"
           /\ UNCHANGED <<running, stale, fd, thread, starts, outcome, readerVars, historyVars>>

\* stop(): m_fd = -1.
ClearFd == /\ main = "clear"
           /\ fd' = NoFd
           /\ main' = "join"
           /\ UNCHANGED <<file, running, stale, thread, starts, outcome, readerVars, historyVars>>

\* stop(): m_thread.join() if it is joinable.
Join == /\ main = "join"
        /\ thread \in {"none", "done"}
        /\ thread' = "none"
        /\ stale' = FALSE
        /\ main' = "idle"
        /\ UNCHANGED <<file, running, fd, starts, outcome, readerVars, historyVars>>

------------------------------------------------------------------------------
(* readLoop()                                                                *)

\* An atomic store becomes visible to relaxed loads after a while.
Visible == /\ stale
           /\ stale' = FALSE
           /\ UNCHANGED <<file, running, fd, main, thread, starts, outcome,
                          readerVars, historyVars>>

\* The loop condition.
Check == /\ thread = "check"
         /\ \/ (running \/ stale) /\ thread' = "load"
            \/ ~running /\ thread' = "done"
         /\ UNCHANGED <<file, ownerVars, readerVars, historyVars>>

\* m_fd is read for the call of read().
LoadFd == /\ thread = "load"
          /\ loaded' = fd
          /\ thread' = "read"
          /\ UNCHANGED <<file, ownerVars, chunk, line, historyVars>>

Readable == loaded # NoFd /\ file[loaded] # "free"

\* read() returns n > 0.
Returns == /\ \E n \in 1 .. MaxChunk :
                /\ Len(stream) + n <= MaxBytes
                /\ chunk' \in [1 .. n -> Bytes]
           /\ thread' = "bytes"
           /\ UNCHANGED <<file, ownerVars, loaded, line, stream, lines>>

\* read() returned bytes, of the port or of what has its number now.
ReadData == /\ thread = "read" /\ Readable
            /\ foreign' = (foreign \/ file[loaded] = "other")
            /\ Returns

\* O_NONBLOCK is set on the port only.  Where another file has its number now, read()
\* may have to wait for that file, and closing the number does not wake it.
ReadBlocks == /\ thread = "read" /\ Readable
              /\ file[loaded] = "other"
              /\ thread' = "blocked"
              /\ UNCHANGED <<file, ownerVars, readerVars, historyVars>>

\* The other file has bytes, comes to its end, or fails: the read() that waits returns.
ReadWakes == /\ thread = "blocked"
             /\ \/ foreign' = TRUE /\ Returns
                \/ /\ thread' \in {"check", "done"}
                   /\ UNCHANGED <<file, ownerVars, readerVars, historyVars>>

\* (Mutant of ReadNothing: the test of n == 0 is gone.)
ReadZeroAsData == /\ thread = "read" /\ Readable
                  /\ thread' \in {"check", "bytes"}
                  /\ UNCHANGED <<file, ownerVars, readerVars, historyVars>>

\* read() returned 0, or -1 with EAGAIN: sleep and continue.
ReadNothing == /\ thread = "read" /\ Readable
               /\ thread' = "check"
               /\ UNCHANGED <<file, ownerVars, readerVars, historyVars>>

\* (Mutant of DeviceFails: the thread clears m_running when it leaves.)
DeviceFailsClears == /\ thread = "read" /\ Readable
                     /\ thread' = "done"
                     /\ running' = FALSE
                     /\ UNCHANGED <<file, stale, fd, main, starts, outcome,
                                    readerVars, historyVars>>

\* read() returned another error: the device is gone.  The loop ends.
DeviceFails == /\ thread = "read" /\ Readable
               /\ thread' = "done"
               /\ UNCHANGED <<file, ownerVars, readerVars, historyVars>>

\* (Mutant of BadDescriptor: EBADF is taken for EINTR, and read() is called again.)
BadDescriptorRetries == /\ thread = "read" /\ ~Readable
                        /\ thread' = "load"
                        /\ UNCHANGED <<file, ownerVars, readerVars, historyVars>>

\* read() of a descriptor that is not open any more: EBADF.  The loop ends.
BadDescriptor == /\ thread = "read" /\ ~Readable
                 /\ thread' = "done"
                 /\ UNCHANGED <<file, ownerVars, readerVars, historyVars>>

\* A trailing CR is stripped.
Stripped(l) == IF l # <<>> /\ l[Len(l)] = CR THEN SubSeq(l, 1, Len(l) - 1) ELSE l

Consume == /\ thread = "bytes"
           /\ stream' = Append(stream, Head(chunk))
           /\ chunk' = Tail(chunk)
           /\ thread' = IF chunk' = <<>> THEN "check" ELSE "bytes"
           /\ UNCHANGED <<file, ownerVars, loaded, foreign>>

\* A byte other than LF is added to the line.
Accumulate == /\ Consume
              /\ Head(chunk) # LF
              /\ line' = Append(line, Head(chunk))
              /\ UNCHANGED lines

\* (Mutant of Dispatch: the line is not cleared when it is empty after the strip.)
DispatchKeepsBlank ==
  /\ Consume
  /\ Head(chunk) = LF
  /\ lines' = IF Stripped(line) = <<>> THEN lines ELSE Append(lines, Stripped(line))
  /\ line' = IF Stripped(line) = <<>> THEN line ELSE <<>>

\* LF: the line goes to the callback, unless it is empty, and a new one begins.
Dispatch == /\ Consume
            /\ Head(chunk) = LF
            /\ lines' = IF Stripped(line) = <<>> THEN lines ELSE Append(lines, Stripped(line))
            /\ line' = <<>>

------------------------------------------------------------------------------
StopStep == CloseFd \/ ClearFd \/ Join
ReadStep == \/ Check \/ LoadFd
            \/ ReadData \/ ReadNothing \/ ReadBlocks \/ BadDescriptor
            \/ Accumulate \/ Dispatch

Next == \/ OtherOpens \/ OtherCloses
        \/ StartIgnored \/ StartThrows \/ Start \/ Stop
        \/ StopStep \/ Visible \/ ReadStep \/ ReadWakes \/ DeviceFails

Spec == Init /\ [][Next]_vars

\* The owner inside stop() and the thread are scheduled, and stores become visible.  The
\* port does not block, but a read() that waits for another file need not return, and
\* nobody makes the device fail.
FairSpec == Spec /\ WF_vars(StopStep) /\ WF_vars(ReadStep) /\ WF_vars(Visible)

------------------------------------------------------------------------------
\* The lines of a byte stream: from the beginning, or after an LF, to the next LF.
Lines(s) == {l \in [first : DOMAIN s, last : DOMAIN s] :
               /\ l.first = 1 \/ s[l.first - 1] = LF
               /\ l.first <= l.last /\ s[l.last] = LF
               /\ \A i \in l.first .. l.last - 1 : s[i] # LF}

Text(s, l) == Stripped(SubSeq(s, l.first, l.last - 1))

\* The lines that are not blank, and the place of one of them in their order.
FullLines(s) == {l \in Lines(s) : Text(s, l) # <<>>}
Place(s, l)  == Cardinality({k \in FullLines(s) : k.last <= l.last})

\* The callback gets the lines of the stream that are not blank: each once, in
\* order, complete, and wherever the calls of read() have cut the stream, even
\* between a CR and its LF.
LinesExact ==
  /\ Len(lines) = Cardinality(FullLines(stream))
  /\ \A l \in FullLines(stream) : lines[Place(stream, l)] = Text(stream, l)

\* Descriptors are neither leaked nor closed twice.  Between calls of the owner
\* the port is open under m_fd and under no other number, whatever start() or the
\* thread has met, and stop() is about to close the port and not a file that
\* somebody else has open by now.
DescriptorOwned ==
  LET ports == {d \in Fds : file[d] = "port"}
  IN  IF main \in {"idle", "close"} THEN ports = {fd} \ {NoFd} ELSE ports = {}

\* start() never assigns to a joinable m_thread, which would be std::terminate,
\* even after the thread has ended by itself; and when stop() has returned no
\* callback runs.
OneReader == main = "idle" /\ ~running => thread = "none"

\* The unsynchronised m_fd shows only while stop() waits for the thread: bytes of
\* another file, read under the port's old number, never reach the callback of a
\* reader that is meant to run.
ForeignOnlyInStop == foreign /\ thread # "none" => ~running

\* SerialPortReader.cpp:40-48: stop() returns, whatever the thread is doing when m_fd is
\* closed and cleared under it, unless the thread is for ever in a read() of another
\* file that was given the port's number in the meantime.
StopReturns == <>[](thread = "blocked") \/ (main # "idle" ~> main = "idle")

\* SerialPortReader.hpp:47, "Stop the reader thread and close the port": stop() returns.
StopAlwaysReturns == main # "idle" ~> main = "idle"

\* SerialPortReader.hpp:44, "Start reading": a start() that has returned without
\* an exception, and has not been followed by stop(), has a thread.
StartReads == main = "idle" /\ running /\ outcome \in {"reading", "ignored"} => thread # "none"
==============================================================================
