------------------------------ MODULE SensorHub ------------------------------
(***************************************************************************)
(* core/src/SensorHub.cpp: the pipeline orchestrator.  Three threads meet   *)
(* in it: the owner calls start() and stop(), the serial reader calls       *)
(* ingest() for every line, and the worker that start() creates runs        *)
(* processingLoop().  They share m_running, an atomic, and m_buffer, a      *)
(* DataBuffer; by ImplementsBoundedFifo (DataBufferProofs) each of its      *)
(* calls is one atomic operation on a bounded queue, and pop() is disabled  *)
(* while the queue is empty.                                                *)
(*                                                                         *)
(* The worker reads m_running with memory_order_relaxed, so after stop()    *)
(* has stored false the load may still return true until something orders   *)
(* the two threads: the worker's first use of the buffer's mutex after      *)
(* stop() has used it.  The variable stale says that this has not happened. *)
(***************************************************************************)
EXTENDS Naturals, Sequences

CONSTANTS Cap,         \* kBufferCapacity
          SensorIds,   \* the ids configured in sensors.json
          MaxFrames,   \* bound: sentences that parse to a frame
          MaxStarts    \* bound: calls of start()

SentinelId == 255      \* 0xFF

ASSUME HubAssumption == /\ Cap \in Nat \ {0}
                        /\ SensorIds \subseteq 0 .. 255
                        /\ MaxFrames \in Nat /\ MaxStarts \in Nat

VARIABLES running,    \* m_running
          buffer,     \* the content of m_buffer, oldest first
          main,       \* where the owner is in start() or stop()
          worker,     \* where the worker is; "none": m_worker is not joinable
          frame,      \* the worker's local variable frame
          stale,      \* the worker may still read m_running as true
          starts,     \* history: sessions started
          parsed,     \* history: frames that parse() has returned
          accepted,   \* history: the frames tryPush has taken
          delivered,  \* history: the frames given to the callback, in order
          late        \* history: callbacks since stop() began to join

vars == <<running, buffer, main, worker, frame, stale,
          starts, parsed, accepted, delivered, late>>

\* A frame is its sensor id and its number in the order the lines came in.
Frames   == [id : SensorIds, seq : 1 .. MaxFrames]
Sentinel == [id |-> SentinelId, seq |-> 0]

TypeOK ==
  /\ running \in BOOLEAN
  /\ buffer \in Seq(Frames \cup {Sentinel}) /\ Len(buffer) <= Cap
  /\ main \in {"idle", "spawn", "sentinel", "join"}
  /\ worker \in {"none", "check", "pop", "evaluate", "done"}
  /\ frame \in Frames \cup {Sentinel}
  /\ worker = "evaluate" => frame \in Frames
  /\ stale \in BOOLEAN
  /\ starts \in 0 .. MaxStarts
  /\ parsed \in 0 .. MaxFrames
  /\ accepted \subseteq 1 .. parsed
  /\ delivered \in Seq(1 .. MaxFrames)
  /\ late \in Nat

Init == /\ running = FALSE
        /\ buffer = <<>>
        /\ main = "idle"
        /\ worker = "none"
        /\ frame = Sentinel
        /\ stale = FALSE
        /\ starts = 0 /\ parsed = 0 /\ late = 0
        /\ accepted = {} /\ delivered = <<>>

\* (Mutant of TryPush: no capacity.)
TryPushAlways(item) == buffer' = Append(buffer, item)

\* DataBuffer::tryPush: a full buffer drops the item.
TryPush(item) == IF Len(buffer) < Cap THEN buffer' = Append(buffer, item)
                                      ELSE UNCHANGED buffer

------------------------------------------------------------------------------
(* The owner.                                                                *)

\* (Mutant of Start: the result of exchange(true) is ignored.)
StartAlways == /\ main = "idle" /\ starts < MaxStarts
               /\ running' = TRUE
               /\ main' = "spawn"
               /\ starts' = starts + 1
               /\ UNCHANGED <<buffer, worker, frame, stale, parsed, accepted, delivered, late>>

\* start(): m_running.exchange(true) returned false.  (When it returns true,
\* start() returns at once and nothing has changed.)
Start == /\ main = "idle" /\ starts < MaxStarts
         /\ ~running
         /\ running' = TRUE
         /\ main' = "spawn"
         /\ starts' = starts + 1
         /\ UNCHANGED <<buffer, worker, frame, stale, parsed, accepted, delivered, late>>

\* start(): the assignment to m_worker creates the thread.
Spawn == /\ main = "spawn"
         /\ worker' = "check"
         /\ main' = "idle"
         /\ UNCHANGED <<running, buffer, frame, stale,
                        starts, parsed, accepted, delivered, late>>

\* stop(), also called by the destructor: m_running.exchange(false) returned true.
Stop == /\ main = "idle"
        /\ running
        /\ running' = FALSE
        /\ stale' = TRUE
        /\ main' = "sentinel"
        /\ UNCHANGED <<buffer, worker, frame, starts, parsed, accepted, delivered, late>>

\* (Mutant of PushSentinel: stop() only clears m_running.)
SkipSentinel == /\ main = "sentinel"
                /\ main' = "join"
                /\ late' = 0
                /\ UNCHANGED <<running, buffer, worker, frame, stale,
                               starts, parsed, accepted, delivered>>

\* stop(): tryPush of the sentinel, whose result is ignored.
PushSentinel == /\ main = "sentinel"
                /\ TryPush(Sentinel)
                /\ main' = "join"
                /\ late' = 0
                /\ UNCHANGED <<running, worker, frame, stale,
                               starts, parsed, accepted, delivered>>

\* stop(): m_worker.join() returns when processingLoop() has.
Join == /\ main = "join"
        /\ worker = "done"
        /\ worker' = "none"
        /\ main' = "idle"
        /\ stale' = FALSE
        /\ UNCHANGED <<running, buffer, frame, starts, parsed, accepted, delivered, late>>

------------------------------------------------------------------------------
(* The serial reader.                                                        *)

\* ingest(raw) of a line that parses; parse() of any other line returns nullopt
\* and ingest() has no effect.
Ingest == /\ parsed < MaxFrames
          /\ parsed' = parsed + 1
          /\ \E id \in SensorIds : TryPush([id |-> id, seq |-> parsed'])
          /\ accepted' = IF Len(buffer) < Cap THEN accepted \cup {parsed'} ELSE accepted
          /\ UNCHANGED <<running, main, worker, frame, stale, starts, delivered, late>>

------------------------------------------------------------------------------
(* The worker.                                                               *)

\* (Mutants of Check: leave when there is nothing to do; never look at m_running.)
CheckOrDone == /\ worker = "check"
               /\ \/ (running \/ stale) /\ buffer # <<>> /\ worker' = "pop"
                  \/ (~running \/ buffer = <<>>) /\ worker' = "done"
               /\ UNCHANGED <<running, buffer, main, frame, stale,
                              starts, parsed, accepted, delivered, late>>

CheckIgnored == /\ worker = "check"
                /\ worker' = "pop"
                /\ UNCHANGED <<running, buffer, main, frame, stale,
                               starts, parsed, accepted, delivered, late>>

\* The loop condition.
Check == /\ worker = "check"
         /\ \/ (running \/ stale) /\ worker' = "pop"
            \/ ~running /\ worker' = "done"
         /\ UNCHANGED <<running, buffer, main, frame, stale,
                        starts, parsed, accepted, delivered, late>>

\* (Mutants of Pop: look at m_running again after pop(); take the newest item.)
PopThenCheck == /\ worker = "pop"
                /\ buffer # <<>>
                /\ frame' = Head(buffer)
                /\ buffer' = Tail(buffer)
                /\ stale' = (stale /\ main # "join")
                /\ worker' = IF frame'.id = SentinelId \/ ~running
                               THEN "done" ELSE "evaluate"
                /\ UNCHANGED <<running, main, starts, parsed, accepted, delivered, late>>

PopNewest == /\ worker = "pop"
             /\ buffer # <<>>
             /\ frame' = buffer[Len(buffer)]
             /\ buffer' = SubSeq(buffer, 1, Len(buffer) - 1)
             /\ stale' = (stale /\ main # "join")
             /\ worker' = IF frame'.id = SentinelId THEN "done" ELSE "evaluate"
             /\ UNCHANGED <<running, main, starts, parsed, accepted, delivered, late>>

\* m_buffer.pop(), and the break on the sentinel.  Once stop() has used the
\* mutex of m_buffer, this use of it makes m_running = false visible.
Pop == /\ worker = "pop"
       /\ buffer # <<>>
       /\ frame' = Head(buffer)
       /\ buffer' = Tail(buffer)
       /\ stale' = (stale /\ main # "join")
       /\ worker' = IF frame'.id = SentinelId THEN "done" ELSE "evaluate"
       /\ UNCHANGED <<running, main, starts, parsed, accepted, delivered, late>>

\* m_detector.evaluate(frame) and the callback.
Deliver == /\ worker = "evaluate"
           /\ delivered' = Append(delivered, frame.seq)
           /\ late' = IF main = "join" THEN late + 1 ELSE late
           /\ worker' = "check"
           /\ UNCHANGED <<running, buffer, main, frame, stale, starts, parsed, accepted>>

------------------------------------------------------------------------------
MainStep   == Spawn \/ PushSentinel \/ Join
WorkerStep == Check \/ Pop \/ Deliver

Next == Start \/ Stop \/ MainStep \/ Ingest \/ WorkerStep

Spec == Init /\ [][Next]_vars

\* The operating system schedules both threads, and a pop() is served when the
\* buffer is not empty (Served in DataBuffer).  Nothing makes the owner call
\* start() or stop(), or the reader receive a line.
FairSpec == Spec /\ WF_vars(MainStep) /\ WF_vars(WorkerStep)

------------------------------------------------------------------------------
Real(f) == f.seq # 0   \* a frame that parse() returned, not stop()'s sentinel

InHand   == IF worker = "evaluate" THEN {frame.seq} ELSE {}
Queued   == {buffer[k].seq : k \in {j \in DOMAIN buffer : Real(buffer[j])}}
Shown    == {delivered[k] : k \in DOMAIN delivered}

\* Every frame the buffer took is delivered, or in the worker's hand, or still
\* queued: across any number of start() and stop(), none disappears.  No configured
\* id may be SentinelId, which the code does not enforce: processingLoop() takes a
\* frame with that id for the sentinel (SensorHub.cpp:49), drops it and ends.
NothingLost == accepted = Shown \cup InHand \cup Queued

\* Frames reach the callback in the order they were parsed, each at most once,
\* and everything still in the pipeline is later than all that has left it.
InOrder ==
  /\ \A i, j \in DOMAIN delivered : i < j => delivered[i] < delivered[j]
  /\ \A i, j \in DOMAIN buffer : i < j /\ Real(buffer[i]) /\ Real(buffer[j])
                                  => buffer[i].seq < buffer[j].seq
  /\ \A s \in Shown, q \in InHand \cup Queued : s < q
  /\ \A h \in InHand, q \in Queued : h < q

\* stop() never waits for a worker that sleeps: from the moment it joins, a
\* worker that has gone to pop() finds something there, although the sentinel
\* may have been dropped by a full buffer and m_running is read relaxed.
StopNeverHangs == main = "join" /\ worker = "pop" => buffer # <<>>

\* Once the sentinel has been offered, at most two more frames reach the
\* callback: the one the worker holds, and one it takes on a stale m_running.
BoundedDrain == main = "join" => late <= 2

\* start() never assigns to a joinable m_worker, which would be std::terminate,
\* and outside a session no callback runs.
OneWorker == (main = "spawn" \/ (main = "idle" /\ ~running)) => worker = "none"

\* stop() returns.
StopReturns == main \in {"sentinel", "join"} ~> main = "idle"

\* In the first session every frame the buffer takes reaches the callback,
\* unless the session is stopped first.
FirstSessionServes ==
  \A n \in 1 .. MaxFrames :
    (starts = 1 /\ running /\ n \in accepted) ~> (n \in Shown \/ ~running)

\* A worker that has left its loop was told to by stop().  SensorHub.cpp:25,
\* "Push sentinel to unblock the worker", means the worker that stop() waits for: the
\* sentinel should end no other.
WorkerServesWhileRunning == running => worker # "done"
==============================================================================
