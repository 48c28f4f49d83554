# A TLA+ verification of nmea-monitor-cpp

nmea-monitor-cpp reads NMEA-0183 sentences from a serial port, turns them into
sensor frames, gives each a level (Normal, Warning, Critical), follows alerts
from opening to closing, writes them to a session log and shows them on a
dashboard. This directory models the parts where threads, queues and shutdown
meet, checks them with TLC on small instances, and proves the main results with
TLAPS for every instance. Paths below are relative to `src/`.

## The system

| part | source | state | operations |
|---|---|---|---|
| DataBuffer | `core/include/nmea/DataBuffer.hpp` | ring, head, tail, size, mutex, two condition variables | `push`, `tryPush`, `pop`, `tryPop` |
| SensorHub | `core/src/SensorHub.cpp` | `m_running`, `m_buffer`, `m_worker`, parser, detector | `start`, `stop`, `ingest`, `processingLoop` |
| TelemetryParser | `core/src/TelemetryParser.cpp` | lookup tables | `configure`, `parse` |
| AnomalyDetector, SensorConfig | `core/src/AnomalyDetector.cpp`, `SensorConfig.cpp` | thresholds, strategy | `evaluate`, `setThreshold`, `load` |
| AlertTracker | `core/src/AlertTracker.cpp` | one channel state per sensor | `process`, `openEvents`, `isOpen` |
| SessionLogger | `core/src/SessionLogger.cpp` | the log file, a mutex | `logOpen`, `logClose`, `flushOpenEvents` |
| SensorModel, EventLogModel | `monitor/src/SensorModel.cpp` | rows; at most 50 entries | `pushFrame`, `onAlertOpened`, `onAlertClosed`, a 1 s ticker |
| SerialPortReader | `serial/src/SerialPortReader.cpp` | `m_fd`, `m_running`, a thread | `start`, `stop`, `readLoop` |
| main of the monitor | `monitor/src/main.cpp` | owns all of the above | wiring, event loop, shutdown |
| simulator | `simulator/src/` | a pseudoterminal, `g_running`, `m_running`, `m_tick`, a thread | `main`, `start`, `stop`, `emitLoop`, `writeSentence` |

How they interact, with the thread each step runs on:

    reader thread      hub worker thread                        Qt main thread
    readLoop           processingLoop
      -> ingest          pop -> evaluate -> callback:
         -> parse           AlertTracker::process
         -> tryPush           -> logOpen/logClose -> log file
            (drops)           -> queued call ------------------> onAlertOpened/Closed
                            pushFrame -> queued call ----------> rows
                                                                 window closed:
                                                                   flushOpenEvents(openEvents())
                                                                   hub.stop(), reader.stop()

Nothing is shared but the buffer (its mutex), `m_running` (an atomic, read
relaxed), the log file (a mutex per line), the event queue of Qt, and, without
any lock, the tracker's `m_states`, which the main thread iterates over at
shutdown while the worker may still write it.

What makes each part correct:

* DataBuffer: it is a bounded FIFO queue; nobody sleeps on a call that can be
  served. Hard: two condition variables with `notify_one`, callers that never
  slept racing with woken ones, spurious wakeups.
* SensorHub: nothing the buffer took is lost, delivery is in order, `stop()`
  returns, one worker at a time. Hard: the sentinel goes through a buffer that
  may be full, the flag is read relaxed, sessions can be restarted.
* AlertTracker: the callbacks follow the documented lifecycle and the tracker
  agrees with its listener. Hard: the escalation's intermediate states.
* SessionLogger and main: each OPEN line is answered, by CLOSED or INTERRUPTED.
  Hard: the shutdown runs while the worker works.
* Dashboard: it converges to the tracker's state. Hard: it learns it through
  queued events applied by search, by a display name that two sensors may share.
* SerialPortReader: a line is delivered for every complete line read, however
  the reads cut the stream; failures leave the object usable. Hard: errors and
  `stop()` in the middle of a read.
* TelemetryParser, AnomalyDetector: a sentence reaches the sensor configured
  for it. Hard: several sensors on a sentence, fields that are missing, the
  boundaries of thresholds and of checksums.
* Simulator: whole sentences in the order of its schedule, and an end after a signal.
  Hard: partial and failing writes, a pseudoterminal that is full or has no reader.

`PROJECT.json` lists the hazards one by one, at their lines.

## The modules

| module | what it is |
|---|---|
| `BoundedFifo` | what a bounded queue promises its callers (abstract) |
| `DataBuffer` | the ring, its mutex sections and condition variables |
| `DataBufferProofs` | theorems about `DataBuffer` |
| `SensorHub` | the hub with its three threads |
| `SensorHubProofs` | theorems about `SensorHub` |
| `AlertLifecycle` | the alert state machine of README:201-206 (abstract) |
| `AlertTracker` | `process()`, step by step |
| `AlertTrackerProofs` | theorems about `AlertTracker` |
| `Dashboard` | the channel table and the event log, found by display name |
| `AlertFeed` | tracker, queued calls and dashboard, without a bound on frames |
| `AlertFeedProofs` | theorems about `AlertFeed` |
| `SerialPortReader` | the reader thread, its descriptor, the assembly of lines |
| `SerialPortReaderProofs` | theorems about `SerialPortReader` |
| `TelemetryParser` | configuration, sentence, frame, alert level: the sequential part |
| `TelemetryParserProofs` | theorems about `TelemetryParser` |
| `Monitor` | the process: hub, feed, log and main() together |
| `MonitorProofs` | theorems about `Monitor` |
| `Simulator` | the simulator's main() and thread, and the reader at the other end |
| `SimulatorProofs` | theorems about `Simulator` |
| `MC*` | the instances TLC checks, one module for each component |

**DataBuffer.** One action is one critical section of the mutex, which is where
other threads can see the state. `call[t]` is what thread t is calling and
`ret[t]` what its last call returned. `notEmpty` and `notFull` are the sets of
threads blocked in `wait`. A thread that waits tests its predicate and joins the
set in one section (`PopWaits`, `PushWaits`); `notify_one` removes one member,
any, or nothing when there is none; `SpuriousWakeup` removes a member for no
reason; an awake thread tests its predicate again. A moved-from slot is `Void`.

**SensorHub.** The buffer is a sequence with atomic operations: that is what
`ImplementsFifo` shows of `DataBuffer`, with `pop()` disabled while it is empty.
`main` says where the owner is in `start()` or `stop()` and `worker` where the
worker is in its loop; a frame is its sensor id and the number under which it was
parsed. `stale` models the relaxed load: after `stop()` has stored false the
worker may still read true, until its first use of the buffer's mutex after
`stop()` has used it. `accepted`, `delivered`, `late` and the other history
variables only serve the properties. The sentinel is a frame with id 255, as in
the code.

**AlertTracker.** `process()` is cut where the main thread can look in (it reads
`isOpen` and `current` without a lock) and at every callback. `told` is what the
listener has been told, `fired` the last callback.

**Dashboard** and **AlertFeed.** `Dashboard` has no steps of its own: it defines what
each call made on the main thread does to `rows`, the two counters and `entries`
(`m_entries`, newest first). A row is replaced as a whole, so it shows the level and
the limits of the sensor whose frame came last (`of`). Rows are numbered by the ids:
`setConfigs()` makes one for each, and the parser gives frames of configured ids only,
so none is ever appended. `AlertFeed` joins it to the tracker by `posts`, the queued
calls in the order they were posted; `tracking` says that the worker is inside the hub
callback.

**SerialPortReader.** `start()` is one step, because nobody else uses the object
meanwhile; `stop()` is one step for each of its effects (`Stop`, `CloseFd`,
`ClearFd`, `Join`), and `readLoop()` one for the loop condition, the load of
`m_fd`, the `read()` and each byte, so that every order of a `stop()` and a read is
there. A `read()` of the port returns at once, with or without bytes; one of another file
that has the port's number may wait (`ReadBlocks`), and need not return (`ReadWakes`). `file` is what the kernel has under each descriptor number; `OtherOpens`
and `OtherCloses` are the rest of the process (the log, Qt), which gets the lowest
free number, so that the port's number can be reused between `LoadFd` and the
read. `stale` is the relaxed load of `m_running`, `foreign` remembers that bytes of
another file have been read. `stream` is all the bytes of the session; `Lines`
says what its lines are without following the loop.

**TelemetryParser.** `Load` is one turn of the loop of `SensorConfigLoader::load`,
`Configure` fills the two tables of the parser in any order of the hash table,
`Ingest` parses a sentence as the simulator's builders write it (`Wire`), and
`IngestDamaged` one with a byte changed; `Evaluate` is the detector's part in the
worker. The algorithms are operators of the names they have in the code. A numeral
whose value a double cannot hold (`Huge` and more) is refused, as `std::stod` throws. Sentences
are sequences of bytes with their ASCII codes; a byte's bits are a set, and the
exclusive or of the checksum has those that an odd number of the bytes have.

**Monitor.** It takes the variables of the hub and of the feed and INSTANCEs
both modules; each of its actions is an action of theirs with what the lambdas of
`main()` add to it. The callback runs in the worker between `Hub!Pop` and
`Hub!Deliver` (`tracking`). `log` has the alert lines of the session log, in the
order of the file. `stage` is the progress of `main()`: `reader.start()`, which may
throw and end the process, `hub.start()`, the event loop, `openEvents()` one channel at
a time (`Visit`; when the worker inserts a channel meanwhile, which may move the others in
the hash table, the iteration may come to any channel again, or miss any that it has not
reached: `Miss`), one INTERRUPTED line at a time, `hub.stop()`,
`reader.stop()`. `Terminated` is a signal that ends the process.

**Simulator.** `main` is where `main()` is (`openPty()`, the probe of the slave, the wait
for a signal, `stop()`, `close()`), `worker` where `emitLoop()` is. `tick` is `m_tick`
modulo 10, after which the schedule repeats; `at` is the `if` it has come to. A sentence
is its place in the schedule, and its bytes are numbered. `Write` is a `write()` that
takes any part of what remains, `WriteFails` one that returns an error other than EAGAIN.
`wire` is what the pseudoterminal holds. The reader is the monitor: it opens the slave,
reads byte by byte, may stop reading with the slave open (`ReaderEnds`: its thread has
ended on an error, SerialPortReader.cpp:67), and closes it; `got` and `prev` remember its last line and the end of
the one before. Bytes written while nobody had the slave open, and bytes that a reader
left behind, are `Stale`: the kernel may keep or drop them, and only their place in the
sentence matters.

## Abstractions

* A frame's value, unit and time, names and the text of log lines are left out:
  no branch of the modelled code depends on them. `evaluate()` may give a frame
  any level, which covers every configuration of thresholds and every strategy.
* In `SensorHub` and `Monitor`, `ingest()` of a line that does not parse changes
  nothing and is not an action; `TelemetryParser` has those lines.
* `SerialPortReader` gives its lines to a callback that only records them.
  `tcsetattr` and the baud rate are the success or failure of `start()`.
* In `TelemetryParser` a sentence type is a short token; a numeral has digits and an
  exponent, or is nan (sign, point, inf and hexadecimal numerals are left out); units and
  the other texts of the configuration are left out; values are natural numbers or NaN.
  A configuration file that is missing, is no JSON, or has no `sensors`, is an empty array.
* The log file is assumed to be open (when it could not be opened, `writeLine`
  writes nothing) and every line reaches it (`flush()` after each).
* A log line and the post that follows it in the same lambda are one step: they
  have no reader in common.
* A data race is a choice: of reading an event before or after each of the
  writes of `process()`, and of missing channels in the iteration or coming to them
  again. A channel that is collected twice with one level is one event in the model,
  where the code writes its line twice. That the
  undefined behaviour could also crash the process is not modelled further than
  `Terminated`.
* The sensors of `Monitor` have distinct display names; those of `AlertFeed` may share
  them.
* Times, durations and the 1 s ticker of the event log, the signals to the views and
  `data()` are left out of `Dashboard`: they present the state that is modelled.
* The sleeps of the simulator are left out, and EAGAIN with its sleep is a step that
  changes nothing. `attempt` is set back after the probe, because nothing reads it then.

## The runs

| run | expected | bounds | what it shows |
|---|---|---|---|
| `data_buffer` | pass | 3 threads in any role, 3 slots, 2 items | the ring is a queue, and calls that can be served are |
| `sensor_hub` | pass | 2 slots, 5 frames, 3 sessions | nothing lost, order, `stop()` safe and live, over restarts |
| `hub_restart` | violation | 2 slots, 2 sessions | a left-over sentinel ends the worker of the next session |
| `alert_feed` | pass | 3 sensors with 3, 2 or 1 names, 2 event entries, at most 2 calls queued when a frame comes | the lifecycle, agreement with the listener, the rows of names of one sensor, the event log |
| `monitor` | pass | 2 sensors, 3 frames, 1 slot, 1 event entry | log and dashboard agree with the tracker, the process ends once the window is closed, and no callback outlives what it refers to |
| `alert_lost_at_exit` | violation | as `monitor` | an alert opened after the flush is never answered |
| `serial_reader` | pass | 2 calls of `start()`, 2 descriptors, 4 bytes a session, reads of at most 3 | exact lines, descriptors owned, one thread, `stop()` returns unless a read of another file waits for ever |
| `reader_start_ignored` | violation | 2 bytes, reads of at most 2 | a `start()` after one that threw reads nothing |
| `reader_stop_hangs` | violation | 2 bytes, reads of at most 2 | `stop()` waits for a thread that reads another file under the port's number |
| `telemetry` | pass | 2 entries of 7 kinds, 84 messages of up to 2 fields, 9 bytes as errors | sentences reach a sensor that listens to them, and are judged and described by its limits |
| `pship_field` | violation | as `telemetry` | field 0 of a PSHIP sensor is the id |
| `simulator` | pass | 3 bytes a sentence, room for 4, 2 probes, 2 sessions of a reader | the schedule arrives whole, the thread ends before its descriptor, shutdown ends |

Why the bounds are enough. Three threads let two sleep while a third signals,
which is what a lost wakeup needs; three slots let the ring wrap, fill and empty.
(Four threads on two slots were also checked once, with the same result.) Five
frames overrun two slots twice, and three sessions restart after a session that
left frames and after one that left its sentinel. Three frames let an alert open,
escalate and close, or one alert be pushed out of a one-entry event log by another
and then close; a one-slot hub buffer drops frames and the sentinel. The real
constants (256 slots, 50 entries, 256 bytes of buffer, 50 probes) only put the same cases further away; for the
properties that are proved no bound is needed.

Two descriptors are the port's and another file's, and with two sessions a number
freed by one can be met by the next. Four bytes have a blank line, a line of one or
two bytes ended by CR LF, two lines, and all of them cut at every place. Two entries
share a sentence, or an id, or an id after it has been cut; two fields are enough
for a field that is there, absent, empty, no number or out of range, and an id before it.
The numeral 2E9 is out of range because `Huge` is 100; the real bound only needs more digits. The limits of the
entries are met by the values 2 and 20, from both sides and where a critical and a
warning limit coincide.

Three sensors have names of their own, or two share one beside a third, or all share
one; two entries are pushed out by a third alert. `MaxLag` bounds how far the main
thread may be behind: two calls may wait when a frame comes, which adds up to three of its
own, so that the queue holds calls of two frames and of every kind.
Three bytes of a sentence and room for four leave a write a part of a sentence, the end
of one and the beginning of the next, or nothing; all ten ticks of the schedule are run
through without a bound on their number, and the second session of the reader meets what
the first has left.

The largest runs are `alert_feed` (4.5 million states, under a minute) and `monitor`
(2.6 million states, two minutes, most of them for `ShutdownTerminates`).

Deadlock is checked for the buffer, the feed, the reader (its environment can
always open or close a file), the parser, and the simulator, where a signal may always
come. The hub and
the monitor do stop: when the bound on frames is reached, and when the process
has ended.

**Properties.** `NoLostWakeup` and `Served`: no thread sleeps while its call could
be served unless an awake thread will serve or pass on the signal; an item that
stays available is eventually taken. `StopNeverHangs`, `BoundedDrain`,
`StopReturns`: the join of `stop()` ends, with at most two more callbacks.
`FirstSessionServes`: what the buffer takes reaches the callback. `NothingLost`,
`InOrder`: across sessions. `Agreement`, `FollowsLifecycle`: tracker and listener.
`TableAgrees`: when nothing is queued, the row of a sensor that has its name to itself has
its data and its level, and the counters are the tracker's if all names are such; for
names that are shared see below. `EntriesAgree`: a name has as many ACTIVE entries as
open alerts, unless the list has been cut.
`LogPairsUp`: OPEN and CLOSED lines alternate per sensor, with matching levels,
even during a shutdown that races with the worker. `QuietShutdownComplete`: if the
worker does nothing during the shutdown, each OPEN is answered exactly once.
`NoCallbackLeft`: after `hub.stop()` nothing runs that refers to objects `main()` is about
to destroy, although the reader goes on to queue frames until `reader.stop()`.
`DashboardAgrees`: when the queue is empty the dashboard shows the tracker's state.
`ShutdownTerminates`: the shutdown ends. `LinesExact`: the callback has got the
non-blank lines of the stream, by a definition of lines that knows nothing of reads.
`DescriptorOwned`: the port is open under `m_fd` alone, and `stop()` closes nothing
that is not its own. `OneReader`: `start()` never assigns to a joinable thread.
`ForeignOnlyInStop`: the race on `m_fd` shows only while `stop()` waits. `StopReturns`
of the reader: its `stop()` ends, unless the thread is for ever in a `read()` of another
file. `RoutesToListener`: a sentence that arrives whole gives a frame exactly if a
configured sensor listens to it, of one such sensor, with the number of its field, as the
code counts fields. `SingleErrorCaught`: one changed byte never gives another frame, except
where the `*` itself is hit: the parser then takes the sentence for one without
checksum and accepts it, with the remains of the checksum in its last field.
`LevelOfRow`: the level follows the limits that the row of the sensor shows, also for
NaN, which closes an alert. `DescriptionFits`: `thresholdDesc()` names a limit of the
level that the detector has found. `ScheduleArrives`: a reader that stays gets the
schedule whole, in order and without a gap, even after a sentence that was spoilt.
`MasterOwned`: no write to a master that is closed, nothing left behind. `ShutdownEnds`:
a signal ends the simulator, unless the slave is abandoned, open for ever without a
reader. `EveryChannelFlows`: each channel is sent again and again while somebody reads.

**What the violations are.** They are disagreements between the code and its
documentation, each with its trace:

1. `hub_restart`: `stop()` leaves the sentinel queued when the worker ends by
   reading `m_running` (SensorHub.cpp:47); the next worker takes it for its own.
2. `alert_lost_at_exit`: main.cpp:117 flushes before main.cpp:118 stops the
   worker, while README:210 and README:507 promise an INTERRUPTED line for every
   open alert. Swapping the two lines would also remove the race on `m_states`.
3. `reader_start_ignored`: SerialPortReader.cpp:25 sets `m_running` before the port
   is opened and does not take it back when `start()` throws; the next `start()`
   returns at once. The monitor does not retry, so it does not meet this.
4. `reader_stop_hangs`: SerialPortReader.cpp:44 closes the descriptor before line 47
   joins the thread that uses it. If another `open()` gets the number in between, the
   thread may wait in a `read()` of that file, for which O_NONBLOCK is not set, and
   `stop()` with it, while SerialPortReader.hpp:47 says that it stops the thread. In the
   monitor `stop()` is one of the last calls, so that the window is small.
5. `pship_field`: `parsePship()` counts the id as field 0 (TelemetryParser.cpp:145-153),
   TelemetryParser.hpp:29 counts from after it. `sensors.json` and the tests follow the
   code.

More departs from the documentation, is plain in the code, and has no run of its own. The
properties of the passing runs leave these cases out, and say so:

* An instrument with id FF passes the configuration (SensorConfig.cpp:45), and its first
  frame, taken for the sentinel, ends the worker (SensorHub.cpp:49), while README:163 lets
  any instrument be added by a configuration entry. `NothingLost` is
  checked without that id, and `NoFrameLost` has the hypothesis that there is none.
* Two sensors with one display name replace the same row in turn (SensorModel.cpp:129):
  the other row shows NO DATA for ever, and an alarm is not counted while the row shows
  the other sensor, although README:269, 281 and 305 promise a row for each channel, which
  updates, and a live count of the channels in alarm. `TableAgrees` speaks of names of one
  sensor.
* Two sensors on one sentence type, for different fields of it: TelemetryParser.cpp:135
  returns for the first that finds a number, and the order of a hash table decides which,
  while TelemetryParser.hpp:37 has a list of sensors to extract and README:163 one entry
  for a new instrument. `RoutesToListener` says that one listener is served.
* SessionLogger.hpp:23 promises the flush of the open alerts on SIGTERM, and the monitor
  has no handler (`Terminated`). `LogPairsUp` holds all the same; the INTERRUPTED lines
  are missing.
* The limits 0 and 360 of the wind direction in `sensors.json`, "no alarm thresholds", are
  inclusive (AnomalyDetector.cpp:9), so 0 and 360 are critical.

A simulator whose slave stays open without a reader does not end after a signal
(`SlaveAbandoned`): its thread is in `write()` (SensorSimulator.cpp:49), or retries it
without looking at `m_running`. No text promises otherwise; with `make run` the monitor
has ended by then. The simulator sleeps after each sentence and each tick: ten ticks take
1000 + 28 * 12 = 1336 ms, so that its rates are a quarter below those of
SensorSimulator.hpp:19-27 (7.5 instead of 10 Hz for RPM).

## Fairness

* `DataBuffer`: weak fairness of each thread's critical section: a thread that is
  awake inside a call is scheduled and gets the mutex. Nobody is obliged to make
  a call, and no spurious wakeup is assumed.
* `SensorHub`: weak fairness of the worker and of the owner inside `start()` and
  `stop()`: the scheduler runs both. Nobody is obliged to call them or to send a
  line.
* `Monitor`: the worker, `main()` once the window is closed, the start of the hub
  and the event loop. Closing the window, signals and incoming lines are not fair.
* `SerialPortReader`: the owner inside `stop()` and the thread are scheduled, and a
  store becomes visible. A `read()` of the port returns because it is opened with
  O_NONBLOCK; that data arrives, or an error, is not assumed. Nothing is assumed of a
  `read()` that waits for another file: `StopReturns` leaves that case out, and
  `StopAlwaysReturns` fails in it.
* `Simulator`: `main()` and the thread are scheduled, and so is a thread that reads the
  slave, as long as there is one. It may end with the slave open, and nobody has to open
  or close the slave or send a signal. A write that can write nothing has to wait, or is
  retried; when nobody has the slave open it ends with an error, as the EIO that simulator
  `main.cpp:82` expects. On a kernel that blocks such a write instead, `stop()` waits until
  somebody reads: `ShutdownEnds` rests on this assumption, and its mutant drops it.
* In `Monitor`, `reader.stop()` is one step, which ends; this rests on `StopReturns` of
  the reader and has its exception.

## What is proved

All proofs hold for every value of the constants under the assumptions named in
the modules: `BufferAssumption` (a positive capacity, which is the
`static_assert` of DataBuffer.hpp:22, and an item is not `Void`),
`HubAssumption` (a positive capacity, ids of one byte),
`ReaderAssumption` (CR and LF are two bytes, descriptors are numbers, a positive
buffer), `FeedAssumption` (finitely many sensors, with numbers for ids),
`MonitorAssumption` (those of the hub and the feed), `SimulatorAssumption` (sentences
and pseudoterminal are not of length zero) and `ParserAssumption` (a code of eight bits for
each byte and no code twice; `$`, `*`, `,` and blanks are no hexadecimal digits, which are
sixteen; ids are numbers or missing).

**DataBuffer** (`DataBufferProofs`). `TypeCorrect`. `RingConsistent`: the window
of `m_size` slots from `m_tail` holds the items and `m_head` ends it; the induction
needs the arithmetic of indices modulo `Cap` (`ModOnce`, `SlotInjective`,
`SlotNext`), that `Insert` writes the slot after the window and `Remove` clears its
first (`InsertRing`, `RemoveRing`). `WakeupsNotLost`: the invariant is that, if
anybody sleeps on `notEmpty`, there are at least as many awake poppers as items
(and dually for `notFull`); it is inductive with the type invariant, by counting:
each `notify_one` adds an awake thread when it adds an item. A thread that never
slept may take the item of a woken one, and the count still holds, which is why
the invariant counts threads instead of following signals. `ImplementsBoundedFifo`
is the refinement: under the map `queue <- Content`, a critical section is one step
of `BoundedFifo`, and waiting, signals and spurious wakeups are stutters
(`InsertAppends`, `RemoveTakesHead`).

**SensorHub** (`SensorHubProofs`). `SessionInv` says, while `stop()` joins: as long
as the worker may read a stale `m_running` the buffer is not empty, and afterwards
the worker is not in `pop()`. That is why a dropped sentinel does no harm: it is
dropped only by a full buffer, and the first item the worker takes from it makes
`m_running = false` visible. The bound on the drain has to be carried along with
it, since each of the two phases allows the worker one callback. `StreamInv` says
that the frames delivered, in hand and queued increase in this order. They give
`StopSafe`, `DrainBounded`, `AtMostOneWorker` and
`DeliveryInOrder`. `NoFrameLost` has the hypothesis `SentinelId \notin SensorIds`,
which the code does not enforce (see *What the violations are*): without it a frame is taken
for the sentinel and lost.

**AlertTracker** (`AlertTrackerProofs`). Each step of `process()` knows how far
state and listener differ; the strengthened invariant says so for each value of
`step`, and `Agreement` is its case `idle`. `ImplementsLifecycle` uses it to show
that `FireOpened` fires only when nothing is open, and with a level that is not
Normal, and a close only with the level that was told.

**SerialPortReader** (`SerialPortReaderProofs`). `FdInv` says at each point of
`stop()` what `m_running`, `m_fd`, the open files and the thread have to do with each
other; the one that carries `ForeignBytesOnlyInStop` is that, while `m_running` is
true, the number the thread has loaded is still `m_fd`. It gives also
`NoDescriptorLeaks` and `AtMostOneReader`. `EveryLineOnce` is `LinesExact` for every
stream: `LineInv` adds to it where the line under construction begins (`OpenLine`),
and the lemmas say that a byte other than LF adds no line (`NoLineAdded`), that LF
adds exactly the one under construction (`OneLineAdded`), with its text
(`TextOfNew`), and that the texts and places of the earlier lines stay.

**AlertFeed** (`AlertFeedProofs`). `FeedRunsTracker`: the composition takes only steps of
the tracker, so that `Agreement` and the lifecycle hold inside it (`FeedTracker`).
`TableCorrect`: `RowInv` says of every row at every moment which frame will be the last
to replace it: the one in hand, or else the last of its name in the queue, or else the
one it shows; unless that frame is still in hand, it has the level the tracker has for
its sensor. When all is quiet this is `TableAgrees` (`TableQuiet`): the row of a name of
one sensor can only show that sensor, and if all names are of this kind the rows with a
level are the sensors with that level, so that the counters agree.
`EntriesCorrect`: `EntriesInv` says that there is a history of the alerts, one for each
queued call, that leads call by call from the alerts the event log has been told of to
those the listener has been told of, and compares the entries of each display name with
the first of them: no more are ACTIVE than alerts of that name are open, and fewer only
if the list is at its limit. An alert that opens pushes out one entry at most
(`NameOpened`), and a close finds an ACTIVE entry of its name or there is none to find
(`NameClosed`). Neither theorem depends on `MaxLag`.

**Monitor** (`MonitorProofs`). Every step of the process is one of the hub, or leaves it
alone, or kills the process (`HubStep`), and the same for the feed; so the type invariants
carry over. `TableInMonitor`: until the process is killed, the types of the feed and
`TableAgrees` hold in it (the row invariant is kept by each step of the feed, and by those
beside it). `MonitorRunsTracker` gives the tracker's step invariant and, with it, the
lifecycle (`LifecycleInMonitor`). What `SessionInv` and `StreamInv` give the hub alone,
they give it in the process until that is killed (`HubInsideMonitor`); the kill itself
empties the buffer, which is no step of the hub. `LogAlwaysPairsUp` is inductive with it:
an OPEN line is appended only where the tracker knows that nothing is open, a CLOSED line
only with the level that was told (`PairsUpOpen`, `PairsUpClose`).
`QuietShutdownIsComplete`: `QuietInv` follows the shutdown: while the worker rests, each
open alert is still to be visited or has been collected with its level (snapshot), is
collected or marked once (flush), and is marked once (after it). It also says when there
is a worker and that only a worker with a frame is in a callback, which is
`NoCallbackOutlives`. `DashboardCorrect` joins the log file and the screen, which the same
callback feeds in two ways. `Mirror`: the OPEN lines of the log are one list, cut in
three: those the event log has dropped, its entries, and the queued calls about alerts
that open. `Shown`: along a history of the alerts as in `EntriesInv`, an entry is ACTIVE
exactly if it is the youngest of its sensor and the alert is open. So the entry of an open
alert is there and ACTIVE unless as many younger OPEN lines as the list has room for have
been written, which `EntriesMirror` counts by a bijection. The theorem needs
`LogAlwaysPairsUp` too (an open alert has an OPEN line), and the invariant of the rows,
which is that of the feed (`TableKept`). All this stops at a signal that kills the
process: what was queued then is never shown.

**Simulator** (`SimulatorProofs`). `OwnerInv` says at which stages of `main()` the master is
open and the thread runs, and gives `MasterAlwaysOwned`. `ScheduleAlwaysArrives`:
`ChainInv` says that every byte that is not stale is followed by its successor in the
schedule, from the reader's line over the wire to the byte the thread will write next; a
failed write breaks the chain only while nobody has the slave open, when there is
nothing to keep.

**TelemetryParser** (`TelemetryParserProofs`). No induction over data is possible, so what
a scan or a recursive function of the model returns is described by what characterises it
(the first or last place, the number of separators before a place), and the lemmas go by
the least counterexample among the natural numbers. `ConfigInv` follows the tables: each
sensor loaded has its place under its sentence or its identifier, and nobody else
has one, in whatever order `configure` visits the hash table. `LineInv` says that the
frame in work is what `parse()` makes of the line that was sent, with at most one byte
changed. `RoutingCorrect` rests on `ParseWhole`, the way there and back: what a sentence
is built of (`BodyGrows`) is what it is cut into (`SplitAppend`, `BodyFields`), and the
checksum written as two digits is read as the same number (`HexRoundTrip`).
`ErrorsCaught`: one changed byte changes the checksum (`ChecksumDiffers`, from the
injectivity of the bits of a byte) or else is one of its two digits or the `*`, or the
line no longer has the form of a sentence (`OneByteChanged`). `LevelCorrect` and
`DescriptionCorrect` need the type of a number (`NumberType`: natural and bounded, or
NaN, or none) and that `Evaluate` and `Description` look at the limits of the same
sensor.

Every invariant and action property that a passing run checks is stated by a theorem.
Only model-checked: the liveness properties (`Served`, `StopReturns`,
`FirstSessionServes`, `ShutdownTerminates`, `ShutdownEnds`, `EveryChannelFlows`), because the
prover handles neither fairness nor ENABLED.

## Not modelled

The plan of the first version of this project has been carried out, but for one point:
`Monitor` takes lines from a reader that may receive at any time, and `SerialPortReader`
gives its lines to a callback that only records them. Their composition would add no
behaviour to either, since the reader shares nothing with the process but `ingest()`
and the descriptor numbers, which `SerialPortReader` has.

What would come next: a simulator and a reader on one pseudoterminal, to follow a
sentence from end to end.

Left out for good: the physical models of the simulator (random numbers); the QML layout
and an engine that fails to load it; `core/src/SensorFrame.cpp` (not compiled); the
formatting of times, durations and log lines; the connection section of the
configuration (two values that are handed on); `setStrategy()`, which nothing calls; and
the build.
