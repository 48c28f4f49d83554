-------------------------------- MODULE Monitor --------------------------------
(***************************************************************************)
(* monitor/src/main.cpp: the monitor process.  The hub (SensorHub), the     *)
(* alert tracker (AlertTracker), the session log (SessionLogger) and the    *)
(* dashboard (SensorModel and EventLogModel) share no code but meet in the  *)
(* lambdas of main(): the hub's worker thread runs the tracker inside its   *)
(* callback, the tracker's callbacks write the log and queue an event for   *)
(* the dashboard (AlertFeed), and the Qt main thread handles those events   *)
(* until the window is closed, then shuts the process down.                 *)
(***************************************************************************)
EXTENDS Naturals, Sequences, FiniteSets

CONSTANTS Cap,         \* kBufferCapacity
          SensorIds,   \* the ids configured in sensors.json, no name given twice
          MaxFrames,   \* bound: sentences that parse to a frame
          MaxEvents    \* kMaxEvents

MaxStarts == 1         \* main() starts the hub once

ASSUME MonitorAssumption == /\ Cap \in Nat \ {0}
                            /\ SensorIds \subseteq 0 .. 255
                            /\ MaxFrames \in Nat /\ MaxEvents \in Nat

VARIABLES running, buffer, main, worker, frame, stale,       \* the hub,
          starts, parsed, accepted, delivered, late,         \*   see SensorHub
          known, states, step, input, told, fired,           \* the tracker, see AlertTracker
          tracking, posts,                                   \* see AlertFeed
          config, rows, criticalCount, warningCount, entries, \* see Dashboard
          log,        \* the lines of the session log that are about alerts
          stage,      \* where main() is
          toVisit,    \* openEvents(): the channels its iteration has not reached
          raced,      \* openEvents(): m_states has grown under the iteration
          open,       \* openEvents(): the events collected so far, then those
                      \*   that flushOpenEvents() has still to write
          disturbed   \* history: the worker was at work during the shutdown

hubVars   == <<running, buffer, main, worker, frame, stale,
               starts, parsed, accepted, delivered, late>>
boardVars == <<config, rows, criticalCount, warningCount, entries>>
feedVars  == <<known, states, step, input, told, fired, tracking, posts, boardVars>>
mainVars  == <<stage, toVisit, raced, open>>
vars == <<hubVars, feedVars, log, mainVars, disturbed>>

Hub  == INSTANCE SensorHub
Feed == INSTANCE AlertFeed WITH Sensors <- SensorIds, MaxLag <- 0,
                                Configs <- {[s \in SensorIds |-> s]}

Levels == Feed!Levels

Line(kind, s, l) == [kind |-> kind, id |-> s, level |-> l]

TypeOK ==
  /\ Hub!TypeOK /\ Feed!TypeOK /\ Feed!FeedTypeOK
  /\ log \in Seq([kind : {"OPEN", "CLOSED", "INTERRUPTED"}, id : SensorIds, level : Levels])
  /\ stage \in {"open", "setup", "exec", "snapshot", "flush", "stopHub", "stopReader",
                "exit", "killed"}
  /\ toVisit \subseteq known /\ raced \in BOOLEAN
  /\ open \subseteq [id : SensorIds, level : Levels]
  /\ disturbed \in BOOLEAN

Init == /\ Hub!Init /\ Feed!FeedInit
        /\ log = <<>>
        /\ stage = "open" /\ toVisit = {} /\ raced = FALSE /\ open = {}
        /\ disturbed = FALSE

Alive    == stage \notin {"open", "exit", "killed"}
ShutDown == stage \in {"snapshot", "flush", "stopHub"}

------------------------------------------------------------------------------
(* The reader thread and the worker thread.                                  *)

\* The reader runs from before hub.start() until reader.stop().
Receive == /\ Alive
           /\ Hub!Ingest
           /\ UNCHANGED <<feedVars, log, mainVars, disturbed>>

\* The hub's worker, outside the callback.
WorkerLoop == /\ Alive
              /\ Hub!Check \/ Hub!Pop
              /\ disturbed' = (disturbed \/ (ShutDown /\ worker' = "evaluate"))
              /\ UNCHANGED <<feedVars, log, mainVars>>

\* Inside it.
Working == Alive /\ disturbed' = (disturbed \/ ShutDown)

\* m_detector.evaluate(frame) gives the frame a level and the hub callback calls
\* tracker.process(frame).  A channel that m_states does not hold yet is inserted;
\* the insertion may relink the table, and an iteration of the main thread then goes
\* on to any of the channels, the new one and those it has seen included.
Evaluate ==
  /\ Working
  /\ worker = "evaluate"
  /\ \E l \in Levels : Feed!Receive(frame.id, l)
  /\ IF stage = "snapshot" /\ frame.id \notin known
     THEN raced' = TRUE /\ toVisit' \in SUBSET (known \cup {frame.id})
     ELSE UNCHANGED <<raced, toVisit>>
  /\ UNCHANGED <<hubVars, log, stage, open>>

\* The tracker's callbacks: one line in the log, whose mutex is held for one
\* line, and one call posted to the event log of the dashboard.  The log and the
\* posts have no reader in common, so both are written in one step.
FireOpened == /\ Working
              /\ Feed!Opened
              /\ log' = Append(log, Line("OPEN", fired'.id, fired'.level))
              /\ UNCHANGED <<hubVars, mainVars>>

\* (Mutant of FireClosed: the line has the level of the frame, which is the new
\* level when an alert escalates.)
FireClosedNewLevel == /\ Working
                      /\ Feed!Closed
                      /\ log' = Append(log, Line("CLOSED", fired'.id, input.level))
                      /\ UNCHANGED <<hubVars, mainVars>>

FireClosed == /\ Working
              /\ Feed!Closed
              /\ log' = Append(log, Line("CLOSED", fired'.id, fired'.level))
              /\ UNCHANGED <<hubVars, mainVars>>

\* The other steps of process().
UpdateChannel == /\ Working
                 /\ Feed!Update
                 /\ UNCHANGED <<hubVars, log, mainVars>>

\* process() has returned: the frame is pushed, and the hub callback returns.
PushFrame == /\ Working
             /\ Feed!PushFrame
             /\ Hub!Deliver
             /\ UNCHANGED <<log, mainVars>>

------------------------------------------------------------------------------
(* The Qt main thread.                                                       *)

Goes(from, to) == stage = from /\ stage' = to

\* reader.start() throws when the port cannot be opened or configured, and nobody
\* catches that: std::terminate.
PortFails == /\ Goes("open", "killed")
             /\ UNCHANGED <<hubVars, feedVars, log, toVisit, raced, open, disturbed>>

StartReader == /\ Goes("open", "setup")
               /\ UNCHANGED <<hubVars, feedVars, log, toVisit, raced, open, disturbed>>

\* hub.start()
StartHub == /\ stage = "setup"
            /\ Hub!Start \/ Hub!Spawn
            /\ stage' = IF main' = "idle" THEN "exec" ELSE "setup"
            /\ UNCHANGED <<feedVars, log, toVisit, raced, open, disturbed>>

\* app.exec() delivers the queued calls.
HandlePost == /\ stage = "exec"
              /\ Feed!HandlePost
              /\ UNCHANGED <<hubVars, log, mainVars, disturbed>>

\* (Mutant of Quit: main() does not flush the open events.)
QuitWithoutFlush == /\ Goes("exec", "stopHub")
                    /\ disturbed' = (worker = "evaluate")
                    /\ UNCHANGED <<hubVars, feedVars, log, toVisit, raced, open>>

\* The window is closed: app.exec() returns, and openEvents() begins to iterate
\* over m_states.  Calls still queued are never made.
Quit == /\ Goes("exec", "snapshot")
        /\ toVisit' = known
        /\ disturbed' = (worker = "evaluate")
        /\ UNCHANGED <<hubVars, feedVars, log, raced, open>>

\* openEvents() looks at one channel.  (A channel that is seen twice at one level is
\* one event here; the code then writes its INTERRUPTED line twice.)
Visit == /\ stage = "snapshot"
         /\ \E s \in toVisit :
              /\ toVisit' = toVisit \ {s}
              /\ open' = IF states[s].isOpen
                          THEN open \cup {[id |-> s, level |-> states[s].current]} ELSE open
         /\ UNCHANGED <<hubVars, feedVars, log, stage, raced, disturbed>>

\* After an insertion the iteration may miss channels at any later time, too.
Miss == /\ stage = "snapshot" /\ raced
        /\ \E s \in toVisit : toVisit' = toVisit \ {s}
        /\ UNCHANGED <<hubVars, feedVars, log, stage, raced, open, disturbed>>

\* openEvents() returns.
Collected == /\ Goes("snapshot", "flush")
             /\ toVisit = {}
             /\ UNCHANGED <<hubVars, feedVars, log, toVisit, raced, open, disturbed>>

\* flushOpenEvents() writes one line per event, in the order of the table.
FlushLine == /\ stage = "flush"
             /\ \E ev \in open :
                  /\ log' = Append(log, Line("INTERRUPTED", ev.id, ev.level))
                  /\ open' = open \ {ev}
             /\ UNCHANGED <<hubVars, feedVars, stage, toVisit, raced, disturbed>>

Flushed == /\ Goes("flush", "stopHub")
           /\ open = {}
           /\ UNCHANGED <<hubVars, feedVars, log, toVisit, raced, open, disturbed>>

\* (Mutant of StopHub: hub.stop() does not push the sentinel.)
StopHubNoSentinel == /\ stage = "stopHub"
                     /\ Hub!Stop \/ Hub!SkipSentinel \/ Hub!Join
                     /\ stage' = IF main' = "idle" THEN "stopReader" ELSE "stopHub"
                     /\ UNCHANGED <<feedVars, log, toVisit, raced, open, disturbed>>

\* (Mutant of StopHub: hub.stop() does not join the worker.)
StopHubNoJoin == /\ stage = "stopHub"
                 /\ Hub!Stop \/ Hub!PushSentinel
                 /\ stage' = IF main' = "join" THEN "stopReader" ELSE "stopHub"
                 /\ UNCHANGED <<feedVars, log, toVisit, raced, open, disturbed>>

\* hub.stop()
StopHub == /\ stage = "stopHub"
           /\ Hub!Stop \/ Hub!PushSentinel \/ Hub!Join
           /\ stage' = IF main' = "idle" THEN "stopReader" ELSE "stopHub"
           /\ UNCHANGED <<feedVars, log, toVisit, raced, open, disturbed>>

\* reader.stop(), and main() returns.
StopReader == /\ Goes("stopReader", "exit")
              /\ UNCHANGED <<hubVars, feedVars, log, toVisit, raced, open, disturbed>>

\* SIGTERM, for which the process installs no handler: it ends at once, and what
\* was queued or on the screen is gone.  The log file stays.
Terminated == /\ Alive /\ stage' = "killed"
              /\ buffer' = <<>> /\ posts' = <<>> /\ entries' = <<>>
              /\ toVisit' = {} /\ raced' = FALSE /\ open' = {}
              /\ UNCHANGED <<running, main, worker, frame, stale, starts, parsed, accepted,
                             delivered, late, known, states, step, input, told, fired,
                             tracking, config, rows, criticalCount, warningCount, log,
                             disturbed>>

------------------------------------------------------------------------------
WorkerStep == WorkerLoop \/ Evaluate \/ FireOpened \/ FireClosed \/ UpdateChannel \/ PushFrame
EndStep    == Visit \/ Miss \/ Collected \/ FlushLine \/ Flushed \/ StopHub \/ StopReader
MainStep   == PortFails \/ StartReader \/ StartHub \/ HandlePost \/ Quit \/ EndStep

Next == Receive \/ WorkerStep \/ MainStep \/ Terminated

Spec == Init /\ [][Next]_vars

\* Both threads are scheduled, and the event loop handles what is queued.  Nobody
\* has to close the window, and the reader need not receive anything.
FairSpec == Spec /\ WF_vars(WorkerStep) /\ WF_vars(EndStep)
                 /\ WF_vars(StartHub) /\ WF_vars(HandlePost)

------------------------------------------------------------------------------
Opens(s)    == {i \in DOMAIN log : log[i].kind = "OPEN" /\ log[i].id = s}
Between(i, s) ==   \* the lines about s after line i, up to its next OPEN
  {j \in DOMAIN log : j > i /\ log[j].id = s /\ log[j].kind # "OPEN"
                     /\ \A o \in Opens(s) : o > i => j < o}
Closings(i, s) == {j \in Between(i, s) : log[j].kind = "CLOSED"}

\* README:197-206, the single-event lifecycle, as the session log records it:
\* between two OPEN lines of a sensor there is exactly one CLOSED line, no CLOSED
\* line comes before an OPEN, every CLOSED line carries the level of the OPEN it
\* answers, and the last OPEN is unanswered exactly while the tracker holds the
\* alert open.  The interleaving of the two threads cannot disturb this, even
\* during the shutdown.
LogPairsUp ==
  \A s \in SensorIds :
    /\ \A i \in Opens(s) :
         /\ \A j \in Closings(i, s) : log[j].level = log[i].level
         /\ IF \E o \in Opens(s) : o > i \/ told[s] = "Normal"
            THEN \E j \in Closings(i, s) : Closings(i, s) = {j}
            ELSE Closings(i, s) = {} /\ log[i].level = told[s]
    /\ \A j \in DOMAIN log :
         log[j].kind = "CLOSED" /\ log[j].id = s => \E i \in Opens(s) : i < j
    /\ told[s] # "Normal" => Opens(s) # {}

\* What flushOpenEvents() is for.  If the worker processes nothing while main()
\* shuts down, then each OPEN line of the finished log is answered exactly once,
\* by a CLOSED or by an INTERRUPTED line of its own level, and an INTERRUPTED line
\* is only written for an alert that is open.
QuietShutdownComplete ==
  stage = "exit" /\ ~disturbed =>
    \A s \in SensorIds :
      /\ \A i \in Opens(s) :
           \E j \in Between(i, s) : Between(i, s) = {j} /\ log[j].level = log[i].level
      /\ \A j \in DOMAIN log :
           log[j].kind = "INTERRUPTED" /\ log[j].id = s => \E i \in Opens(s) : i < j

\* When the event queue is empty and no callback is running, the dashboard shows
\* what the tracker knows, although it learned it from three kinds of queued
\* events: each channel has the level of its last frame, a channel without alert
\* has no ACTIVE entry, and an open alert has exactly one, with its level, unless
\* kMaxEvents younger alerts have pushed it out of the list.
DashboardAgrees ==
  stage # "killed" /\ Feed!Quiet =>
    \A s \in SensorIds :
      LET active  == Feed!Board!Active(config[s])
          younger == {j \in DOMAIN log : log[j].kind = "OPEN"
                                          /\ \E i \in Opens(s) : \A o \in Opens(s) : o <= i /\ i < j}
      IN  /\ rows[s].level = told[s]
          /\ told[s] = "Normal" => active = {}
          /\ told[s] # "Normal" =>
               IF Cardinality(younger) >= MaxEvents THEN active = {}
               ELSE \E k \in active : active = {k} /\ entries[k].level = told[s]

\* The lambdas of main() refer to its tracker, log and models, which it destroys
\* before the hub that runs them (monitor/src/main.cpp:40, 56-62): when hub.stop()
\* has returned, no callback is left half done and none will begin, whatever frames
\* the reader goes on to queue.
NoCallbackLeft == stage \in {"stopReader", "exit"} =>
                    worker = "none" /\ ~tracking /\ step = "idle"

\* Once the window is closed the process ends: the flush and the join of the worker
\* return, whatever the worker is doing.  (That reader.stop() returns, one step here, is
\* StopReturns of SerialPortReader, with the exception it makes.)
ShutdownTerminates == stage = "snapshot" ~> stage \in {"exit", "killed"}

\* README:210 and README:507: no alert is silently lost, every alert still open at
\* the end of the session is marked INTERRUPTED.
AllAnswered == \A s \in SensorIds : \A i \in Opens(s) : Between(i, s) # {}

\* It does not hold of a shutdown that the worker outlives: main.cpp:117 flushes
\* before main.cpp:118 stops the hub.
NoAlertLost == stage = "exit" => AllAnswered
==============================================================================
