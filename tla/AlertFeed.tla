------------------------------ MODULE AlertFeed -------------------------------
(***************************************************************************)
(* The lambdas of monitor/src/main.cpp:66-92 between the alert tracker, on  *)
(* the worker thread, and the dashboard, on the Qt main thread.  They are   *)
(* joined by the queued calls of Qt, which are delivered in the order they  *)
(* were posted.                                                             *)
(***************************************************************************)
EXTENDS AlertTracker, Naturals, Sequences, FiniteSets

CONSTANTS MaxEvents,  \* kMaxEvents
          Configs,    \* the display names the configuration may give
          MaxLag      \* bound: calls queued when a frame comes

ASSUME FeedAssumption == /\ IsFiniteSet(Sensors) /\ Sensors \subseteq Nat
                         /\ MaxEvents \in Nat

VARIABLES tracking,   \* the worker is inside the hub callback
          posts,      \* the queued calls, oldest first
          config, rows, criticalCount, warningCount, entries   \* see Dashboard

boardVars == <<config, rows, criticalCount, warningCount, entries>>
feedVars  == <<vars, tracking, posts, boardVars>>

Board == INSTANCE Dashboard

FramePost(s, l) == [kind |-> "frame", id |-> s, level |-> l]

FeedInit == /\ Init /\ Board!Init
            /\ \E c \in Configs : Board!SetConfigs(c)
            /\ tracking = FALSE /\ posts = <<>>

\* The hub callback calls tracker.process(frame).
Receive(s, l) == /\ ~tracking /\ tracking' = TRUE
                 /\ Process(s, l)
                 /\ UNCHANGED <<posts, boardVars>>

\* The steps of process() that call nobody.
Update == (Fill \/ Reopen) /\ UNCHANGED <<tracking, posts, boardVars>>

\* Its callbacks each post a call for the event log.
Opened == /\ FireOpened
          /\ posts' = Append(posts, fired')
          /\ UNCHANGED <<tracking, boardVars>>

Closed == /\ FireClosed \/ FireEscalated
          /\ posts' = Append(posts, fired')
          /\ UNCHANGED <<tracking, boardVars>>

\* process() has returned: sensorModel.pushFrame(frame).
PushFrame == /\ tracking /\ tracking' = FALSE
             /\ step = "idle"
             /\ posts' = Append(posts, FramePost(input.id, input.level))
             /\ UNCHANGED <<vars, boardVars>>

\* The event loop of the main thread makes the oldest call.
HandlePost ==
  /\ posts # <<>> /\ posts' = Tail(posts)
  /\ LET p == Head(posts)
     IN  \/ p.kind = "opened" /\ Board!OnAlertOpened(p.id, p.level)
         \/ p.kind = "closed" /\ Board!OnAlertClosed(p.id)
         \/ p.kind = "frame"  /\ Board!PushFrame(p.id, p.level)
  /\ UNCHANGED <<vars, tracking>>

FeedNext == \/ Len(posts) <= MaxLag /\ \E s \in Sensors, l \in Levels : Receive(s, l)
            \/ Update \/ Opened \/ Closed \/ PushFrame \/ HandlePost

FeedSpec == FeedInit /\ [][FeedNext]_feedVars

------------------------------------------------------------------------------
FeedTypeOK ==
  /\ tracking \in BOOLEAN /\ (step # "idle" => tracking)
  /\ posts \in Seq([kind : {"opened", "closed", "frame"}, id : Sensors, level : Levels])
  /\ config \in Configs
  /\ rows \in [Sensors -> Board!Row]
  /\ criticalCount \in 0 .. Cardinality(Sensors) /\ warningCount \in 0 .. Cardinality(Sensors)
  /\ entries \in Seq(Board!Entry) /\ Len(entries) <= MaxEvents

\* Nothing is queued and no callback is running.
Quiet == posts = <<>> /\ ~tracking

\* No other sensor has the display name of s.
Own(s) == \A r \in Sensors : config[r] = config[s] => r = s

\* README:269-281 and 305, the channel table and its counters, for display names that
\* name one sensor.  When all is quiet, the row of such a sensor has data, its own,
\* exactly if the sensor has sent some, and shows the level the tracker has for it;
\* and if all names are of this kind, the counters are the numbers of criticals and
\* warnings the tracker has.  Nothing is claimed of sensors that share a name: they
\* write to one row in turn (SensorModel.cpp:129), the other row never gets data, and
\* the counters miss an alarm, which is not what those lines say.
TableAgrees ==
  Quiet =>
    /\ \A s \in Sensors :
         Own(s) => /\ rows[s].hasData <=> s \in known
                   /\ rows[s].hasData => rows[s].of = s
                   /\ rows[s].level = told[s]
    /\ (\A s \in Sensors : Own(s)) =>
         /\ criticalCount = Cardinality({s \in Sensors : told[s] = "Critical"})
         /\ warningCount  = Cardinality({s \in Sensors : told[s] = "Warning"})

\* README:283-297, the event log, with names that need not be unique.  When all is
\* quiet, a name has as many ACTIVE entries as its sensors have open alerts, or
\* fewer once the list is full, never more: no alert stays ACTIVE for ever.  The
\* ACTIVE entry of a sensor with a name of its own has the level the tracker has.
EntriesAgree ==
  Quiet =>
    \A s \in Sensors :
      LET named  == {r \in Sensors : config[r] = config[s]}
          active == Board!Active(config[s])
          open   == {r \in named : told[r] # "Normal"}
      IN  /\ Cardinality(active) <= Cardinality(open)
          /\ Cardinality(active) < Cardinality(open) => Len(entries) = MaxEvents
          /\ named = {s} => \A k \in active : entries[k].level = told[s]
==============================================================================
