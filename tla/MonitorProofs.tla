----------------------------- MODULE MonitorProofs -----------------------------
(* Theorems about Monitor for every set of sensors, every capacity of the hub's *)
(* buffer, every length of the event log and any number of frames.              *)
EXTENDS Monitor, SequenceTheorems, FiniteSetTheorems, FunctionTheorems, TLAPS

HubP  == INSTANCE SensorHubProofs
FeedP == INSTANCE AlertFeedProofs WITH Sensors <- SensorIds, MaxLag <- 0,
                                       Configs <- {[s \in SensorIds |-> s]}

\* What the composition assumes of its constants is what its parts assume.
LEMMA Assumed == HubP!HubAssumption /\ FeedP!FeedAssumption
<1>1. ASSUME NEW n \in Nat PROVE IsFiniteSet(0 .. n)
  <2>1. 0 \in Int /\ n \in Int
    OBVIOUS
  <2>2. QED BY <2>1, FS_Interval
<1>2. IsFiniteSet(SensorIds) /\ SensorIds \subseteq Nat
  <2>1. PICK n \in Nat : n = 255
    OBVIOUS
  <2>2. SensorIds \subseteq 0 .. n
    BY <2>1, MonitorAssumption
  <2>3. IsFiniteSet(SensorIds)
    BY <1>1, <2>2, FS_Subset
  <2>4. QED BY <2>2, <2>3
<1>3. QED
  BY <1>2, MonitorAssumption DEF HubP!HubAssumption, FeedP!FeedAssumption, MaxStarts,
     IsFiniteSet, FeedP!IsFiniteSet

------------------------------------------------------------------------------
(* The components inside the process.                                        *)

\* A step of the process is a step of the hub, or leaves the hub alone, or kills it.
LEMMA HubStep == [Next]_vars => Terminated \/ [HubP!Next]_(HubP!vars)
<1> SUFFICES ASSUME [Next]_vars, ~Terminated PROVE HubP!Next \/ UNCHANGED HubP!vars
  OBVIOUS
<1> USE DEF MaxStarts
<1>1. CASE Receive
  BY <1>1 DEF Receive, Hub!Ingest, Hub!TryPush, HubP!Next, HubP!Ingest, HubP!TryPush
<1>2. CASE WorkerLoop
  BY <1>2 DEF WorkerLoop, Hub!Check, Hub!Pop, Hub!SentinelId, HubP!Next, HubP!WorkerStep,
              HubP!Check, HubP!Pop, HubP!SentinelId
<1>3. CASE PushFrame
  BY <1>3 DEF PushFrame, Hub!Deliver, HubP!Next, HubP!WorkerStep, HubP!Deliver
<1>4. CASE StartHub
  BY <1>4 DEF StartHub, Hub!Start, Hub!Spawn, HubP!Next, HubP!MainStep, HubP!Start, HubP!Spawn
<1>5. CASE StopHub
  BY <1>5 DEF StopHub, Hub!Stop, Hub!PushSentinel, Hub!Join, Hub!TryPush, Hub!Sentinel,
              Hub!SentinelId, HubP!Next, HubP!MainStep, HubP!Stop, HubP!PushSentinel, HubP!Join,
              HubP!TryPush, HubP!Sentinel, HubP!SentinelId
<1>6. CASE Evaluate \/ FireOpened \/ FireClosed \/ UpdateChannel
  BY <1>6 DEF Evaluate, FireOpened, FireClosed, UpdateChannel, hubVars, HubP!vars
<1>7. CASE \/ PortFails \/ StartReader \/ HandlePost \/ Quit \/ Visit \/ Miss \/ Collected
           \/ FlushLine \/ Flushed \/ StopReader
  BY <1>7 DEF PortFails, StartReader, HandlePost, Quit, Visit, Miss, Collected, FlushLine,
              Flushed, StopReader, hubVars, HubP!vars
<1>8. CASE UNCHANGED vars
  BY <1>8 DEF vars, hubVars, HubP!vars
<1>9. QED BY <1>1, <1>2, <1>3, <1>4, <1>5, <1>6, <1>7, <1>8
          DEF Next, WorkerStep, MainStep, EndStep

\* The type of the hub, within the composition.
LEMMA HubCorrect == Spec => []HubP!TypeOK
<1>1. Init => HubP!TypeOK
  <2>1. Init => HubP!Init
    BY DEF Init, Hub!Init, Hub!Sentinel, Hub!SentinelId, HubP!Init, HubP!Sentinel,
           HubP!SentinelId
  <2>2. QED BY <2>1, Assumed, HubP!TypeInit
<1>2. HubP!TypeOK /\ [Next]_vars => HubP!TypeOK'
  <2>1. HubP!TypeOK /\ [HubP!Next]_(HubP!vars) => HubP!TypeOK'
    BY Assumed, HubP!TypeStep
  <2>2. ASSUME HubP!TypeOK, Terminated PROVE HubP!TypeOK'
    <3>1. /\ buffer' \in Seq(HubP!Frames \cup {HubP!Sentinel})
          /\ Len(buffer') = 0 /\ Cap \in Nat
      BY <2>2, MonitorAssumption DEF Terminated
    <3>2. QED BY <2>2, <3>1 DEF Terminated, HubP!TypeOK, HubP!Frames
  <2>3. QED BY <2>1, <2>2, HubStep
<1>3. QED BY <1>1, <1>2, PTL DEF Spec

\* A process that is killed stays killed.
LEMMA KilledStays == [Next]_vars /\ stage = "killed" => stage' = "killed"
<1> SUFFICES ASSUME [Next]_vars, stage = "killed" PROVE stage' = "killed"
  OBVIOUS
<1>1. CASE Receive \/ WorkerStep
  BY <1>1 DEF Receive, WorkerStep, WorkerLoop, Evaluate, FireOpened, FireClosed, UpdateChannel,
              PushFrame, Working, Alive
<1>2. CASE MainStep
  BY <1>2 DEF MainStep, EndStep, PortFails, StartReader, StartHub, HandlePost, Quit, Visit, Miss,
              Collected, FlushLine, Flushed, StopHub, StopReader, Goes
<1>3. CASE Terminated \/ UNCHANGED vars
  BY <1>3 DEF Terminated, vars, mainVars
<1>4. QED BY <1>1, <1>2, <1>3 DEF Next

\* What the hub alone keeps, the hub in the process keeps, until the process is killed.
\* (A kill empties the buffer, which no step of the hub does.)
HubInv == stage # "killed" => HubP!SessionInv /\ HubP!StreamInv

\* Until the process is killed, stop() does not join a worker that sleeps, at most two
\* frames come after the sentinel, there is one worker, and the frames reach the tracker
\* in the order in which they were parsed, each at most once.
THEOREM HubInsideMonitor ==
  Spec => [](stage # "killed" => /\ HubP!StopNeverHangs /\ HubP!BoundedDrain
                                 /\ HubP!OneWorker /\ HubP!InOrder)
<1>1. Init => HubInv
  <2>1. Init => HubP!Init
    BY DEF Init, Hub!Init, Hub!Sentinel, Hub!SentinelId, HubP!Init, HubP!Sentinel,
           HubP!SentinelId
  <2>2. QED BY <2>1, Assumed, HubP!SessionInit, HubP!StreamInit DEF HubInv
<1>2. HubP!TypeOK /\ HubInv /\ [Next]_vars => HubInv'
  <2>1. /\ HubP!TypeOK /\ HubP!SessionInv /\ HubP!StreamInv /\ [HubP!Next]_(HubP!vars)
        => HubP!SessionInv' /\ HubP!StreamInv'
    BY Assumed, HubP!SessionStep, HubP!StreamStep
  <2>2. Terminated => stage' = "killed"
    BY DEF Terminated
  <2>3. QED BY <2>1, <2>2, HubStep, KilledStays DEF HubInv
<1>3. HubP!TypeOK /\ HubInv /\ stage # "killed"
      => HubP!StopNeverHangs /\ HubP!BoundedDrain /\ HubP!OneWorker /\ HubP!InOrder
  BY DEF HubInv, HubP!SessionInv, HubP!StreamInv, HubP!StopNeverHangs, HubP!BoundedDrain,
         HubP!OneWorker, HubP!TypeOK
<1>4. QED BY <1>1, <1>2, <1>3, HubCorrect, PTL DEF Spec

\* The event loop makes the calls as the event loop of AlertFeed does.
LEMMA HandleStep == HandlePost => FeedP!HandlePost
<1> SUFFICES ASSUME HandlePost PROVE FeedP!HandlePost
  OBVIOUS
<1>1. Feed!HandlePost
  BY DEF HandlePost
<1>2. \A S : FeedP!Board!Cardinality(S) = Feed!Board!Cardinality(S)
  BY DEF FeedP!Board!Cardinality, Feed!Board!Cardinality
<1>3. \A l, table : FeedP!Board!At(l, table) = Feed!Board!At(l, table)
  BY <1>2 DEF FeedP!Board!At, Feed!Board!At
<1>4. \A s, l : /\ Feed!Board!OnAlertOpened(s, l) => FeedP!Board!OnAlertOpened(s, l)
                /\ Feed!Board!OnAlertClosed(s) => FeedP!Board!OnAlertClosed(s)
  BY DEF Feed!Board!OnAlertOpened, Feed!Board!Newest, Feed!Board!OnAlertClosed,
         Feed!Board!Active, Feed!Board!Closed, FeedP!Board!OnAlertOpened, FeedP!Board!Newest,
         FeedP!Board!OnAlertClosed, FeedP!Board!Active, FeedP!Board!Closed
<1>5. \A s, l : Feed!Board!PushFrame(s, l) => FeedP!Board!PushFrame(s, l)
  BY <1>3 DEF Feed!Board!PushFrame, Feed!Board!RowOf, Feed!Board!RecomputeAlertCounts,
              FeedP!Board!PushFrame, FeedP!Board!RowOf, FeedP!Board!RecomputeAlertCounts
<1>6. QED BY <1>1, <1>4, <1>5 DEF Feed!HandlePost, FeedP!HandlePost, Feed!vars, FeedP!vars

\* The same for the tracker and the dashboard: a step is one of AlertFeed, or leaves
\* it alone, or kills the process, which leaves the tracker as it is.
LEMMA MonitorFeedStep ==
  HubP!TypeOK /\ [Next]_vars => Terminated \/ [FeedP!AnyStep]_(FeedP!feedVars)
<1> SUFFICES ASSUME HubP!TypeOK, [Next]_vars, ~Terminated
             PROVE  FeedP!AnyStep \/ UNCHANGED FeedP!feedVars
  OBVIOUS
<1>1. CASE Evaluate
  <2>1. frame.id \in SensorIds
    BY <1>1 DEF Evaluate, HubP!TypeOK, HubP!Frames
  <2>2. PICK l \in Levels : Feed!Receive(frame.id, l)
    BY <1>1 DEF Evaluate
  <2>3. FeedP!Receive(frame.id, l) /\ l \in FeedP!Levels
    BY <2>2 DEF Levels, Feed!Levels, FeedP!Levels, Feed!Receive, FeedP!Receive,
                Feed!Process, Feed!BeginOpen, Feed!BeginClose, Feed!BeginEscalate, Feed!Stay,
                Feed!Call, FeedP!Process, FeedP!BeginOpen, FeedP!BeginClose,
                FeedP!BeginEscalate, FeedP!Stay, FeedP!Call, Feed!boardVars, FeedP!boardVars
  <2>4. QED BY <2>1, <2>3 DEF FeedP!AnyStep
<1>2. CASE FireOpened
  BY <1>2 DEF FireOpened, Feed!Opened, Feed!FireOpened, Feed!Event, Feed!boardVars,
              FeedP!AnyStep, FeedP!Opened, FeedP!FireOpened, FeedP!Event, FeedP!boardVars
<1>3. CASE FireClosed
  BY <1>3 DEF FireClosed, Feed!Closed, Feed!FireClosed, Feed!FireEscalated, Feed!Event,
              Feed!boardVars, FeedP!AnyStep, FeedP!Closed, FeedP!FireClosed,
              FeedP!FireEscalated, FeedP!Event, FeedP!boardVars
<1>4. CASE UpdateChannel
  BY <1>4 DEF UpdateChannel, Feed!Update, Feed!Fill, Feed!Reopen, Feed!boardVars,
              FeedP!AnyStep, FeedP!Update, FeedP!Fill, FeedP!Reopen, FeedP!boardVars
<1>5. CASE PushFrame
  BY <1>5 DEF PushFrame, Feed!PushFrame, Feed!FramePost, Feed!vars, Feed!boardVars,
              FeedP!AnyStep, FeedP!PushFrame, FeedP!FramePost, FeedP!vars, FeedP!boardVars
<1>6. CASE HandlePost
  BY <1>6, HandleStep DEF FeedP!AnyStep
<1>7. CASE \/ Receive \/ WorkerLoop \/ PortFails \/ StartReader \/ StartHub \/ Quit \/ Visit
           \/ Miss \/ Collected \/ FlushLine \/ Flushed \/ StopHub \/ StopReader
  BY <1>7 DEF Receive, WorkerLoop, PortFails, StartReader, StartHub, Quit, Visit, Miss,
              Collected, FlushLine, Flushed, StopHub, StopReader, feedVars, boardVars,
              FeedP!feedVars, FeedP!vars, FeedP!boardVars
<1>8. CASE UNCHANGED vars
  BY <1>8 DEF vars, feedVars, boardVars, FeedP!feedVars, FeedP!vars, FeedP!boardVars
<1>9. QED BY <1>1, <1>2, <1>3, <1>4, <1>5, <1>6, <1>7, <1>8
          DEF Next, WorkerStep, MainStep, EndStep

\* The tracker inside the process takes no step but those of the tracker by itself.
LEMMA MonitorRunsTracker == Spec => FeedP!Spec
<1>1. Init => FeedP!Init
  BY DEF Init, Feed!FeedInit, Feed!Init, FeedP!Init, Feed!Default, FeedP!Default,
         Feed!Nothing, FeedP!Nothing
<1>2. HubP!TypeOK /\ [Next]_vars => [FeedP!Next]_(FeedP!vars)
  <2>1. [FeedP!AnyStep]_(FeedP!feedVars) => [FeedP!Next]_(FeedP!vars)
    BY Assumed, FeedP!FeedStep
  <2>2. Terminated => UNCHANGED FeedP!vars
    BY DEF Terminated, FeedP!vars
  <2>3. QED BY <2>1, <2>2, MonitorFeedStep
<1>3. QED BY <1>1, <1>2, HubCorrect, PTL DEF Spec, FeedP!Spec

\* In the process, too, the callbacks follow the documented lifecycle, and between two
\* calls the listener agrees with the tracker.
THEOREM LifecycleInMonitor == Spec => FeedP!FollowsLifecycle /\ []FeedP!Agreement
<1>1. FeedP!Spec => FeedP!FollowsLifecycle
  BY Assumed, FeedP!ImplementsLifecycle
<1>2. FeedP!Spec => []FeedP!Agreement
  BY Assumed, FeedP!TrackerAgreement
<1>3. QED BY <1>1, <1>2, MonitorRunsTracker

\* The type and the steps of the tracker, within the composition.
LEMMA TrackerCorrect == Spec => []FeedP!TypeOK /\ []FeedP!StepInv
<1>1. FeedP!Spec => []FeedP!TypeOK
  BY Assumed, FeedP!TypeCorrect
<1>2. FeedP!Spec => []FeedP!StepInv
  BY Assumed, FeedP!StepCorrect
<1>3. QED BY <1>1, <1>2, MonitorRunsTracker, PTL

\* The type of the dashboard, within the composition.
LEMMA FeedCorrect == Spec => []FeedP!FeedTypeOK /\ []FeedP!InHand
<1>1. Init => FeedP!FeedTypeOK /\ FeedP!InHand
  <2> SUFFICES ASSUME Init PROVE FeedP!FeedTypeOK /\ FeedP!InHand
    OBVIOUS
  <2>1. FeedP!FeedInit
    BY DEF Init, Feed!FeedInit, Feed!Init, FeedP!Init, Feed!Default, FeedP!Default,
           Feed!Nothing, FeedP!Nothing, FeedP!FeedInit, Feed!Board!Init, FeedP!Board!Init,
           Feed!Board!SetConfigs, FeedP!Board!SetConfigs
  <2>2. FeedP!FeedTypeOK
    BY <2>1, Assumed, FeedP!FeedTypeInit
  <2>3. FeedP!InHand
    BY <2>1 DEF FeedP!FeedInit, FeedP!InHand
  <2>4. QED BY <2>2, <2>3
<1>2. /\ HubP!TypeOK /\ FeedP!TypeOK /\ FeedP!FeedTypeOK /\ FeedP!InHand /\ [Next]_vars
      => FeedP!FeedTypeOK' /\ FeedP!InHand'
  <2>1. FeedP!TypeOK /\ FeedP!InHand /\ FeedP!FeedTypeOK /\ [FeedP!AnyStep]_(FeedP!feedVars)
          => FeedP!FeedTypeOK' /\ FeedP!InHand'
    BY Assumed, FeedP!FeedTypeStep, FeedP!HandStep
  <2>2. ASSUME FeedP!FeedTypeOK, FeedP!InHand, Terminated
        PROVE  FeedP!FeedTypeOK' /\ FeedP!InHand'
    <3>1. posts' = <<>> /\ entries' = <<>> /\ Len(entries') <= MaxEvents
      BY <2>2, MonitorAssumption DEF Terminated
    <3>2. QED BY <2>2, <3>1 DEF Terminated, FeedP!FeedTypeOK, FeedP!InHand, FeedP!Board!Entry
  <2>3. QED BY <2>1, <2>2, MonitorFeedStep
<1>3. QED BY <1>1, <1>2, HubCorrect, TrackerCorrect, PTL DEF Spec

------------------------------------------------------------------------------
(* The log.  These are Opens, Between, Closings and LogPairsUp of a log lg in  *)
(* which the tracker holds an alert of level t for s.                          *)

Lines == [kind : {"OPEN", "CLOSED", "INTERRUPTED"}, id : SensorIds, level : Levels]

OpensIn(lg, s) == {i \in DOMAIN lg : lg[i].kind = "OPEN" /\ lg[i].id = s}
BetweenIn(lg, i, s) == {j \in DOMAIN lg : j > i /\ lg[j].id = s /\ lg[j].kind # "OPEN"
                                           /\ \A o \in OpensIn(lg, s) : o > i => j < o}
ClosingsIn(lg, i, s) == {j \in BetweenIn(lg, i, s) : lg[j].kind = "CLOSED"}

PairsUp(lg, t, s) ==
  /\ \A i \in OpensIn(lg, s) :
       /\ \A j \in ClosingsIn(lg, i, s) : lg[j].level = lg[i].level
       /\ IF \E o \in OpensIn(lg, s) : o > i \/ t = "Normal"
          THEN \E j \in ClosingsIn(lg, i, s) : ClosingsIn(lg, i, s) = {j}
          ELSE ClosingsIn(lg, i, s) = {} /\ lg[i].level = t
  /\ \A j \in DOMAIN lg :
       lg[j].kind = "CLOSED" /\ lg[j].id = s => \E i \in OpensIn(lg, s) : i < j
  /\ t # "Normal" => OpensIn(lg, s) # {}

AllPairUp == \A s \in SensorIds : PairsUp(log, told[s], s)

\* AllPairUp is a statement about the log alone.
LEMMA LogIsPaired == AllPairUp <=> LogPairsUp
<1>1. \A s : Opens(s) = OpensIn(log, s)
  BY DEF Opens, OpensIn
<1>2. \A i, s : Between(i, s) = BetweenIn(log, i, s)
  BY <1>1 DEF Between, BetweenIn
<1>3. \A i, s : Closings(i, s) = ClosingsIn(log, i, s)
  BY <1>2 DEF Closings, ClosingsIn
<1>4. QED BY <1>1, <1>3 DEF LogPairsUp, AllPairUp, PairsUp

\* A line that is added is the last, and the others stay where they are.
LEMMA AppendLine ==
  ASSUME NEW lg \in Seq(Lines), NEW ln \in Lines
  PROVE  LET n == Len(lg) + 1
             lg2 == Append(lg, ln)
         IN  /\ n \in Nat /\ n \notin DOMAIN lg /\ DOMAIN lg2 = DOMAIN lg \cup {n}
             /\ \A i \in DOMAIN lg : i \in Nat /\ i < n /\ lg2[i] = lg[i]
             /\ lg2[n] = ln
OBVIOUS

\* The OPEN lines after one more line.
LEMMA AppendOpens ==
  ASSUME NEW lg \in Seq(Lines), NEW ln \in Lines, NEW s
  PROVE  OpensIn(Append(lg, ln), s) =
           IF ln.kind = "OPEN" /\ ln.id = s THEN OpensIn(lg, s) \cup {Len(lg) + 1}
                                            ELSE OpensIn(lg, s)
<1> DEFINE n == Len(lg) + 1
           lg2 == Append(lg, ln)
<1>1. /\ n \notin DOMAIN lg /\ DOMAIN lg2 = DOMAIN lg \cup {n}
      /\ \A i \in DOMAIN lg : lg2[i] = lg[i]
      /\ lg2[n] = ln
  BY AppendLine
<1> HIDE DEF n, lg2
<1>2. QED BY <1>1 DEF OpensIn, n, lg2

\* A line that is added comes after every OPEN line there is.
LEMMA AppendBetween ==
  ASSUME NEW lg \in Seq(Lines), NEW ln \in Lines, NEW s, NEW i \in OpensIn(lg, s)
  PROVE  BetweenIn(Append(lg, ln), i, s) =
           IF ln.id = s /\ ln.kind # "OPEN" /\ ~\E o \in OpensIn(lg, s) : o > i
           THEN BetweenIn(lg, i, s) \cup {Len(lg) + 1} ELSE BetweenIn(lg, i, s)
<1> DEFINE n == Len(lg) + 1
           lg2 == Append(lg, ln)
<1>1. /\ n \in Nat /\ n \notin DOMAIN lg /\ DOMAIN lg2 = DOMAIN lg \cup {n}
      /\ \A k \in DOMAIN lg : k \in Nat /\ k < n /\ lg2[k] = lg[k]
      /\ lg2[n] = ln
  BY AppendLine
<1>2. OpensIn(lg2, s) = IF ln.kind = "OPEN" /\ ln.id = s THEN OpensIn(lg, s) \cup {n}
                                                         ELSE OpensIn(lg, s)
  BY AppendOpens
<1>3. OpensIn(lg, s) \subseteq DOMAIN lg
  BY DEF OpensIn
<1> HIDE DEF n, lg2
<1>4. ASSUME NEW j \in DOMAIN lg
      PROVE  j \in BetweenIn(lg2, i, s) <=> j \in BetweenIn(lg, i, s)
  BY <1>1, <1>2, <1>3, <1>4 DEF BetweenIn
<1>5. n \in BetweenIn(lg2, i, s) <=>
        ln.id = s /\ ln.kind # "OPEN" /\ ~\E o \in OpensIn(lg, s) : o > i
  BY <1>1, <1>2, <1>3 DEF BetweenIn
<1>6. BetweenIn(lg2, i, s) \subseteq DOMAIN lg \cup {n} /\ BetweenIn(lg, i, s) \subseteq DOMAIN lg
  BY <1>1 DEF BetweenIn
<1>7. CASE n \in BetweenIn(lg2, i, s)
  <2>1. BetweenIn(lg2, i, s) = BetweenIn(lg, i, s) \cup {n}
    BY <1>1, <1>4, <1>6, <1>7
  <2>2. QED BY <1>5, <1>7, <2>1 DEF n, lg2
<1>8. CASE n \notin BetweenIn(lg2, i, s)
  <2>1. BetweenIn(lg2, i, s) = BetweenIn(lg, i, s)
    BY <1>1, <1>4, <1>6, <1>8
  <2>2. QED BY <1>5, <1>8, <2>1 DEF n, lg2
<1>9. QED BY <1>7, <1>8

\* The CLOSED lines of an alert after one more line.
LEMMA AppendClosings ==
  ASSUME NEW lg \in Seq(Lines), NEW ln \in Lines, NEW s, NEW i \in OpensIn(lg, s)
  PROVE  ClosingsIn(Append(lg, ln), i, s) =
           IF ln.id = s /\ ln.kind = "CLOSED" /\ ~\E o \in OpensIn(lg, s) : o > i
           THEN ClosingsIn(lg, i, s) \cup {Len(lg) + 1} ELSE ClosingsIn(lg, i, s)
<1> DEFINE n == Len(lg) + 1
           lg2 == Append(lg, ln)
<1>1. n \notin DOMAIN lg /\ lg2[n] = ln /\ \A k \in DOMAIN lg : lg2[k] = lg[k]
  BY AppendLine
<1>2. BetweenIn(lg2, i, s) = IF ln.id = s /\ ln.kind # "OPEN" /\ ~\E o \in OpensIn(lg, s) : o > i
                             THEN BetweenIn(lg, i, s) \cup {n} ELSE BetweenIn(lg, i, s)
  BY AppendBetween
<1>3. BetweenIn(lg, i, s) \subseteq DOMAIN lg
  BY DEF BetweenIn
<1> HIDE DEF n, lg2
<1>4. QED BY <1>1, <1>2, <1>3 DEF ClosingsIn, n, lg2

\* A line about another sensor, or an INTERRUPTED line, changes nothing.
LEMMA PairsUpOther ==
  ASSUME NEW lg \in Seq(Lines), NEW ln \in Lines, NEW s, NEW t, PairsUp(lg, t, s),
         ln.id # s \/ ln.kind = "INTERRUPTED"
  PROVE  PairsUp(Append(lg, ln), t, s)
<1> DEFINE n == Len(lg) + 1
           lg2 == Append(lg, ln)
<1>1. /\ DOMAIN lg2 = DOMAIN lg \cup {n} /\ lg2[n] = ln
      /\ \A k \in DOMAIN lg : lg2[k] = lg[k]
  BY AppendLine
<1>2. OpensIn(lg2, s) = OpensIn(lg, s)
  BY AppendOpens
<1>3. \A i \in OpensIn(lg, s) : ClosingsIn(lg2, i, s) = ClosingsIn(lg, i, s)
  BY AppendClosings
<1>4. \A i \in OpensIn(lg, s) : /\ i \in DOMAIN lg
                                /\ ClosingsIn(lg, i, s) \subseteq DOMAIN lg
  BY DEF OpensIn, ClosingsIn, BetweenIn
<1> HIDE DEF n, lg2
<1>5. PairsUp(lg2, t, s)
  BY <1>1, <1>2, <1>3, <1>4 DEF PairsUp
<1>6. QED BY <1>5 DEF lg2

\* An OPEN line when no alert is open.
LEMMA PairsUpOpen ==
  ASSUME NEW lg \in Seq(Lines), NEW ln \in Lines, NEW s, PairsUp(lg, "Normal", s),
         ln.id = s, ln.kind = "OPEN", ln.level # "Normal"
  PROVE  PairsUp(Append(lg, ln), ln.level, s)
<1> DEFINE n == Len(lg) + 1
           lg2 == Append(lg, ln)
<1>1. /\ n \in Nat /\ DOMAIN lg2 = DOMAIN lg \cup {n} /\ lg2[n] = ln
      /\ \A k \in DOMAIN lg : k \in Nat /\ k < n /\ lg2[k] = lg[k]
  BY AppendLine
<1>2. OpensIn(lg2, s) = OpensIn(lg, s) \cup {n}
  BY AppendOpens
<1>3. \A i \in OpensIn(lg, s) : ClosingsIn(lg2, i, s) = ClosingsIn(lg, i, s)
  BY AppendClosings
<1>4. \A i \in OpensIn(lg, s) : /\ i \in DOMAIN lg
                                /\ ClosingsIn(lg, i, s) \subseteq DOMAIN lg
  BY DEF OpensIn, ClosingsIn, BetweenIn
<1> HIDE DEF n, lg2
<1>5. ClosingsIn(lg2, n, s) = {}
  BY <1>1 DEF ClosingsIn, BetweenIn
<1>6. ASSUME NEW i \in OpensIn(lg, s)
      PROVE  /\ \A j \in ClosingsIn(lg2, i, s) : lg2[j].level = lg2[i].level
             /\ \E j \in ClosingsIn(lg2, i, s) : ClosingsIn(lg2, i, s) = {j}
             /\ \E o \in OpensIn(lg2, s) : o > i
  BY <1>1, <1>2, <1>3, <1>4 DEF PairsUp
<1>7. ~\E o \in OpensIn(lg2, s) : o > n
  BY <1>1, <1>2, <1>4
<1>8. \A j \in DOMAIN lg2 :
        lg2[j].kind = "CLOSED" /\ lg2[j].id = s => \E i \in OpensIn(lg2, s) : i < j
  BY <1>1, <1>2 DEF PairsUp
<1>9. PairsUp(lg2, ln.level, s)
  BY <1>1, <1>2, <1>5, <1>6, <1>7, <1>8 DEF PairsUp
<1>10. QED BY <1>9 DEF lg2

\* A CLOSED line with the level of the alert that is open.
LEMMA PairsUpClose ==
  ASSUME NEW lg \in Seq(Lines), NEW ln \in Lines, NEW s, PairsUp(lg, ln.level, s),
         ln.id = s, ln.kind = "CLOSED", ln.level # "Normal"
  PROVE  PairsUp(Append(lg, ln), "Normal", s)
<1> DEFINE n == Len(lg) + 1
           lg2 == Append(lg, ln)
<1>1. /\ n \in Nat /\ DOMAIN lg2 = DOMAIN lg \cup {n} /\ lg2[n] = ln
      /\ \A k \in DOMAIN lg : k \in Nat /\ k < n /\ lg2[k] = lg[k]
  BY AppendLine
<1>2. OpensIn(lg2, s) = OpensIn(lg, s)
  BY AppendOpens
<1>3. \A i \in OpensIn(lg, s) :
        ClosingsIn(lg2, i, s) = IF ~\E o \in OpensIn(lg, s) : o > i
                                THEN ClosingsIn(lg, i, s) \cup {n} ELSE ClosingsIn(lg, i, s)
  BY AppendClosings
<1>4. \A i \in OpensIn(lg, s) : /\ i \in DOMAIN lg
                                /\ ClosingsIn(lg, i, s) \subseteq DOMAIN lg
  BY DEF OpensIn, ClosingsIn, BetweenIn
<1> HIDE DEF n, lg2
<1>5. ASSUME NEW i \in OpensIn(lg, s)
      PROVE  /\ \A j \in ClosingsIn(lg2, i, s) : lg2[j].level = lg2[i].level
             /\ \E j \in ClosingsIn(lg2, i, s) : ClosingsIn(lg2, i, s) = {j}
  <2>1. CASE \E o \in OpensIn(lg, s) : o > i
    <3>1. ClosingsIn(lg2, i, s) = ClosingsIn(lg, i, s)
      BY <1>3, <2>1
    <3>2. /\ \A j \in ClosingsIn(lg, i, s) : lg[j].level = lg[i].level
          /\ \E j \in ClosingsIn(lg, i, s) : ClosingsIn(lg, i, s) = {j}
      BY <2>1 DEF PairsUp
    <3>3. QED BY <1>1, <1>4, <3>1, <3>2
  <2>2. CASE ~\E o \in OpensIn(lg, s) : o > i
    <3>1. ClosingsIn(lg, i, s) = {} /\ lg[i].level = ln.level
      BY <2>2 DEF PairsUp
    <3>2. ClosingsIn(lg2, i, s) = {n}
      BY <1>3, <2>2, <3>1
    <3>3. QED BY <1>1, <1>4, <3>1, <3>2
  <2>3. QED BY <2>1, <2>2
<1>6. \A j \in DOMAIN lg2 :
        lg2[j].kind = "CLOSED" /\ lg2[j].id = s => \E i \in OpensIn(lg2, s) : i < j
  BY <1>1, <1>2, <1>4 DEF PairsUp
<1>7. PairsUp(lg2, "Normal", s)
  BY <1>2, <1>5, <1>6 DEF PairsUp
<1>8. QED BY <1>7 DEF lg2

------------------------------------------------------------------------------
(* The steps of the process, as far as the log and the tracker's listener are  *)
(* concerned.                                                                   *)

Opening(s, l) == /\ told[s] = "Normal" /\ l # "Normal"
                 /\ told' = [told EXCEPT ![s] = l]
                 /\ log' = Append(log, Line("OPEN", s, l))
Closing(s, l) == /\ told[s] = l /\ l # "Normal"
                 /\ told' = [told EXCEPT ![s] = "Normal"]
                 /\ log' = Append(log, Line("CLOSED", s, l))

\* The types of the variables that are main()'s own.
MainTypeOK ==
  /\ log \in Seq(Lines)
  /\ stage \in {"open", "setup", "exec", "snapshot", "flush", "stopHub", "stopReader",
                "exit", "killed"}
  /\ toVisit \subseteq known /\ raced \in BOOLEAN
  /\ open \subseteq [id : SensorIds, level : Levels]
  /\ disturbed \in BOOLEAN

\* FireOpened writes an OPEN line of a sensor that was not open.
LEMMA OpeningStep ==
  ASSUME FeedP!TypeOK, FeedP!StepInv, FireOpened
  PROVE  \E s \in SensorIds, l \in Levels : Opening(s, l)
<1>1. /\ step = "opened" /\ fired'.id = input.id /\ fired'.level = states[input.id].current
      /\ told' = [told EXCEPT ![input.id] = states[input.id].current]
      /\ log' = Append(log, Line("OPEN", fired'.id, fired'.level))
  BY DEF FireOpened, Feed!Opened, Feed!FireOpened, Feed!Event
<1>2. input.id \in SensorIds /\ states[input.id] \in FeedP!ChannelState
  BY <1>1 DEF FeedP!TypeOK
<1>3. /\ told[input.id] = "Normal" /\ input.level # "Normal"
      /\ states[input.id].current = input.level
  BY <1>1 DEF FeedP!StepInv
<1>4. states[input.id].current \in Levels
  BY <1>2 DEF FeedP!ChannelState, FeedP!Levels, Levels, Feed!Levels
<1>5. QED BY <1>1, <1>2, <1>3, <1>4 DEF Opening

\* FireClosed writes a CLOSED line of a sensor that was open.
LEMMA ClosingStep ==
  ASSUME FeedP!TypeOK, FeedP!StepInv, FireClosed
  PROVE  \E s \in SensorIds, l \in Levels : Closing(s, l)
<1>1. /\ step \in {"closed", "escalate"}
      /\ fired'.id = input.id /\ fired'.level = states[input.id].current
      /\ told' = [told EXCEPT ![input.id] = "Normal"]
      /\ log' = Append(log, Line("CLOSED", fired'.id, fired'.level))
  BY DEF FireClosed, Feed!Closed, Feed!FireClosed, Feed!FireEscalated, Feed!Event
<1>2. input.id \in SensorIds /\ states[input.id] \in FeedP!ChannelState
  BY <1>1 DEF FeedP!TypeOK
<1>3. told[input.id] = states[input.id].current /\ told[input.id] # "Normal"
  BY <1>1 DEF FeedP!StepInv
<1>4. states[input.id].current \in Levels
  BY <1>2 DEF FeedP!ChannelState, FeedP!Levels, Levels, Feed!Levels
<1>5. QED BY <1>1, <1>2, <1>3, <1>4 DEF Closing

\* All other steps but those of the flush leave both alone.
LEMMA SilentStep ==
  ASSUME [Next]_vars, ~FireOpened, ~FireClosed, ~FlushLine
  PROVE  UNCHANGED <<log, told>>
<1>1. CASE WorkerStep \/ Receive
  BY <1>1 DEF WorkerStep, WorkerLoop, Evaluate, UpdateChannel, PushFrame, Receive, feedVars,
              Feed!Receive, Feed!Process, Feed!BeginOpen, Feed!BeginClose, Feed!BeginEscalate,
              Feed!Stay, Feed!Call, Feed!Update, Feed!Fill, Feed!Reopen, Feed!PushFrame,
              Feed!vars
<1>2. CASE MainStep
  BY <1>2 DEF MainStep, EndStep, PortFails, StartReader, StartHub, HandlePost, Quit, Visit, Miss,
              Collected, Flushed, StopHub, StopReader, feedVars, Feed!HandlePost, Feed!vars
<1>3. CASE Terminated \/ UNCHANGED vars
  BY <1>3 DEF Terminated, vars, feedVars
<1>4. QED BY <1>1, <1>2, <1>3 DEF Next

\* MainTypeOK is preserved by every step.
LEMMA MainTypeStep ==
  HubP!TypeOK /\ FeedP!TypeOK /\ FeedP!StepInv /\ MainTypeOK /\ [Next]_vars => MainTypeOK'
<1> SUFFICES ASSUME HubP!TypeOK, FeedP!TypeOK, FeedP!StepInv, MainTypeOK, [Next]_vars
             PROVE  MainTypeOK'
  OBVIOUS
<1>1. log' \in Seq(Lines)
  <2>1. ASSUME NEW kind \in {"OPEN", "CLOSED", "INTERRUPTED"}, NEW s \in SensorIds,
               NEW l \in Levels, log' = Append(log, Line(kind, s, l))
        PROVE  log' \in Seq(Lines)
    <3>1. Line(kind, s, l) \in Lines
      BY DEF Line, Lines
    <3>2. log \in Seq(Lines)
      BY DEF MainTypeOK
    <3>3. QED BY <2>1, <3>1, <3>2
  <2>2. CASE FireOpened
    BY <2>1, <2>2, OpeningStep DEF Opening
  <2>3. CASE FireClosed
    BY <2>1, <2>3, ClosingStep DEF Closing
  <2>4. CASE FlushLine
    <3>1. PICK ev \in open : log' = Append(log, Line("INTERRUPTED", ev.id, ev.level))
      BY <2>4 DEF FlushLine
    <3>2. ev.id \in SensorIds /\ ev.level \in Levels
      BY DEF MainTypeOK
    <3>3. QED BY <2>1, <3>1, <3>2
  <2>5. CASE ~FireOpened /\ ~FireClosed /\ ~FlushLine
    BY <2>5, SilentStep DEF MainTypeOK
  <2>6. QED BY <2>2, <2>3, <2>4, <2>5
<1>2. CASE WorkerStep \/ Receive
  <2>1. UNCHANGED <<stage, open>> /\ disturbed' \in BOOLEAN
    BY <1>2 DEF WorkerStep, Receive, WorkerLoop, Evaluate, FireOpened, FireClosed,
                UpdateChannel, PushFrame, Working, ShutDown, mainVars, MainTypeOK
  <2>2. toVisit' \subseteq known' /\ raced' \in BOOLEAN
    <3>1. CASE Evaluate
      <4>1. known' = known \cup {frame.id}
        BY <3>1 DEF Evaluate, Feed!Receive, Feed!Process, Feed!BeginOpen, Feed!BeginClose,
                    Feed!BeginEscalate, Feed!Stay, Feed!Call
      <4>2. /\ toVisit' \in SUBSET (known \cup {frame.id}) \/ toVisit' = toVisit
            /\ raced' \in BOOLEAN
        BY <3>1 DEF Evaluate, MainTypeOK
      <4>3. QED BY <4>1, <4>2 DEF MainTypeOK
    <3>2. CASE ~Evaluate
      BY <1>2, <3>2 DEF WorkerStep, Receive, WorkerLoop, FireOpened, FireClosed, UpdateChannel,
                  PushFrame, mainVars, feedVars, Feed!Opened, Feed!FireOpened, Feed!Closed,
                  Feed!FireClosed, Feed!FireEscalated, Feed!Update, Feed!Fill, Feed!Reopen,
                  Feed!PushFrame, Feed!vars, MainTypeOK
    <3>3. QED BY <3>1, <3>2
  <2>3. QED BY <1>1, <2>1, <2>2 DEF MainTypeOK
<1>3. CASE Visit
  <2>1. PICK s \in toVisit :
          /\ toVisit' = toVisit \ {s}
          /\ open' = IF states[s].isOpen
                     THEN open \cup {[id |-> s, level |-> states[s].current]} ELSE open
    BY <1>3 DEF Visit
  <2>2. s \in SensorIds
    BY DEF MainTypeOK, FeedP!TypeOK
  <2>3. states[s].current \in Levels
    BY <2>2 DEF FeedP!TypeOK, FeedP!ChannelState, FeedP!Levels, Levels, Feed!Levels
  <2>4. open' \subseteq [id : SensorIds, level : Levels]
    BY <2>1, <2>2, <2>3 DEF MainTypeOK
  <2>5. UNCHANGED <<known, stage, raced, disturbed>> /\ toVisit' \subseteq toVisit
    BY <1>3, <2>1 DEF Visit, feedVars
  <2>6. QED BY <1>1, <2>4, <2>5 DEF MainTypeOK
<1>4. CASE FlushLine \/ Miss
  <2>1. /\ UNCHANGED <<known, stage, raced, disturbed>>
        /\ open' \subseteq open /\ toVisit' \subseteq toVisit
    BY <1>4 DEF FlushLine, Miss, feedVars
  <2>2. QED BY <1>1, <2>1 DEF MainTypeOK
<1>5. CASE HandlePost
  <2>1. UNCHANGED <<known, stage, toVisit, raced, open, disturbed>>
    BY <1>5 DEF HandlePost, mainVars, Feed!HandlePost, Feed!vars
  <2>2. QED BY <1>1, <2>1 DEF MainTypeOK
<1>6. CASE Quit
  <2>1. UNCHANGED <<known, raced, open>> /\ toVisit' = known /\ stage' = "snapshot"
          /\ disturbed' \in BOOLEAN
    BY <1>6 DEF Quit, Goes, feedVars
  <2>2. QED BY <1>1, <2>1 DEF MainTypeOK
<1>7. CASE \/ PortFails \/ StartReader \/ StartHub \/ Collected \/ Flushed \/ StopHub
           \/ StopReader
  <2>1. UNCHANGED <<known, toVisit, raced, open, disturbed>>
    BY <1>7 DEF PortFails, StartReader, StartHub, Collected, Flushed, StopHub, StopReader,
                feedVars
  <2>2. stage' \in {"open", "setup", "exec", "snapshot", "flush", "stopHub", "stopReader",
                    "exit", "killed"}
    BY <1>7 DEF PortFails, StartReader, StartHub, Collected, Flushed, StopHub, StopReader, Goes
  <2>3. QED BY <1>1, <2>1, <2>2 DEF MainTypeOK
<1>8. CASE Terminated
  BY <1>1, <1>8 DEF Terminated, MainTypeOK
<1>9. CASE UNCHANGED vars
  BY <1>1, <1>9 DEF vars, mainVars, feedVars, MainTypeOK
<1>10. QED BY <1>2, <1>3, <1>4, <1>5, <1>6, <1>7, <1>8, <1>9 DEF Next, MainStep, EndStep

\* MainTypeOK holds always.
LEMMA MainTypeCorrect == Spec => []MainTypeOK
<1>1. Init => MainTypeOK
  <2>1. Init => /\ log = <<>> /\ stage = "open" /\ toVisit = {} /\ raced = FALSE
                /\ open = {} /\ disturbed = FALSE
    BY DEF Init
  <2>2. <<>> \in Seq(Lines)
    BY EmptySeq
  <2>3. QED BY <2>1, <2>2 DEF MainTypeOK
<1>2. QED BY <1>1, MainTypeStep, HubCorrect, TrackerCorrect, PTL DEF Spec

\* Every variable of the process always holds a value of its type: the hub's buffer
\* within kBufferCapacity, the event log within kMaxEvents.
THEOREM TypeCorrect == Spec => []TypeOK
<1>1. HubP!TypeOK /\ FeedP!TypeOK /\ FeedP!FeedTypeOK /\ MainTypeOK => TypeOK
  <2> SUFFICES ASSUME HubP!TypeOK, FeedP!TypeOK, FeedP!FeedTypeOK, MainTypeOK PROVE TypeOK
    OBVIOUS
  <2>1. Hub!TypeOK
    BY DEF Hub!TypeOK, Hub!Frames, Hub!Sentinel, Hub!SentinelId, HubP!TypeOK, HubP!Frames,
           HubP!Sentinel, HubP!SentinelId
  <2>2. Feed!TypeOK
    BY DEF Feed!TypeOK, Feed!ChannelState, Feed!Levels, Feed!Nothing, FeedP!TypeOK,
           FeedP!ChannelState, FeedP!Levels, FeedP!Nothing
  <2>3. Feed!FeedTypeOK
    <3>1. \A S : FeedP!Cardinality(S) = Feed!Cardinality(S)
      BY DEF FeedP!Cardinality, Feed!Cardinality
    <3>2. Feed!Board!Row = FeedP!Board!Row /\ Feed!Board!Entry = FeedP!Board!Entry
            /\ Feed!Levels = FeedP!Levels
      BY DEF Feed!Board!Row, FeedP!Board!Row, Feed!Board!Entry, FeedP!Board!Entry,
             Feed!Board!Levels, FeedP!Board!Levels, Feed!Levels, FeedP!Levels
    <3>3. QED BY <3>1, <3>2 DEF Feed!FeedTypeOK, FeedP!FeedTypeOK
  <2>4. QED BY <2>1, <2>2, <2>3 DEF TypeOK, MainTypeOK, Lines
<1>2. QED BY <1>1, HubCorrect, TrackerCorrect, FeedCorrect, MainTypeCorrect, PTL

------------------------------------------------------------------------------
\* The log always records the lifecycle of every alert, however the worker and the
\* main thread interleave, and also while the process shuts down.
THEOREM LogAlwaysPairsUp == Spec => []LogPairsUp
<1>1. Init => AllPairUp
  <2> SUFFICES ASSUME Init PROVE AllPairUp
    OBVIOUS
  <2>1. log = <<>> /\ told = [s \in SensorIds |-> "Normal"]
    BY DEF Init, Feed!FeedInit, Feed!Init
  <2>2. DOMAIN log = {}
    BY <2>1
  <2>3. QED BY <2>1, <2>2 DEF AllPairUp, PairsUp, OpensIn
<1>2. /\ FeedP!TypeOK /\ FeedP!StepInv /\ MainTypeOK /\ AllPairUp /\ [Next]_vars
      => AllPairUp'
  <2> SUFFICES ASSUME FeedP!TypeOK, FeedP!StepInv, MainTypeOK, AllPairUp, [Next]_vars,
                      NEW s \in SensorIds
               PROVE  PairsUp(log', told'[s], s)
    BY DEF AllPairUp
  <2>1. log \in Seq(Lines) /\ PairsUp(log, told[s], s) /\ told \in [SensorIds -> FeedP!Levels]
    BY DEF AllPairUp, MainTypeOK, FeedP!TypeOK
  <2>2. ASSUME NEW u \in SensorIds, NEW l \in Levels, Opening(u, l)
        PROVE  PairsUp(log', told'[s], s)
    <3> DEFINE ln == Line("OPEN", u, l)
    <3>1. /\ ln \in Lines /\ ln.kind = "OPEN" /\ ln.id = u /\ ln.level = l
          /\ log' = Append(log, ln)
      BY <2>2 DEF Opening, Line, Lines
    <3> HIDE DEF ln
    <3>2. CASE u = s
      <4>1. told[s] = "Normal" /\ told'[s] = l /\ l # "Normal"
        BY <2>1, <2>2, <3>2 DEF Opening
      <4>2. QED BY <2>1, <3>1, <3>2, <4>1, PairsUpOpen
    <3>3. CASE u # s
      <4>1. told'[s] = told[s]
        BY <2>1, <2>2, <3>3 DEF Opening
      <4>2. QED BY <2>1, <3>1, <3>3, <4>1, PairsUpOther
    <3>4. QED BY <3>2, <3>3
  <2>3. ASSUME NEW u \in SensorIds, NEW l \in Levels, Closing(u, l)
        PROVE  PairsUp(log', told'[s], s)
    <3> DEFINE ln == Line("CLOSED", u, l)
    <3>1. /\ ln \in Lines /\ ln.kind = "CLOSED" /\ ln.id = u /\ ln.level = l
          /\ log' = Append(log, ln)
      BY <2>3 DEF Closing, Line, Lines
    <3> HIDE DEF ln
    <3>2. CASE u = s
      <4>1. told[s] = l /\ told'[s] = "Normal" /\ l # "Normal"
        BY <2>1, <2>3, <3>2 DEF Closing
      <4>2. QED BY <2>1, <3>1, <3>2, <4>1, PairsUpClose
    <3>3. CASE u # s
      <4>1. told'[s] = told[s]
        BY <2>1, <2>3, <3>3 DEF Closing
      <4>2. QED BY <2>1, <3>1, <3>3, <4>1, PairsUpOther
    <3>4. QED BY <3>2, <3>3
  <2>4. CASE FlushLine
    <3>1. PICK ev \in open : log' = Append(log, Line("INTERRUPTED", ev.id, ev.level))
      BY <2>4 DEF FlushLine
    <3> DEFINE ln == Line("INTERRUPTED", ev.id, ev.level)
    <3>2. ln \in Lines /\ ln.kind = "INTERRUPTED" /\ log' = Append(log, ln)
      BY <3>1 DEF MainTypeOK, Line, Lines
    <3>3. told' = told
      BY <2>4 DEF FlushLine, feedVars
    <3> HIDE DEF ln
    <3>4. QED BY <2>1, <3>2, <3>3, PairsUpOther
  <2>5. CASE FireOpened
    BY <2>2, <2>5, OpeningStep
  <2>6. CASE FireClosed
    BY <2>3, <2>6, ClosingStep
  <2>7. CASE ~FireOpened /\ ~FireClosed /\ ~FlushLine
    BY <2>1, <2>7, SilentStep
  <2>8. QED BY <2>4, <2>5, <2>6, <2>7
<1>3. QED BY <1>1, <1>2, LogIsPaired, TrackerCorrect, MainTypeCorrect, PTL DEF Spec

------------------------------------------------------------------------------
(* The shutdown.                                                               *)

\* The INTERRUPTED lines about s; and that there is one, with level t, after every
\* OPEN line.
Marks(lg, s) == {j \in DOMAIN lg : lg[j].kind = "INTERRUPTED" /\ lg[j].id = s}
Marked(lg, t, s) == \E j \in Marks(lg, s) : /\ Marks(lg, s) = {j} /\ lg[j].level = t
                                            /\ \A i \in OpensIn(lg, s) : i < j

Pending(s) == [id |-> s, level |-> told[s]]

\* The worker exists from hub.start() to hub.stop().  Until the flush there is no
\* INTERRUPTED line.  If the worker rests, then openEvents() collects the alerts that
\* are open, each with its level, and the flush marks each of them once.
QuietInv ==
  /\ tracking => worker = "evaluate"
  /\ stage \in {"open", "setup", "stopReader", "exit"} => worker = "none"
  /\ stage \in {"open", "setup", "exec"} => open = {} /\ ~raced
  /\ stage \in {"stopHub", "stopReader", "exit"} => open = {}
  /\ stage \in {"open", "setup", "exec", "snapshot"} =>
       \A s \in SensorIds : Marks(log, s) = {}
  /\ stage \in {"snapshot", "flush", "stopHub", "stopReader", "exit"} /\ ~disturbed =>
       /\ worker # "evaluate"
       /\ \A ev \in open : ev = Pending(ev.id) /\ ev.level # "Normal"
  /\ stage = "snapshot" /\ ~disturbed =>
       /\ ~raced
       /\ \A s \in SensorIds : told[s] # "Normal" => s \in toVisit \/ Pending(s) \in open
  /\ stage \in {"flush", "stopHub", "stopReader", "exit"} /\ ~disturbed =>
       \A s \in SensorIds : IF told[s] = "Normal" \/ Pending(s) \in open
                            THEN Marks(log, s) = {} ELSE Marked(log, told[s], s)

\* The INTERRUPTED lines of a sensor after one more line.
LEMMA AppendMarks ==
  ASSUME NEW lg \in Seq(Lines), NEW ln \in Lines, NEW s
  PROVE  Marks(Append(lg, ln), s) =
           IF ln.kind = "INTERRUPTED" /\ ln.id = s THEN Marks(lg, s) \cup {Len(lg) + 1}
                                                   ELSE Marks(lg, s)
<1> DEFINE n == Len(lg) + 1
           lg2 == Append(lg, ln)
<1>1. /\ n \notin DOMAIN lg /\ DOMAIN lg2 = DOMAIN lg \cup {n}
      /\ \A i \in DOMAIN lg : lg2[i] = lg[i]
      /\ lg2[n] = ln
  BY AppendLine
<1> HIDE DEF n, lg2
<1>2. QED BY <1>1 DEF Marks, n, lg2

\* A step inside the callback: it leaves no INTERRUPTED line, and during the shutdown
\* it is a disturbance.
LEMMA CallbackStep ==
  ASSUME FeedP!TypeOK, FeedP!StepInv, FeedP!FeedTypeOK, MainTypeOK, QuietInv,
         Evaluate \/ FireOpened \/ FireClosed \/ UpdateChannel \/ PushFrame
  PROVE  QuietInv'
<1>1. worker = "evaluate"
  <2>1. CASE Evaluate \/ PushFrame
    BY <2>1 DEF Evaluate, PushFrame, Hub!Deliver
  <2>2. CASE FireOpened \/ FireClosed \/ UpdateChannel
    <3>1. step # "idle"
      BY <2>2 DEF FireOpened, FireClosed, UpdateChannel, Feed!Opened, Feed!Closed, Feed!Update,
                  Feed!FireOpened, Feed!FireClosed, Feed!FireEscalated, Feed!Fill, Feed!Reopen
    <3>2. QED BY <3>1 DEF FeedP!FeedTypeOK, QuietInv
  <2>3. QED BY <2>1, <2>2
<1>2. stage \in {"exec", "snapshot", "flush", "stopHub"}
  <2>1. Alive
    BY DEF Evaluate, FireOpened, FireClosed, UpdateChannel, PushFrame, Working
  <2>2. QED BY <1>1, <2>1 DEF Alive, QuietInv, MainTypeOK
<1>3. /\ stage' = stage /\ open' = open
      /\ stage # "exec" => disturbed' = TRUE
      /\ stage = "exec" => raced' = raced
  BY <1>2 DEF Evaluate, FireOpened, FireClosed, UpdateChannel, PushFrame, Working, ShutDown,
              mainVars
<1>4. tracking' => worker' = "evaluate"
  BY <1>1 DEF Evaluate, FireOpened, FireClosed, UpdateChannel, PushFrame, hubVars,
              Feed!PushFrame
<1>5. \A s \in SensorIds : Marks(log', s) = Marks(log, s)
  <2>1. ASSUME NEW kind \in {"OPEN", "CLOSED"}, NEW u \in SensorIds, NEW l \in Levels,
               log' = Append(log, Line(kind, u, l))
        PROVE  \A s \in SensorIds : Marks(log', s) = Marks(log, s)
    <3>1. Line(kind, u, l) \in Lines /\ Line(kind, u, l).kind # "INTERRUPTED"
      BY DEF Line, Lines
    <3>2. QED BY <2>1, <3>1, AppendMarks DEF MainTypeOK
  <2>2. CASE FireOpened
    BY <2>1, <2>2, OpeningStep DEF Opening
  <2>3. CASE FireClosed
    BY <2>1, <2>3, ClosingStep DEF Closing
  <2>4. CASE Evaluate \/ UpdateChannel \/ PushFrame
    BY <2>4 DEF Evaluate, UpdateChannel, PushFrame
  <2>5. QED BY <2>2, <2>3, <2>4
<1>6. QED BY <1>2, <1>3, <1>4, <1>5 DEF QuietInv

\* QuietInv is preserved by every step.
LEMMA QuietStep ==
  /\ FeedP!TypeOK /\ FeedP!StepInv /\ FeedP!FeedTypeOK /\ MainTypeOK /\ QuietInv /\ [Next]_vars
  => QuietInv'
<1> SUFFICES ASSUME FeedP!TypeOK, FeedP!StepInv, FeedP!FeedTypeOK, MainTypeOK, QuietInv,
                    [Next]_vars
             PROVE  QuietInv'
  OBVIOUS
\* While the worker rests, the channels agree with what the listener knows.
<1>1. ASSUME worker # "evaluate", NEW s \in SensorIds
      PROVE  /\ told[s] # "Normal" => states[s].isOpen
             /\ states[s].isOpen => /\ s \in known
                                    /\ states[s].current = told[s] /\ told[s] # "Normal"
  <2>1. step = "idle"
    BY <1>1 DEF QuietInv, FeedP!FeedTypeOK
  <2>2. QED BY <2>1 DEF FeedP!StepInv, FeedP!Agrees
<1>2. CASE Evaluate \/ FireOpened \/ FireClosed \/ UpdateChannel \/ PushFrame
  BY <1>2, CallbackStep
<1>3. CASE WorkerLoop
  <2>1. /\ worker \in {"check", "pop"} /\ disturbed' = (disturbed \/ (ShutDown /\ worker' = "evaluate"))
        /\ UNCHANGED <<tracking, told, stage, toVisit, raced, open, log>>
    BY <1>3 DEF WorkerLoop, Hub!Check, Hub!Pop, feedVars, mainVars
  <2>2. stage \notin {"open", "setup", "stopReader", "exit"} /\ ~tracking
    BY <2>1 DEF QuietInv
  <2>3. QED BY <2>1, <2>2 DEF QuietInv, ShutDown, Pending
<1>4. CASE Receive
  BY <1>4 DEF Receive, Hub!Ingest, feedVars, mainVars, QuietInv, Pending
<1>5. CASE PortFails \/ StartReader
  BY <1>5 DEF PortFails, StartReader, Goes, hubVars, feedVars, QuietInv
<1>6. CASE StartHub
  <2>1. /\ stage = "setup" /\ stage' = IF main' = "idle" THEN "exec" ELSE "setup"
        /\ UNCHANGED <<tracking, told, raced, open, log>>
    BY <1>6 DEF StartHub, feedVars
  <2>2. ~tracking /\ (stage' = "setup" => worker' = worker)
    BY <1>6, <2>1 DEF StartHub, Hub!Start, Hub!Spawn, QuietInv
  <2>3. QED BY <2>1, <2>2 DEF QuietInv
<1>7. CASE HandlePost
  <2>1. /\ stage = "exec" /\ UNCHANGED <<tracking, told, worker, stage, toVisit, raced, open, log>>
    BY <1>7 DEF HandlePost, hubVars, mainVars, Feed!HandlePost, Feed!vars
  <2>2. QED BY <2>1 DEF QuietInv
<1>8. CASE Quit
  <2>1. /\ stage = "exec" /\ stage' = "snapshot" /\ toVisit' = known
        /\ disturbed' = (worker = "evaluate")
        /\ UNCHANGED <<tracking, told, worker, raced, open, log>>
    BY <1>8 DEF Quit, Goes, hubVars, feedVars
  <2>2. QED BY <1>1, <2>1 DEF QuietInv
<1>9. CASE Visit
  <2>1. PICK s \in toVisit :
          /\ toVisit' = toVisit \ {s}
          /\ open' = IF states[s].isOpen
                     THEN open \cup {[id |-> s, level |-> states[s].current]} ELSE open
    BY <1>9 DEF Visit
  <2>2. /\ stage = "snapshot"
        /\ UNCHANGED <<tracking, told, worker, stage, raced, log, disturbed>>
    BY <1>9 DEF Visit, hubVars, feedVars
  <2>3. s \in SensorIds
    BY DEF MainTypeOK, FeedP!TypeOK
  <2>4. ASSUME ~disturbed
        PROVE  /\ \A ev \in open' : ev = Pending(ev.id) /\ ev.level # "Normal"
               /\ \A u \in SensorIds : told[u] # "Normal" => u \in toVisit' \/ Pending(u) \in open'
    <3>1. worker # "evaluate"
      BY <2>2, <2>4 DEF QuietInv
    <3>2. CASE states[s].isOpen
      <4>1. states[s].current = told[s] /\ told[s] # "Normal"
        BY <1>1, <2>3, <3>1, <3>2
      <4>2. open' = open \cup {Pending(s)}
        BY <2>1, <3>2, <4>1 DEF Pending
      <4>3. Pending(s) = Pending(Pending(s).id) /\ Pending(s).level # "Normal"
        BY <4>1 DEF Pending
      <4>4. QED BY <2>1, <2>2, <2>4, <4>2, <4>3 DEF QuietInv
    <3>3. CASE ~states[s].isOpen
      <4>1. told[s] = "Normal" /\ open' = open
        BY <1>1, <2>1, <2>3, <3>1, <3>3
      <4>2. QED BY <2>1, <2>2, <2>4, <4>1 DEF QuietInv
    <3>4. QED BY <3>2, <3>3
  <2>5. QED BY <2>2, <2>4 DEF QuietInv, Pending
<1>10. CASE Miss
  <2>1. stage = "snapshot" /\ raced
    BY <1>10 DEF Miss
  <2>2. disturbed
    BY <2>1 DEF QuietInv
  <2>3. UNCHANGED <<tracking, told, worker, stage, raced, open, log, disturbed>>
    BY <1>10 DEF Miss, hubVars, feedVars
  <2>4. QED BY <2>1, <2>2, <2>3 DEF QuietInv
<1>11. CASE Collected
  <2>1. /\ stage = "snapshot" /\ stage' = "flush" /\ toVisit = {}
        /\ UNCHANGED <<tracking, told, worker, raced, open, log, disturbed>>
    BY <1>11 DEF Collected, Goes, hubVars, feedVars
  <2>2. QED BY <2>1 DEF QuietInv, Pending
<1>12. CASE FlushLine
  <2>1. PICK ev \in open : /\ log' = Append(log, Line("INTERRUPTED", ev.id, ev.level))
                           /\ open' = open \ {ev}
    BY <1>12 DEF FlushLine
  <2>2. /\ stage = "flush"
        /\ UNCHANGED <<tracking, told, worker, stage, raced, disturbed>>
    BY <1>12 DEF FlushLine, hubVars, feedVars
  <2> DEFINE ln == Line("INTERRUPTED", ev.id, ev.level)
             n  == Len(log) + 1
  <2>3. /\ ln \in Lines /\ ln.kind = "INTERRUPTED" /\ ln.id = ev.id /\ ln.level = ev.level
        /\ log \in Seq(Lines) /\ log' = Append(log, ln)
    BY <2>1 DEF MainTypeOK, Line, Lines
  <2> HIDE DEF ln
  <2>4. /\ n \in Nat /\ log'[n] = ln
        /\ \A i \in DOMAIN log : i < n /\ log'[i] = log[i]
    BY <2>3, AppendLine
  <2>5. \A s : /\ OpensIn(log', s) = OpensIn(log, s)
               /\ Marks(log', s) = IF ln.id = s THEN Marks(log, s) \cup {n} ELSE Marks(log, s)
    BY <2>3, AppendOpens, AppendMarks
  <2> HIDE DEF n
  <2>6. ASSUME ~disturbed, NEW s \in SensorIds
        PROVE  IF told[s] = "Normal" \/ Pending(s) \in open'
               THEN Marks(log', s) = {} ELSE Marked(log', told[s], s)
    <3>1. ev = Pending(ev.id) /\ ev.level # "Normal"
      BY <2>2, <2>6 DEF QuietInv
    <3>2. IF told[s] = "Normal" \/ Pending(s) \in open
          THEN Marks(log, s) = {} ELSE Marked(log, told[s], s)
      BY <2>2, <2>6 DEF QuietInv
    <3>3. OpensIn(log, s) \subseteq DOMAIN log /\ Marks(log, s) \subseteq DOMAIN log
      BY DEF OpensIn, Marks
    <3>4. CASE ev.id = s
      <4>1. /\ Pending(s) \notin open' /\ Marks(log, s) = {}
            /\ told[s] = ev.level /\ told[s] # "Normal"
        BY <2>1, <3>1, <3>2, <3>4 DEF Pending
      <4>2. Marks(log', s) = {n} /\ log'[n].level = told[s]
        BY <2>3, <2>4, <2>5, <3>4, <4>1
      <4>3. \A i \in OpensIn(log', s) : i < n
        BY <2>4, <2>5, <3>3
      <4>4. Marked(log', told[s], s)
        BY <4>2, <4>3 DEF Marked
      <4>5. QED BY <4>1, <4>4
    <3>5. CASE ev.id # s
      <4>1. Pending(s) # ev
        BY <3>5 DEF Pending
      <4>2. Pending(s) \in open' <=> Pending(s) \in open
        BY <2>1, <4>1
      <4>3. Marks(log', s) = Marks(log, s)
        BY <2>3, <2>5, <3>5
      <4>4. Marked(log, told[s], s) => Marked(log', told[s], s)
        BY <2>4, <2>5, <3>3, <4>3 DEF Marked
      <4>5. QED BY <3>2, <4>2, <4>3, <4>4
    <3>6. QED BY <3>4, <3>5
  <2>7. QED BY <2>1, <2>2, <2>6 DEF QuietInv, Pending
<1>13. CASE Flushed
  <2>1. /\ stage = "flush" /\ stage' = "stopHub" /\ open = {}
        /\ UNCHANGED <<tracking, told, worker, raced, open, log, disturbed>>
    BY <1>13 DEF Flushed, Goes, hubVars, feedVars
  <2>2. QED BY <2>1 DEF QuietInv, Pending
<1>14. CASE StopHub
  <2>1. /\ stage = "stopHub" /\ stage' = IF main' = "idle" THEN "stopReader" ELSE "stopHub"
        /\ UNCHANGED <<tracking, told, raced, open, log, disturbed>>
    BY <1>14 DEF StopHub, feedVars
  <2>2. \/ worker' = worker /\ stage' = "stopHub"
        \/ worker = "done" /\ worker' = "none"
    BY <1>14, <2>1 DEF StopHub, Hub!Stop, Hub!PushSentinel, Hub!Join
  <2>3. QED BY <2>1, <2>2 DEF QuietInv, Pending
<1>15. CASE StopReader
  <2>1. /\ stage = "stopReader" /\ stage' = "exit"
        /\ UNCHANGED <<tracking, told, worker, raced, open, log, disturbed>>
    BY <1>15 DEF StopReader, Goes, hubVars, feedVars
  <2>2. QED BY <2>1 DEF QuietInv, Pending
<1>16. CASE Terminated
  BY <1>16 DEF Terminated, QuietInv
<1>17. CASE UNCHANGED vars
  BY <1>17 DEF vars, hubVars, feedVars, mainVars, QuietInv, Pending
<1>18. QED
  BY <1>2, <1>3, <1>4, <1>5, <1>6, <1>7, <1>8, <1>9, <1>10, <1>11, <1>12, <1>13, <1>14,
     <1>15, <1>16, <1>17
     DEF Next, WorkerStep, MainStep, EndStep

\* QuietInv holds of a process that has just started.
LEMMA QuietInit == Init => QuietInv
<1> SUFFICES ASSUME Init PROVE QuietInv
  OBVIOUS
<1>1. /\ tracking = FALSE /\ worker = "none" /\ stage = "open" /\ open = {}
      /\ raced = FALSE /\ log = <<>>
  BY DEF Init, Hub!Init, Feed!FeedInit
<1>2. \A s : Marks(log, s) = {}
  BY <1>1 DEF Marks
<1>3. QED BY <1>1, <1>2 DEF QuietInv

\* QuietInv is an invariant.
LEMMA QuietCorrect == Spec => []QuietInv
BY QuietInit, QuietStep, TrackerCorrect, FeedCorrect, MainTypeCorrect, PTL DEF Spec

\* Once hub.stop() has returned, no callback runs or will run on what main() destroys.
THEOREM NoCallbackOutlives == Spec => []NoCallbackLeft
<1>1. QuietInv /\ FeedP!FeedTypeOK => NoCallbackLeft
  BY DEF QuietInv, FeedP!FeedTypeOK, NoCallbackLeft
<1>2. QED BY <1>1, QuietCorrect, FeedCorrect, PTL

\* If the worker processes nothing while the process shuts down, the finished log
\* answers every OPEN line exactly once, with its own level.
THEOREM QuietShutdownIsComplete == Spec => []QuietShutdownComplete
<1>1. AllPairUp /\ QuietInv /\ MainTypeOK => QuietShutdownComplete
  <2> SUFFICES ASSUME AllPairUp, QuietInv, MainTypeOK, stage = "exit", ~disturbed,
                      NEW s \in SensorIds
               PROVE  /\ \A i \in Opens(s) :
                           \E j \in Between(i, s) : Between(i, s) = {j} /\ log[j].level = log[i].level
                      /\ \A j \in DOMAIN log :
                           log[j].kind = "INTERRUPTED" /\ log[j].id = s => \E i \in Opens(s) : i < j
    BY DEF QuietShutdownComplete
  <2>1. Opens(s) = OpensIn(log, s) /\ \A i : Between(i, s) = BetweenIn(log, i, s)
    BY DEF Opens, OpensIn, Between, BetweenIn
  <2>2. PairsUp(log, told[s], s)
    BY DEF AllPairUp
  <2>3. IF told[s] = "Normal" THEN Marks(log, s) = {} ELSE Marked(log, told[s], s)
    BY DEF QuietInv
  <2>4. ASSUME NEW i \in OpensIn(log, s)
        PROVE  \E j \in BetweenIn(log, i, s) : /\ BetweenIn(log, i, s) = {j}
                                               /\ log[j].level = log[i].level
    <3>1. \A j \in BetweenIn(log, i, s) :
            j \in ClosingsIn(log, i, s) \/ j \in Marks(log, s)
      <4>1. ASSUME NEW j \in BetweenIn(log, i, s)
            PROVE  /\ j \in DOMAIN log /\ log[j].id = s
                   /\ log[j].kind \in {"CLOSED", "INTERRUPTED"}
        <5>1. j \in DOMAIN log /\ log[j].id = s /\ log[j].kind # "OPEN"
          BY DEF BetweenIn
        <5>2. log[j] \in Lines
          BY <5>1 DEF MainTypeOK
        <5>3. QED BY <5>1, <5>2 DEF Lines
      <4>2. QED BY <4>1 DEF ClosingsIn, Marks
    <3>2. i \in Nat /\ Marks(log, s) \subseteq Nat /\ BetweenIn(log, i, s) \subseteq Nat
            /\ OpensIn(log, s) \subseteq Nat
      BY DEF OpensIn, Marks, BetweenIn, MainTypeOK
    <3>3. CASE \E o \in OpensIn(log, s) : o > i \/ told[s] = "Normal"
      <4>1. PICK j \in ClosingsIn(log, i, s) : ClosingsIn(log, i, s) = {j}
        BY <2>2, <3>3 DEF PairsUp
      <4>2. log[j].level = log[i].level
        BY <2>2, <4>1 DEF PairsUp
      <4>3. BetweenIn(log, i, s) = ClosingsIn(log, i, s)
        <5>1. ASSUME NEW k \in BetweenIn(log, i, s), k \in Marks(log, s) PROVE FALSE
          <6>1. told[s] # "Normal" /\ \A o \in OpensIn(log, s) : o < k
            BY <2>3, <5>1 DEF Marked
          <6>2. PICK o \in OpensIn(log, s) : o > i
            BY <3>3, <6>1
          <6>3. k < o
            BY <6>2 DEF BetweenIn
          <6>4. QED BY <3>2, <6>1, <6>3
        <5>2. ClosingsIn(log, i, s) \subseteq BetweenIn(log, i, s)
          BY DEF ClosingsIn
        <5>3. QED BY <3>1, <5>1, <5>2
      <4>4. QED BY <4>1, <4>2, <4>3
    <3>4. CASE ~\E o \in OpensIn(log, s) : o > i \/ told[s] = "Normal"
      <4>1. /\ ClosingsIn(log, i, s) = {} /\ log[i].level = told[s] /\ told[s] # "Normal"
            /\ \A o \in OpensIn(log, s) : ~(o > i)
        BY <2>2, <3>4 DEF PairsUp
      <4>2. PICK j \in Marks(log, s) : /\ Marks(log, s) = {j} /\ log[j].level = told[s]
                                       /\ \A o \in OpensIn(log, s) : o < j
        BY <2>3, <4>1 DEF Marked
      <4>3. j \in BetweenIn(log, i, s)
        BY <3>2, <4>1, <4>2 DEF BetweenIn, Marks
      <4>4. BetweenIn(log, i, s) = {j}
        BY <3>1, <4>1, <4>2, <4>3
      <4>5. QED BY <4>1, <4>2, <4>3, <4>4
    <3>5. QED BY <3>3, <3>4
  <2>5. ASSUME NEW j \in DOMAIN log, log[j].kind = "INTERRUPTED", log[j].id = s
        PROVE  \E i \in OpensIn(log, s) : i < j
    <3>1. j \in Marks(log, s)
      BY <2>5 DEF Marks
    <3>2. told[s] # "Normal" /\ \A i \in OpensIn(log, s) : i < j
      BY <2>3, <3>1 DEF Marked
    <3>3. QED BY <2>2, <3>2 DEF PairsUp
  <2>6. QED BY <2>1, <2>4, <2>5
<1>2. QED BY <1>1, QuietCorrect, LogIsPaired, LogAlwaysPairsUp, MainTypeCorrect, PTL

------------------------------------------------------------------------------
(* The event log of the dashboard.  The OPEN lines of the session log, the      *)
(* queued calls about alerts that open, and the entries are one list, cut in    *)
(* pieces: what the log has and the queue has not is what the event log has     *)
(* been told of, and the entries are the youngest of it.                        *)

\* f lists the n OPEN lines of the log lg in their order.
Listed(f, n, lg) ==
  /\ \A a \in 1 .. n : f[a] \in DOMAIN lg /\ lg[f[a]].kind = "OPEN"
  /\ \A a, b \in 1 .. n : a < b => f[a] < f[b]
  /\ \A i \in DOMAIN lg : lg[i].kind = "OPEN" => \E a \in 1 .. n : f[a] = i

\* The entries e are the youngest of the first k OPEN lines, youngest first.
Youngest(e, k, f, lg) ==
  /\ Len(e) = IF k < MaxEvents THEN k ELSE MaxEvents
  /\ \A j \in 1 .. Len(e) : e[j].name = lg[f[k + 1 - j]].id

\* m[i] is the number of OPEN lines that the event log knows of once the first i calls
\* of the queue q are made.
Mirrored(e, q, n, m, f, lg) ==
  /\ m[Len(q)] = n
  /\ \A i \in 0 .. Len(q) : m[i] <= n
  /\ \A i \in 1 .. Len(q) :
       IF q[i].kind = "opened" THEN m[i] = m[i - 1] + 1 /\ lg[f[m[i]]].id = q[i].id
                               ELSE m[i] = m[i - 1]
  /\ Youngest(e, m[0], f, lg)

Mirror(e, q, lg) ==
  \E n \in Nat, f \in [Nat -> Nat], m \in [Nat -> Nat] :
    Listed(f, n, lg) /\ Mirrored(e, q, n, m, f, lg)

\* The places of a list and the places before them.
LEMMA Within == ASSUME NEW n \in Nat, NEW i \in 1 .. n
                PROVE  i \in Nat /\ i - 1 \in Nat /\ i \in 0 .. n /\ i - 1 \in 0 .. n
OBVIOUS

\* The last place, and the places one further.
LEMMA OneMore == ASSUME NEW n \in Nat
                 PROVE  /\ n + 1 \in 1 .. n + 1 /\ 1 .. n \subseteq 1 .. n + 1
                        /\ \A i \in 1 .. n + 1 : i = n + 1 \/ i \in 1 .. n
                        /\ \A i \in 0 .. n + 1 : i = n + 1 \/ i \in 0 .. n
                        /\ \A i \in 0 .. n : i \in Nat /\ i + 1 \in 0 .. n + 1
                        /\ \A i \in 1 .. n : /\ i + 1 \in 1 .. n + 1
                                             /\ (i + 1) - 1 = i /\ (i - 1) + 1 = i
OBVIOUS

\* The length of a list of at most c entries, of k, that gets one more.
LEMMA CutLength ==
  ASSUME NEW k \in Nat, NEW c \in Nat, NEW a, a = IF k < c THEN k ELSE c,
         NEW b, b = IF a < c THEN a + 1 ELSE c
  PROVE  /\ b = IF k + 1 < c THEN k + 1 ELSE c
         /\ \A i \in 1 .. b : i # 1 => i \in Nat /\ i - 1 \in 1 .. a
OBVIOUS

\* A list of numbers with one more.
LEMMA Extended == ASSUME NEW f \in [Nat -> Nat], NEW n \in Nat, NEW x \in Nat
                  PROVE  \E g \in [Nat -> Nat] : g[n + 1] = x /\ \A i \in 0 .. n : g[i] = f[i]
<1> DEFINE g == [f EXCEPT ![n + 1] = x]
<1>1. g \in [Nat -> Nat] /\ g[n + 1] = x
  OBVIOUS
<1>2. ASSUME NEW i \in 0 .. n PROVE g[i] = f[i]
  OBVIOUS
<1> HIDE DEF g
<1>3. QED BY <1>1, <1>2

\* A list of numbers without its first.
LEMMA MovedUp == ASSUME NEW f \in [Nat -> Nat]
                 PROVE  \E g \in [Nat -> Nat] : \A i \in Nat : g[i] = f[i + 1]
<1> DEFINE g == [i \in Nat |-> f[i + 1]]
<1>1. g \in [Nat -> Nat] /\ \A i \in Nat : g[i] = f[i + 1]
  OBVIOUS
<1> HIDE DEF g
<1>2. QED BY <1>1

\* The lines that the entries mirror are among the first k.
LEMMA YoungestBound ==
  ASSUME NEW e, NEW k \in Nat, NEW f, NEW lg, Youngest(e, k, f, lg)
  PROVE  /\ Len(e) \in Nat /\ Len(e) <= k
         /\ \A j \in 1 .. Len(e) : k + 1 - j \in 1 .. k
<1>1. MaxEvents \in Nat
  BY MonitorAssumption
<1>2. Len(e) \in Nat /\ Len(e) <= k
  BY <1>1 DEF Youngest
<1>3. QED BY <1>2

\* A line that is not an OPEN line leaves the mirror as it is.
LEMMA MirrorLine ==
  ASSUME NEW lg \in Seq(Lines), NEW ln \in Lines, ln.kind # "OPEN",
         NEW q \in Seq(FeedP!Posts), NEW e \in Seq(FeedP!Board!Entry), Mirror(e, q, lg)
  PROVE  Mirror(e, q, Append(lg, ln))
<1> DEFINE lg2 == Append(lg, ln)
           x == Len(lg) + 1
<1>1. /\ x \in Nat /\ x \notin DOMAIN lg /\ DOMAIN lg2 = DOMAIN lg \cup {x}
      /\ \A i \in DOMAIN lg : i \in Nat /\ i < x /\ lg2[i] = lg[i]
      /\ lg2[x] = ln
  BY AppendLine
<1> HIDE DEF lg2, x
<1>2. PICK n \in Nat, f \in [Nat -> Nat], m \in [Nat -> Nat] :
        Listed(f, n, lg) /\ Mirrored(e, q, n, m, f, lg)
  BY DEF Mirror
<1>3. Listed(f, n, lg2)
  BY <1>1, <1>2 DEF Listed
<1>4. \A a \in 1 .. n : lg2[f[a]] = lg[f[a]]
  BY <1>1, <1>2 DEF Listed
<1>5. Len(q) \in Nat /\ Len(e) \in Nat
  BY LenProperties
<1>6. Mirrored(e, q, n, m, f, lg2)
  <2>1. ASSUME NEW i \in 1 .. Len(q), q[i].kind = "opened" PROVE lg2[f[m[i]]].id = q[i].id
    <3>1. i \in Nat /\ i - 1 \in Nat /\ i \in 0 .. Len(q)
      BY <1>5, Within
    <3>1a. m[i - 1] \in Nat /\ m[i] \in Nat
      BY <3>1
    <3>2. m[i] = m[i - 1] + 1 /\ m[i] <= n
      BY <1>2, <2>1, <3>1 DEF Mirrored
    <3>2a. m[i] \in 1 .. n
      BY <3>1a, <3>2
    <3>3. QED BY <1>2, <1>4, <2>1, <3>2a DEF Mirrored
  <2>2. Youngest(e, m[0], f, lg2)
    <3>1. m[0] \in Nat /\ m[0] <= n /\ Youngest(e, m[0], f, lg)
      BY <1>2, <1>5 DEF Mirrored
    <3>2. \A j \in 1 .. Len(e) : m[0] + 1 - j \in 1 .. m[0]
      BY <3>1, YoungestBound
    <3>3. 1 .. m[0] \subseteq 1 .. n
      BY <3>1
    <3>4. \A j \in 1 .. Len(e) : e[j].name = lg2[f[m[0] + 1 - j]].id
      BY <1>4, <3>1, <3>2, <3>3 DEF Youngest
    <3>5. QED BY <3>1, <3>4 DEF Youngest
  <2>3. QED BY <1>2, <2>1, <2>2 DEF Mirrored
<1>7. QED BY <1>3, <1>6 DEF Mirror, lg2

\* So does a call that is not about an alert that opens.
LEMMA MirrorCall ==
  ASSUME NEW lg, NEW q \in Seq(FeedP!Posts), NEW p \in FeedP!Posts, p.kind # "opened",
         NEW e, Mirror(e, q, lg)
  PROVE  Mirror(e, Append(q, p), lg)
<1> DEFINE q2 == Append(q, p)
           x == Len(q) + 1
<1>1. /\ Len(q) \in Nat /\ x \in Nat /\ x # 0 /\ Len(q2) = x /\ q2[x] = p
      /\ \A i \in 1 .. Len(q) : q2[i] = q[i]
  OBVIOUS
<1>1a. x = Len(q) + 1
  OBVIOUS
<1> HIDE DEF q2, x
<1>2. PICK n \in Nat, f \in [Nat -> Nat], m \in [Nat -> Nat] :
        Listed(f, n, lg) /\ Mirrored(e, q, n, m, f, lg)
  BY DEF Mirror
<1>3. PICK m2 \in [Nat -> Nat] : m2[Len(q) + 1] = n /\ \A i \in 0 .. Len(q) : m2[i] = m[i]
  BY <1>1, Extended
<1>4. m2[x] = n /\ \A i \in 0 .. Len(q) : m2[i] = m[i]
  BY <1>1a, <1>3
<1>5. Mirrored(e, q2, n, m2, f, lg)
  <2>1. ASSUME NEW i \in 0 .. x PROVE m2[i] <= n
    <3>1. i = x \/ i \in 0 .. Len(q)
      BY <1>1, <1>1a
    <3>2. CASE i = x
      BY <1>4, <3>2
    <3>3. CASE i \in 0 .. Len(q)
      BY <1>2, <1>4, <3>3 DEF Mirrored
    <3>4. QED BY <3>1, <3>2, <3>3
  <2>2. ASSUME NEW i \in 1 .. x
        PROVE  IF q2[i].kind = "opened" THEN m2[i] = m2[i - 1] + 1 /\ lg[f[m2[i]]].id = q2[i].id
                                        ELSE m2[i] = m2[i - 1]
    <3>1. CASE i = x
      <4>1. i - 1 = Len(q) /\ Len(q) \in 0 .. Len(q)
        BY <1>1, <1>1a, <3>1
      <4>2. m2[i] = m2[i - 1]
        BY <1>2, <1>4, <3>1, <4>1 DEF Mirrored
      <4>3. QED BY <1>1, <3>1, <4>2
    <3>2. CASE i # x
      <4>0. i \in 1 .. Len(q)
        BY <1>1, <1>1a, <3>2, OneMore
      <4>1. i \in 1 .. Len(q) /\ i \in 0 .. Len(q) /\ i - 1 \in 0 .. Len(q)
        BY <1>1, <4>0, Within
      <4>2. m2[i] = m[i] /\ m2[i - 1] = m[i - 1] /\ q2[i] = q[i]
        BY <1>1, <1>4, <4>1
      <4>3. QED BY <1>2, <4>1, <4>2 DEF Mirrored
    <3>3. QED BY <3>1, <3>2
  <2>3. m2[0] = m[0]
    BY <1>1, <1>4
  <2>4. QED BY <1>1, <1>2, <1>4, <2>1, <2>2, <2>3 DEF Mirrored
<1>6. QED BY <1>2, <1>3, <1>5 DEF Mirror, q2

\* An alert opens: one line and one call more.
LEMMA MirrorOpen ==
  ASSUME NEW lg \in Seq(Lines), NEW ln \in Lines, ln.kind = "OPEN",
         NEW q \in Seq(FeedP!Posts), NEW p \in FeedP!Posts, p.kind = "opened", p.id = ln.id,
         NEW e \in Seq(FeedP!Board!Entry), Mirror(e, q, lg)
  PROVE  Mirror(e, Append(q, p), Append(lg, ln))
<1> DEFINE lg2 == Append(lg, ln)
           x == Len(lg) + 1
           q2 == Append(q, p)
           y == Len(q) + 1
<1>1. /\ x \in Nat /\ x \notin DOMAIN lg /\ DOMAIN lg2 = DOMAIN lg \cup {x}
      /\ \A i \in DOMAIN lg : i \in Nat /\ i < x /\ lg2[i] = lg[i]
      /\ lg2[x] = ln
  BY AppendLine
<1>2. /\ Len(q) \in Nat /\ y \in Nat /\ y # 0 /\ y = Len(q) + 1 /\ Len(q2) = y /\ q2[y] = p
      /\ \A i \in 1 .. Len(q) : q2[i] = q[i]
  OBVIOUS
<1> HIDE DEF lg2, x, q2, y
<1>3. PICK n \in Nat, f \in [Nat -> Nat], m \in [Nat -> Nat] :
        Listed(f, n, lg) /\ Mirrored(e, q, n, m, f, lg)
  BY DEF Mirror
<1>4. PICK f2 \in [Nat -> Nat] : f2[n + 1] = x /\ \A a \in 0 .. n : f2[a] = f[a]
  <2>1. x \in Nat
    BY <1>1
  <2>2. QED BY <2>1, Extended
<1>5. PICK m2 \in [Nat -> Nat] :
        m2[Len(q) + 1] = n + 1 /\ \A i \in 0 .. Len(q) : m2[i] = m[i]
  <2>1. n + 1 \in Nat
    OBVIOUS
  <2>2. QED BY <1>2, <2>1, Extended
<1>5a. m2[y] = n + 1
  BY <1>2, <1>5
<1>5b. \A a \in 1 .. n : f2[a] = f[a]
  BY <1>4
<1>6. Listed(f2, n + 1, lg2)
  <2>1. \A a \in 1 .. n + 1 : a = n + 1 \/ a \in 1 .. n
    BY OneMore
  <2>2. n + 1 \in 1 .. n + 1 /\ 1 .. n \subseteq 1 .. n + 1
    BY OneMore
  <2>3. \A a \in 1 .. n + 1 : f2[a] \in DOMAIN lg2 /\ lg2[f2[a]].kind = "OPEN"
    <3>1. ASSUME NEW a \in 1 .. n PROVE f2[a] \in DOMAIN lg2 /\ lg2[f2[a]].kind = "OPEN"
      <4>1. f[a] \in DOMAIN lg /\ lg[f[a]].kind = "OPEN"
        BY <1>3 DEF Listed
      <4>2. f2[a] = f[a]
        BY <1>5b
      <4>3. QED BY <1>1, <4>1, <4>2
    <3>2. f2[n + 1] \in DOMAIN lg2 /\ lg2[f2[n + 1]].kind = "OPEN"
      BY <1>1, <1>4
    <3>3. QED BY <2>1, <3>1, <3>2
  <2>4. ASSUME NEW a \in 1 .. n + 1, NEW b \in 1 .. n + 1, a < b PROVE f2[a] < f2[b]
    <3>0. a \in 1 .. n
      BY <2>1, <2>4
    <3>1. a \in 1 .. n /\ f[a] \in DOMAIN lg
      BY <1>3, <3>0 DEF Listed
    <3>2. CASE b = n + 1
      BY <1>1, <1>4, <1>5b, <3>1, <3>2
    <3>3. CASE b \in 1 .. n
      BY <1>3, <1>5b, <2>4, <3>1, <3>3 DEF Listed
    <3>4. QED BY <2>1, <3>2, <3>3
  <2>5. ASSUME NEW i \in DOMAIN lg2, lg2[i].kind = "OPEN" PROVE \E a \in 1 .. n + 1 : f2[a] = i
    <3>1. CASE i = x
      BY <1>4, <2>2, <3>1
    <3>2. CASE i # x
      <4>1. i \in DOMAIN lg /\ lg[i].kind = "OPEN"
        BY <1>1, <2>5, <3>2
      <4>2. PICK a \in 1 .. n : f[a] = i
        BY <1>3, <4>1 DEF Listed
      <4>3. QED BY <1>5b, <2>2, <4>2
    <3>3. QED BY <3>1, <3>2
  <2>6. QED BY <2>3, <2>4, <2>5 DEF Listed
<1>7. \A a \in 1 .. n : lg2[f2[a]] = lg[f[a]]
  BY <1>1, <1>3, <1>5b DEF Listed
<1>8. Mirrored(e, q2, n + 1, m2, f2, lg2)
  <2>1. ASSUME NEW i \in 0 .. y PROVE m2[i] <= n + 1
    <3>1. i = y \/ i \in 0 .. Len(q)
      BY <1>2, OneMore
    <3>2. CASE i = y
      BY <1>5a, <3>2
    <3>3. CASE i \in 0 .. Len(q)
      <4>1. m2[i] = m[i] /\ m[i] <= n
        BY <1>3, <1>5, <3>3 DEF Mirrored
      <4>2. i \in Nat /\ m[i] \in Nat
        BY <1>2, <3>3
      <4>3. QED BY <4>1, <4>2
    <3>4. QED BY <3>1, <3>2, <3>3
  <2>2. ASSUME NEW i \in 1 .. y
        PROVE  IF q2[i].kind = "opened"
               THEN m2[i] = m2[i - 1] + 1 /\ lg2[f2[m2[i]]].id = q2[i].id
               ELSE m2[i] = m2[i - 1]
    <3>1. CASE i = y
      <4>1. i - 1 = Len(q) /\ Len(q) \in 0 .. Len(q)
        BY <1>2, <3>1
      <4>2. m2[i] = m2[i - 1] + 1
        BY <1>3, <1>5, <1>5a, <3>1, <4>1 DEF Mirrored
      <4>3. lg2[f2[m2[i]]] = ln /\ q2[i] = p
        BY <1>1, <1>2, <1>4, <1>5a, <3>1
      <4>4. QED BY <4>2, <4>3
    <3>2. CASE i # y
      <4>1. i \in 1 .. Len(q)
        BY <1>2, <3>2, OneMore
      <4>2. i \in Nat /\ i - 1 \in Nat /\ i \in 0 .. Len(q) /\ i - 1 \in 0 .. Len(q)
        BY <1>2, <4>1, Within
      <4>3. m2[i] = m[i] /\ m2[i - 1] = m[i - 1] /\ q2[i] = q[i]
        BY <1>2, <1>5, <4>1, <4>2
      <4>4. IF q[i].kind = "opened" THEN m[i] = m[i - 1] + 1 /\ lg[f[m[i]]].id = q[i].id
                                    ELSE m[i] = m[i - 1]
        BY <1>3, <4>1 DEF Mirrored
      <4>5. ASSUME q[i].kind = "opened" PROVE lg2[f2[m[i]]] = lg[f[m[i]]]
        <5>1. m[i] <= n
          BY <1>3, <4>2 DEF Mirrored
        <5>2. m[i - 1] \in Nat /\ m[i] \in Nat
          BY <4>2
        <5>3. m[i] \in 1 .. n
          BY <4>4, <4>5, <5>1, <5>2
        <5>4. QED BY <1>7, <5>3
      <4>6. QED BY <4>3, <4>4, <4>5
    <3>3. QED BY <3>1, <3>2
  <2>3. Youngest(e, m2[0], f2, lg2)
    <3>1. m[0] <= n /\ Youngest(e, m[0], f, lg)
      BY <1>2, <1>3 DEF Mirrored
    <3>2. m[0] \in Nat /\ m2[0] = m[0]
      BY <1>2, <1>5
    <3>3. \A j \in 1 .. Len(e) : m[0] + 1 - j \in 1 .. m[0]
      BY <3>1, <3>2, YoungestBound
    <3>4. 1 .. m[0] \subseteq 1 .. n
      BY <3>1, <3>2
    <3>5. \A j \in 1 .. Len(e) : e[j].name = lg2[f2[m[0] + 1 - j]].id
      BY <1>7, <3>1, <3>3, <3>4 DEF Youngest
    <3>6. QED BY <3>1, <3>2, <3>5 DEF Youngest
  <2>4. QED BY <1>2, <1>5a, <2>1, <2>2, <2>3 DEF Mirrored
<1>9. n + 1 \in Nat
  OBVIOUS
<1>10. QED BY <1>4, <1>5, <1>6, <1>8, <1>9 DEF Mirror, lg2, q2

\* The oldest call is made: if it is about an alert that opens, the entries get a new
\* first one.
LEMMA MirrorHandle ==
  ASSUME NEW lg, NEW q \in Seq(FeedP!Posts), q # <<>>,
         NEW e, NEW e2, Mirror(e, q, lg),
         IF Head(q).kind = "opened"
         THEN /\ Len(e2) = IF Len(e) < MaxEvents THEN Len(e) + 1 ELSE MaxEvents
              /\ \A k \in 1 .. Len(e2) :
                   e2[k].name = IF k = 1 THEN Head(q).id ELSE e[k - 1].name
         ELSE Len(e2) = Len(e) /\ \A k \in 1 .. Len(e) : e2[k].name = e[k].name
  PROVE  Mirror(e2, Tail(q), lg)
<1> DEFINE p == Head(q)
           q2 == Tail(q)
<1>1. /\ Len(q) \in Nat /\ Len(q) # 0 /\ p = q[1] /\ Len(q2) = Len(q) - 1
      /\ \A i \in 1 .. Len(q2) : q2[i] = q[i + 1]
  OBVIOUS
<1> HIDE DEF p, q2
<1>2. PICK n \in Nat, f \in [Nat -> Nat], m \in [Nat -> Nat] :
        Listed(f, n, lg) /\ Mirrored(e, q, n, m, f, lg)
  BY DEF Mirror
<1>3. PICK m2 \in [Nat -> Nat] : \A i \in Nat : m2[i] = m[i + 1]
  BY MovedUp
<1>4. Len(q2) \in Nat /\ Len(q2) + 1 = Len(q) /\ 1 \in 1 .. Len(q) /\ 1 - 1 = 0 /\ 0 + 1 = 1
  BY <1>1
<1>5. IF p.kind = "opened" THEN m[1] = m[0] + 1 /\ lg[f[m[1]]].id = p.id ELSE m[1] = m[0]
  BY <1>1, <1>2, <1>4 DEF Mirrored
<1>6. m[0] \in Nat /\ Youngest(e, m[0], f, lg)
  BY <1>2 DEF Mirrored
<1>7. Youngest(e2, m[1], f, lg)
  <2>1. CASE p.kind # "opened"
    BY <1>5, <1>6, <2>1 DEF Youngest, p
  <2>2. CASE p.kind = "opened"
    <3>1. /\ Len(e2) = IF Len(e) < MaxEvents THEN Len(e) + 1 ELSE MaxEvents
          /\ \A k \in 1 .. Len(e2) : e2[k].name = IF k = 1 THEN p.id ELSE e[k - 1].name
      BY <2>2 DEF p
    <3>2. MaxEvents \in Nat /\ Len(e) \in Nat
      BY <1>6, YoungestBound, MonitorAssumption
    <3>3. Len(e) = IF m[0] < MaxEvents THEN m[0] ELSE MaxEvents
      BY <1>6 DEF Youngest
    <3>4. m[1] = m[0] + 1 /\ lg[f[m[1]]].id = p.id
      BY <1>5, <2>2
    <3>5. /\ Len(e2) = IF m[1] < MaxEvents THEN m[1] ELSE MaxEvents
          /\ \A k \in 1 .. Len(e2) : k # 1 => k \in Nat /\ k - 1 \in 1 .. Len(e)
      <4>1. Len(e2) = IF Len(e) < MaxEvents THEN Len(e) + 1 ELSE MaxEvents
        BY <3>1
      <4>2. /\ Len(e2) = IF m[0] + 1 < MaxEvents THEN m[0] + 1 ELSE MaxEvents
            /\ \A k \in 1 .. Len(e2) : k # 1 => k \in Nat /\ k - 1 \in 1 .. Len(e)
        BY <1>6, <3>2, <3>3, <4>1, CutLength
      <4>3. QED BY <3>4, <4>2
    <3>6. ASSUME NEW k \in 1 .. Len(e2) PROVE e2[k].name = lg[f[m[1] + 1 - k]].id
      <4>1. CASE k = 1
        <5>1. m[1] + 1 - k = m[1]
          BY <1>6, <3>4, <4>1
        <5>2. QED BY <3>1, <3>4, <4>1, <5>1
      <4>2. CASE k # 1
        <5>1. k - 1 \in 1 .. Len(e) /\ m[1] + 1 - k = m[0] + 1 - (k - 1)
          <6>1. k \in Nat /\ k - 1 \in 1 .. Len(e)
            BY <3>5, <4>2
          <6>2. QED BY <1>6, <3>4, <6>1
        <5>2. e[k - 1].name = lg[f[m[0] + 1 - (k - 1)]].id
          BY <1>6, <5>1 DEF Youngest
        <5>3. QED BY <3>1, <4>2, <5>1, <5>2
      <4>3. QED BY <4>1, <4>2
    <3>7. QED BY <3>5, <3>6 DEF Youngest
  <2>3. QED BY <2>1, <2>2
<1>8. Mirrored(e2, q2, n, m2, f, lg)
  <2>1. m2[Len(q2)] = n
    BY <1>2, <1>3, <1>4 DEF Mirrored
  <2>2. ASSUME NEW i \in 0 .. Len(q2) PROVE m2[i] <= n
    <3>1. i \in Nat /\ i + 1 \in 0 .. Len(q)
      BY <1>4, OneMore
    <3>2. QED BY <1>2, <1>3, <3>1 DEF Mirrored
  <2>3. ASSUME NEW i \in 1 .. Len(q2)
        PROVE  IF q2[i].kind = "opened" THEN m2[i] = m2[i - 1] + 1 /\ lg[f[m2[i]]].id = q2[i].id
                                        ELSE m2[i] = m2[i - 1]
    <3>1. /\ i \in Nat /\ i - 1 \in Nat /\ (i - 1) + 1 = i /\ i + 1 \in 1 .. Len(q)
          /\ (i + 1) - 1 = i
      BY <1>4, Within, OneMore
    <3>2. m2[i - 1] = m[i] /\ m2[i] = m[i + 1] /\ q2[i] = q[i + 1]
      BY <1>1, <1>3, <3>1
    <3>3. IF q[i + 1].kind = "opened"
          THEN m[i + 1] = m[(i + 1) - 1] + 1 /\ lg[f[m[i + 1]]].id = q[i + 1].id
          ELSE m[i + 1] = m[(i + 1) - 1]
      BY <1>2, <3>1 DEF Mirrored
    <3>4. QED BY <3>1, <3>2, <3>3
  <2>4. m2[0] = m[1]
    BY <1>3, <1>4
  <2>5. QED BY <1>7, <2>1, <2>2, <2>3, <2>4 DEF Mirrored
<1>9. QED BY <1>2, <1>3, <1>8 DEF Mirror, q2

\* The entries e when the alerts are those of seen: an entry is ACTIVE exactly if it is
\* the youngest of its sensor and the sensor has an open alert, and then it has its level.
First(e, k)    == \A j \in 1 .. Len(e) : j < k => e[j].name # e[k].name
Shows(e, seen) == \A k \in 1 .. Len(e) :
                    /\ e[k].active <=> seen[e[k].name] # "Normal" /\ First(e, k)
                    /\ e[k].active => e[k].level = seen[e[k].name]

\* The entries show the alerts from which the queued calls lead to those of t.
Shown(e, q, t) ==
  \E h \in [Nat -> [SensorIds -> Levels]] :
    /\ h[Len(q)] = t
    /\ \A i \in 1 .. Len(q) : FeedP!Change(h[i - 1], h[i], q[i])
    /\ Shows(e, h[0])

\* What is shown after an alert of p has opened.
LEMMA ShowsOpened ==
  ASSUME NEW e, Len(e) \in Nat, NEW e2, Len(e2) \in Nat, NEW p \in SensorIds, NEW l,
         \A k \in 1 .. Len(e) : e[k].name \in SensorIds,
         NEW seen \in [SensorIds -> Levels], Shows(e, seen), seen[p] = "Normal", l # "Normal",
         Len(e2) <= Len(e) + 1,
         \A k \in 1 .. Len(e2) : e2[k] = IF k = 1 THEN [name |-> p, level |-> l, active |-> TRUE]
                                                  ELSE e[k - 1]
  PROVE  Shows(e2, [seen EXCEPT ![p] = l])
<1> DEFINE now == [seen EXCEPT ![p] = l]
<1>1. now[p] = l /\ \A s \in SensorIds \ {p} : now[s] = seen[s]
  OBVIOUS
<1> HIDE DEF now
<1>2. ASSUME 1 \in 1 .. Len(e2)
      PROVE  /\ e2[1].name = p /\ e2[1].level = l /\ e2[1].active
             /\ First(e2, 1)
  BY <1>2 DEF First
<1>3. ASSUME NEW k \in 1 .. Len(e2), k # 1
      PROVE  /\ e2[k].active <=> now[e2[k].name] # "Normal" /\ First(e2, k)
             /\ e2[k].active => e2[k].level = now[e2[k].name]
  <2> DEFINE i == k - 1
  <2>1. /\ i \in 1 .. Len(e) /\ 1 \in 1 .. Len(e2) /\ 1 < k /\ k = i + 1
        /\ k \in Nat /\ i \in Nat
    BY <1>3
  <2>2. e2[k] = e[i]
    BY <1>3
  <2> HIDE DEF i
  <2>3. /\ e[i].active <=> seen[e[i].name] # "Normal" /\ First(e, i)
        /\ e[i].active => e[i].level = seen[e[i].name]
    BY <2>1 DEF Shows
  <2>4. CASE e[i].name = p
    <3>1. ~e[i].active
      BY <2>3, <2>4
    <3>2. ~First(e2, k)
      BY <1>2, <2>1, <2>2, <2>4 DEF First
    <3>3. QED BY <2>2, <3>1, <3>2
  <2>5. CASE e[i].name # p
    <3>1. now[e[i].name] = seen[e[i].name]
      BY <1>1, <2>1, <2>5
    <3>2. First(e2, k) <=> First(e, i)
      <4>1. ASSUME First(e2, k), NEW j \in 1 .. Len(e), j < i PROVE e[j].name # e[i].name
        <5>1. j + 1 \in 1 .. Len(e2) /\ j + 1 < k /\ j + 1 # 1 /\ (j + 1) - 1 = j
          BY <2>1, <4>1
        <5>2. e2[j + 1] = e[j]
          BY <5>1
        <5>3. QED BY <2>2, <4>1, <5>1, <5>2 DEF First
      <4>2. ASSUME First(e, i), NEW j \in 1 .. Len(e2), j < k PROVE e2[j].name # e2[k].name
        <5>1. CASE j = 1
          BY <1>2, <2>2, <2>5, <4>2, <5>1
        <5>2. CASE j # 1
          <6>1. j - 1 \in 1 .. Len(e) /\ j - 1 < i
            BY <2>1, <4>2, <5>2
          <6>2. e2[j] = e[j - 1]
            BY <4>2, <5>2
          <6>3. QED BY <2>2, <4>2, <6>1, <6>2 DEF First
        <5>3. QED BY <5>1, <5>2
      <4>3. QED BY <4>1, <4>2 DEF First
    <3>3. QED BY <2>2, <2>3, <3>1, <3>2
  <2>6. QED BY <2>4, <2>5
<1>4. Shows(e2, now)
  <2>1. ASSUME NEW k \in 1 .. Len(e2), k = 1
        PROVE  /\ e2[k].active <=> now[e2[k].name] # "Normal" /\ First(e2, k)
               /\ e2[k].active => e2[k].level = now[e2[k].name]
    BY <1>1, <1>2, <2>1
  <2>2. QED BY <1>3, <2>1 DEF Shows
<1>5. QED BY <1>4 DEF now

\* An alert of p closes: no entry of p remains ACTIVE.
LEMMA ClosedEntries ==
  ASSUME FeedP!FeedTypeOK, NEW seen, Shows(entries, seen), NEW p \in SensorIds,
         FeedP!Board!OnAlertClosed(p)
  PROVE  /\ Len(entries') = Len(entries) /\ DOMAIN entries' = 1 .. Len(entries)
         /\ \A k \in 1 .. Len(entries) :
              /\ entries'[k].name = entries[k].name /\ entries'[k].level = entries[k].level
              /\ entries'[k].active <=> entries[k].active /\ entries[k].name # p
<1>1. /\ Len(entries) \in Nat /\ DOMAIN entries = 1 .. Len(entries)
      /\ \A k \in 1 .. Len(entries) : entries[k] \in FeedP!Board!Entry
      /\ config = [s \in SensorIds |-> s]
  BY DEF FeedP!FeedTypeOK
<1> DEFINE found == FeedP!Board!Active(p)
           k == CHOOSE j \in found : \A i \in found : j <= i
<1>2. config[p] = p
  BY <1>1
<1>3. IF found = {} THEN entries' = entries ELSE entries' = FeedP!Board!Closed(k)
  BY <1>2 DEF FeedP!Board!OnAlertClosed
<1>4. \A j : j \in found <=> j \in 1 .. Len(entries) /\ entries[j].active /\ entries[j].name = p
  BY <1>1 DEF FeedP!Board!Active
<1> HIDE DEF found
<1>5. CASE found = {}
  BY <1>1, <1>3, <1>4, <1>5
<1>6. CASE found # {}
  <2>1. found \in SUBSET Nat
    BY <1>1, <1>4
  <2>2. k \in found
    BY <1>6, <2>1, Assumed, FeedP!LeastNat
  <2>3. \A j \in found : First(entries, j)
    BY <1>4 DEF Shows
  <2> HIDE DEF k
  <2>4. ASSUME NEW j \in found PROVE j = k
    <3>1. j \in 1 .. Len(entries) /\ k \in 1 .. Len(entries) /\ entries[j].name = entries[k].name
      BY <1>4, <2>2
    <3>2. ~(j < k) /\ ~(k < j)
      BY <2>2, <2>3, <3>1 DEF First
    <3>3. QED BY <1>1, <3>1, <3>2
  <2>5. entries' = [entries EXCEPT ![k].active = FALSE]
    BY <1>3, <1>6 DEF FeedP!Board!Closed, k
  <2>6. k \in 1 .. Len(entries)
    BY <1>4, <2>2
  <2>7. /\ DOMAIN entries' = 1 .. Len(entries)
        /\ \A j \in 1 .. Len(entries) \ {k} : entries'[j] = entries[j]
        /\ entries'[k] = [entries[k] EXCEPT !.active = FALSE]
    BY <1>1, <2>5, <2>6
  <2>8. Len(entries') = Len(entries)
    BY <1>1, <2>7, LenProperties DEF FeedP!FeedTypeOK
  <2>9. /\ entries'[k].name = entries[k].name /\ entries'[k].level = entries[k].level
        /\ entries'[k].active = FALSE
    BY <1>1, <2>6, <2>7 DEF FeedP!Board!Entry
  <2>10. QED BY <1>4, <2>2, <2>4, <2>6, <2>7, <2>8, <2>9
<1>7. QED BY <1>5, <1>6

\* What is shown after an alert of p has closed.
LEMMA ShowsClosed ==
  ASSUME NEW e, NEW e2, NEW p \in SensorIds,
         \A k \in 1 .. Len(e) : e[k].name \in SensorIds,
         NEW seen \in [SensorIds -> Levels], Shows(e, seen), Len(e2) = Len(e),
         \A k \in 1 .. Len(e) :
              /\ e2[k].name = e[k].name /\ e2[k].level = e[k].level
              /\ e2[k].active <=> e[k].active /\ e[k].name # p
  PROVE  Shows(e2, [seen EXCEPT ![p] = "Normal"])
<1> DEFINE now == [seen EXCEPT ![p] = "Normal"]
<1>1. now[p] = "Normal" /\ \A s \in SensorIds \ {p} : now[s] = seen[s]
  OBVIOUS
<1> HIDE DEF now
<1>2. \A k \in 1 .. Len(e) : First(e2, k) <=> First(e, k)
  BY DEF First
<1>3. Shows(e2, now)
  BY <1>1, <1>2 DEF Shows
<1>4. QED BY <1>3 DEF now

\* A call is posted that says what has happened to the alerts.
LEMMA ShownPost ==
  ASSUME NEW e, NEW q \in Seq(FeedP!Posts), NEW p, NEW t, Shown(e, q, t),
         NEW t2 \in [SensorIds -> Levels], FeedP!Change(t, t2, p)
  PROVE  Shown(e, Append(q, p), t2)
<1>1. PICK h \in [Nat -> [SensorIds -> Levels]] :
        /\ h[Len(q)] = t
        /\ \A i \in 1 .. Len(q) : FeedP!Change(h[i - 1], h[i], q[i])
        /\ Shows(e, h[0])
  BY DEF Shown
<1> DEFINE n == Len(q) + 1
           q2 == Append(q, p)
<1>2. /\ Len(q) \in Nat /\ n \in Nat /\ n # 0 /\ Len(q2) = n /\ n = Len(q) + 1
      /\ \A i \in 1 .. Len(q) : q2[i] = q[i]
      /\ q2[n] = p
  BY AppendProperties
<1> HIDE DEF q2, n
<1>3. PICK h2 \in [Nat -> [SensorIds -> Levels]] :
        h2[n] = t2 /\ \A i \in 0 .. Len(q) : h2[i] = h[i]
  <2> DEFINE g == [h EXCEPT ![n] = t2]
  <2>1. g \in [Nat -> [SensorIds -> Levels]] /\ g[n] = t2
    BY <1>2
  <2>2. ASSUME NEW i \in 0 .. Len(q) PROVE g[i] = h[i]
    <3>1. i \in Nat /\ i # n
      BY <1>2
    <3>2. QED BY <3>1
  <2> HIDE DEF g
  <2>3. QED BY <2>1, <2>2
<1>4. ASSUME NEW i \in 1 .. Len(q2) PROVE FeedP!Change(h2[i - 1], h2[i], q2[i])
  <2>1. CASE i = n
    <3>1. i - 1 = Len(q) /\ Len(q) \in 0 .. Len(q)
      BY <1>2, <2>1
    <3>2. h2[i - 1] = t /\ h2[i] = t2 /\ q2[i] = p
      BY <1>1, <1>2, <1>3, <2>1, <3>1
    <3>3. QED BY <3>2
  <2>2. CASE i # n
    <3>0. i \in 1 .. Len(q)
      BY <1>2, <2>2, OneMore
    <3>1. i - 1 \in 0 .. Len(q) /\ i \in 0 .. Len(q)
      BY <1>2, <3>0, Within
    <3>2. h2[i - 1] = h[i - 1] /\ h2[i] = h[i] /\ q2[i] = q[i]
      BY <1>2, <1>3, <3>0, <3>1
    <3>3. FeedP!Change(h[i - 1], h[i], q[i])
      BY <1>1, <3>0
    <3>4. QED BY <3>2, <3>3
  <2>3. QED BY <2>1, <2>2
<1>5. h2[0] = h[0]
  BY <1>2, <1>3
<1>6. QED BY <1>1, <1>2, <1>3, <1>4, <1>5 DEF Shown, q2

\* The oldest call is made, and the entries change as the call says.
LEMMA ShownHandle ==
  ASSUME NEW e, NEW e2, NEW q \in Seq(FeedP!Posts), q # <<>>, NEW t, Shown(e, q, t),
         \A seen, now \in [SensorIds -> Levels] :
           Shows(e, seen) /\ FeedP!Change(seen, now, Head(q)) => Shows(e2, now)
  PROVE  Shown(e2, Tail(q), t)
<1>1. PICK h \in [Nat -> [SensorIds -> Levels]] :
        /\ h[Len(q)] = t
        /\ \A i \in 1 .. Len(q) : FeedP!Change(h[i - 1], h[i], q[i])
        /\ Shows(e, h[0])
  BY DEF Shown
<1> DEFINE p  == Head(q)
           q2 == Tail(q)
           h2 == [i \in Nat |-> h[i + 1]]
<1>2. /\ Len(q) \in Nat /\ Len(q) # 0 /\ p = q[1] /\ Len(q2) = Len(q) - 1
      /\ \A i \in 1 .. Len(q2) : q2[i] = q[i + 1]
  OBVIOUS
<1>3. /\ h2 \in [Nat -> [SensorIds -> Levels]] /\ \A i \in Nat : h2[i] = h[i + 1]
  OBVIOUS
<1> HIDE DEF p, q2, h2
<1>4. Len(q2) \in Nat /\ Len(q2) + 1 = Len(q) /\ 1 \in 1 .. Len(q) /\ 1 - 1 = 0 /\ 0 + 1 = 1
  BY <1>2
<1>5. h2[Len(q2)] = t
  BY <1>1, <1>3, <1>4
<1>6. ASSUME NEW i \in 1 .. Len(q2) PROVE FeedP!Change(h2[i - 1], h2[i], q2[i])
  <2>1. /\ i \in Nat /\ i - 1 \in Nat /\ (i - 1) + 1 = i /\ i + 1 \in 1 .. Len(q)
        /\ (i + 1) - 1 = i
    BY <1>4, Within, OneMore
  <2>2. h2[i - 1] = h[i] /\ h2[i] = h[i + 1] /\ q2[i] = q[i + 1]
    BY <1>2, <1>3, <2>1
  <2>3. FeedP!Change(h[(i + 1) - 1], h[i + 1], q[i + 1])
    BY <1>1, <2>1
  <2>4. QED BY <2>1, <2>2, <2>3
<1>7. Shows(e2, h2[0])
  <2>1. h2[0] = h[1] /\ h[0] \in [SensorIds -> Levels] /\ h[1] \in [SensorIds -> Levels]
    BY <1>3, <1>4
  <2>2. FeedP!Change(h[1 - 1], h[1], q[1])
    BY <1>1, <1>4
  <2>3. FeedP!Change(h[0], h[1], Head(q))
    BY <1>2, <1>4, <2>2 DEF p
  <2>4. QED BY <1>1, <2>1, <2>3
<1>8. QED BY <1>3, <1>5, <1>6, <1>7 DEF Shown, q2

\* As long as the process lives, the session log, the queue and the event log tell the
\* same story.
BoardInv == stage # "killed" => Mirror(entries, posts, log) /\ Shown(entries, posts, told)

\* The event loop makes the oldest call.
LEMMA BoardHandle ==
  ASSUME FeedP!FeedTypeOK, FeedP!FeedTypeOK', FeedP!HandlePost,
         Mirror(entries, posts, log), Shown(entries, posts, told)
  PROVE  Mirror(entries', posts', log) /\ Shown(entries', posts', told)
<1> DEFINE p == Head(posts)
<1>1. /\ posts \in Seq(FeedP!Posts) /\ posts # <<>> /\ posts' = Tail(posts)
      /\ p \in FeedP!Posts
  <2>1. posts \in Seq(FeedP!Posts) /\ posts # <<>> /\ posts' = Tail(posts)
    BY DEF FeedP!HandlePost, FeedP!FeedTypeOK, FeedP!Posts
  <2>2. QED BY <2>1, HeadTailProperties
<1>2. p.id \in SensorIds /\ p.level \in Levels /\ p.kind \in {"opened", "closed", "frame"}
  BY <1>1 DEF FeedP!Posts, FeedP!Levels, Levels, Feed!Levels
<1>3. /\ p.kind = "opened" => FeedP!Board!OnAlertOpened(p.id, p.level)
      /\ p.kind = "closed" => FeedP!Board!OnAlertClosed(p.id)
      /\ p.kind = "frame"  => entries' = entries
  BY DEF FeedP!HandlePost, FeedP!Board!PushFrame
<1>4. /\ Len(entries) \in Nat /\ Len(entries') \in Nat
      /\ \A k \in 1 .. Len(entries) : entries[k].name \in SensorIds
      /\ config = [s \in SensorIds |-> s]
  <2>1. /\ config = [s \in SensorIds |-> s] /\ entries \in Seq(FeedP!Board!Entry)
        /\ Len(entries') \in Nat
    BY DEF FeedP!FeedTypeOK
  <2>2. FeedP!Board!Entry = [name : SensorIds, level : FeedP!Board!Levels, active : BOOLEAN]
    BY <2>1 DEF FeedP!Board!Entry
  <2>3. \A k \in 1 .. Len(entries) : entries[k] \in FeedP!Board!Entry
    BY <2>1, ElementOfSeq
  <2>4. QED BY <2>1, <2>2, <2>3, LenProperties
<1> HIDE DEF p
<1>5. CASE p.kind = "opened"
  <2>1. FeedP!Board!OnAlertOpened(p.id, p.level) /\ p.level \in FeedP!Levels
    BY <1>2, <1>3, <1>5 DEF FeedP!Levels, Levels, Feed!Levels
  <2>2. /\ Len(entries) <= MaxEvents
        /\ Len(entries') = IF Len(entries) < MaxEvents THEN Len(entries) + 1 ELSE MaxEvents
        /\ DOMAIN entries' = 1 .. Len(entries')
        /\ \A k \in DOMAIN entries' :
             entries'[k] = IF k = 1 THEN [name |-> config[p.id], level |-> p.level, active |-> TRUE]
                                    ELSE entries[k - 1]
    BY <1>2, <2>1, Assumed, FeedP!OpenedEntries
  <2>3. /\ Len(entries') <= Len(entries) + 1 /\ config[p.id] = p.id
        /\ \A k \in 1 .. Len(entries') :
             entries'[k] = IF k = 1 THEN [name |-> p.id, level |-> p.level, active |-> TRUE]
                                    ELSE entries[k - 1]
    BY <1>2, <1>4, <2>2, MonitorAssumption
  <2>4. Mirror(entries', Tail(posts), log)
    <3>1. \A k \in 1 .. Len(entries') :
            entries'[k].name = IF k = 1 THEN p.id ELSE entries[k - 1].name
      BY <2>3
    <3>2. QED BY <1>1, <1>5, <2>2, <3>1, MirrorHandle DEF p
  <2>5. ASSUME NEW seen \in [SensorIds -> Levels], NEW now, Shows(entries, seen),
               FeedP!Change(seen, now, p)
        PROVE  Shows(entries', now)
    <3>1. /\ seen[p.id] = "Normal" /\ p.level # "Normal"
          /\ now = [seen EXCEPT ![p.id] = p.level]
      BY <1>5, <2>5 DEF FeedP!Change
    <3>2. Shows(entries', [seen EXCEPT ![p.id] = p.level])
      BY <1>2, <1>4, <2>3, <2>5, <3>1, ShowsOpened
    <3>3. QED BY <3>1, <3>2
  <2>6. Shown(entries', Tail(posts), told)
    BY <1>1, <2>5, ShownHandle DEF p
  <2>7. QED BY <1>1, <2>4, <2>6
<1>6. CASE p.kind = "closed"
  <2>1. ASSUME NEW seen, Shows(entries, seen)
        PROVE  /\ Len(entries') = Len(entries)
               /\ \A k \in 1 .. Len(entries) :
                    /\ entries'[k].name = entries[k].name /\ entries'[k].level = entries[k].level
                    /\ entries'[k].active <=> entries[k].active /\ entries[k].name # p.id
    BY <1>2, <1>3, <1>6, <2>1, ClosedEntries
  <2>2. ASSUME NEW seen \in [SensorIds -> Levels], NEW now, Shows(entries, seen),
               FeedP!Change(seen, now, p)
        PROVE  Shows(entries', now)
    <3>1. now = [seen EXCEPT ![p.id] = "Normal"]
      BY <1>6, <2>2 DEF FeedP!Change
    <3>2. Shows(entries', [seen EXCEPT ![p.id] = "Normal"])
      BY <1>2, <1>4, <2>1, <2>2, ShowsClosed
    <3>3. QED BY <3>1, <3>2
  <2>3. \E seen : Shows(entries, seen)
    BY DEF Shown
  <2>4. Mirror(entries', Tail(posts), log)
    <3>1. Len(entries') = Len(entries)
            /\ \A k \in 1 .. Len(entries) : entries'[k].name = entries[k].name
      BY <2>1, <2>3
    <3>2. QED BY <1>1, <1>6, <3>1, MirrorHandle DEF p
  <2>5. Shown(entries', Tail(posts), told)
    BY <1>1, <2>2, ShownHandle DEF p
  <2>6. QED BY <1>1, <2>4, <2>5
<1>7. CASE p.kind = "frame"
  <2>1. entries' = entries
    BY <1>3, <1>7
  <2>2. Mirror(entries', Tail(posts), log)
    BY <1>1, <1>7, <2>1, MirrorHandle DEF p
  <2>3. ASSUME NEW seen, NEW now, Shows(entries, seen), FeedP!Change(seen, now, p)
        PROVE  Shows(entries', now)
    <3>1. now = seen
      BY <1>7, <2>3 DEF FeedP!Change
    <3>2. QED BY <2>1, <2>3, <3>1
  <2>4. Shown(entries', Tail(posts), told)
    BY <1>1, <2>3, ShownHandle DEF p
  <2>5. QED BY <1>1, <2>2, <2>4
<1>8. QED BY <1>2, <1>5, <1>6, <1>7

\* All other steps leave the log, the queue and the entries alone.
LEMMA BoardSilent ==
  ASSUME [Next]_vars, ~FireOpened, ~FireClosed, ~PushFrame, ~FlushLine, ~HandlePost, ~Terminated
  PROVE  UNCHANGED <<log, told, posts, entries>>
<1>1. UNCHANGED <<log, told>>
  BY SilentStep
<1>2. CASE WorkerStep \/ Receive
  BY <1>1, <1>2 DEF WorkerStep, WorkerLoop, Evaluate, UpdateChannel, Receive, feedVars, boardVars,
              Feed!Receive, Feed!Update, Feed!boardVars
<1>3. CASE MainStep
  BY <1>1, <1>3 DEF MainStep, EndStep, PortFails, StartReader, StartHub, Quit, Visit, Miss,
              Collected, Flushed, StopHub, StopReader, feedVars, boardVars
<1>4. CASE UNCHANGED vars
  BY <1>4 DEF vars, feedVars, boardVars
<1>5. QED BY <1>2, <1>3, <1>4 DEF Next

\* BoardInv is preserved by every step.
LEMMA BoardStep ==
  /\ FeedP!TypeOK /\ FeedP!TypeOK' /\ FeedP!StepInv /\ FeedP!InHand
  /\ FeedP!FeedTypeOK /\ FeedP!FeedTypeOK' /\ MainTypeOK /\ BoardInv /\ [Next]_vars
  => BoardInv'
<1> SUFFICES ASSUME FeedP!TypeOK, FeedP!TypeOK', FeedP!StepInv, FeedP!InHand,
                    FeedP!FeedTypeOK, FeedP!FeedTypeOK', MainTypeOK, BoardInv, [Next]_vars,
                    stage' # "killed"
             PROVE  Mirror(entries', posts', log') /\ Shown(entries', posts', told')
  BY DEF BoardInv
<1>1. Mirror(entries, posts, log) /\ Shown(entries, posts, told)
  BY KilledStays DEF BoardInv
<1>2. /\ posts \in Seq(FeedP!Posts) /\ entries \in Seq(FeedP!Board!Entry) /\ log \in Seq(Lines)
      /\ FeedP!Levels = Levels
      /\ told \in [SensorIds -> Levels] /\ told' \in [SensorIds -> Levels]
  BY DEF FeedP!FeedTypeOK, FeedP!Posts, MainTypeOK, FeedP!TypeOK, FeedP!Levels, Levels,
         Feed!Levels
<1>3. CASE FireOpened
  <2>1. /\ step = "opened" /\ fired' = FeedP!Event("opened", input.id, states[input.id].current)
        /\ told' = [told EXCEPT ![input.id] = states[input.id].current]
        /\ posts' = Append(posts, fired') /\ entries' = entries
        /\ log' = Append(log, Line("OPEN", fired'.id, fired'.level))
    BY <1>3 DEF FireOpened, Feed!Opened, Feed!FireOpened, Feed!Event, FeedP!Event,
                Feed!boardVars
  <2>2. /\ input.id \in SensorIds /\ states[input.id].current \in Levels
        /\ told[input.id] = "Normal" /\ states[input.id].current # "Normal"
    BY <1>2, <2>1 DEF FeedP!TypeOK, FeedP!StepInv, FeedP!ChannelState
  <2> DEFINE p == FeedP!Event("opened", input.id, states[input.id].current)
             ln == Line("OPEN", input.id, states[input.id].current)
  <2>3. /\ p \in FeedP!Posts /\ p.kind = "opened" /\ p.id = input.id
        /\ p.level = states[input.id].current
    BY <1>2, <2>2 DEF FeedP!Event, FeedP!Posts
  <2>4. ln \in Lines /\ ln.kind = "OPEN" /\ ln.id = input.id
    BY <2>2 DEF Line, Lines
  <2>5. posts' = Append(posts, p) /\ log' = Append(log, ln)
    BY <2>1, <2>3
  <2>6. FeedP!Change(told, told', p)
    BY <2>1, <2>2, <2>3 DEF FeedP!Change
  <2> HIDE DEF p, ln
  <2>7. Mirror(entries, posts', log')
    BY <1>1, <1>2, <2>3, <2>4, <2>5, MirrorOpen
  <2>8. Shown(entries, posts', told')
    BY <1>1, <1>2, <2>5, <2>6, ShownPost
  <2>9. QED BY <2>1, <2>7, <2>8
<1>4. CASE FireClosed
  <2>1. /\ step \in {"closed", "escalate"}
        /\ fired' = FeedP!Event("closed", input.id, states[input.id].current)
        /\ told' = [told EXCEPT ![input.id] = "Normal"]
        /\ posts' = Append(posts, fired') /\ entries' = entries
        /\ log' = Append(log, Line("CLOSED", fired'.id, fired'.level))
    BY <1>4 DEF FireClosed, Feed!Closed, Feed!FireClosed, Feed!FireEscalated, Feed!Event,
                FeedP!Event, Feed!boardVars
  <2>2. /\ input.id \in SensorIds /\ states[input.id].current \in Levels
        /\ told[input.id] # "Normal"
    BY <1>2, <2>1 DEF FeedP!TypeOK, FeedP!StepInv, FeedP!ChannelState
  <2> DEFINE p == FeedP!Event("closed", input.id, states[input.id].current)
             ln == Line("CLOSED", input.id, states[input.id].current)
  <2>3. p \in FeedP!Posts /\ p.kind = "closed" /\ p.id = input.id
          /\ p.level = states[input.id].current
    BY <1>2, <2>2 DEF FeedP!Event, FeedP!Posts
  <2>4. ln \in Lines /\ ln.kind = "CLOSED"
    BY <2>2 DEF Line, Lines
  <2>5. posts' = Append(posts, p) /\ log' = Append(log, ln)
    BY <2>1, <2>3
  <2>6. FeedP!Change(told, told', p)
    BY <2>1, <2>2, <2>3 DEF FeedP!Change
  <2> HIDE DEF p, ln
  <2>7. Mirror(entries, posts, log')
    BY <1>1, <1>2, <2>4, <2>5, MirrorLine
  <2>8. Mirror(entries, posts', log')
    BY <1>2, <2>3, <2>5, <2>7, MirrorCall
  <2>9. Shown(entries, posts', told')
    BY <1>1, <1>2, <2>5, <2>6, ShownPost
  <2>10. QED BY <2>1, <2>8, <2>9
<1>5. CASE PushFrame
  <2> DEFINE p == FeedP!FramePost(input.id, input.level)
  <2>1. /\ tracking /\ posts' = Append(posts, p) /\ UNCHANGED <<told, log, entries>>
    BY <1>5 DEF PushFrame, Feed!PushFrame, Feed!FramePost, FeedP!FramePost, Feed!vars,
                Feed!boardVars
  <2>2. p \in FeedP!Posts /\ p.kind = "frame"
    BY <2>1 DEF FeedP!InHand, FeedP!FramePost, FeedP!Posts
  <2> HIDE DEF p
  <2>3. Mirror(entries, posts', log)
    BY <1>1, <1>2, <2>1, <2>2, MirrorCall
  <2>4. FeedP!Change(told, told', p)
    BY <2>1, <2>2 DEF FeedP!Change
  <2>5. Shown(entries, posts', told')
    BY <1>1, <1>2, <2>1, <2>4, ShownPost
  <2>6. QED BY <2>1, <2>3, <2>5
<1>6. CASE FlushLine
  <2>1. PICK ev \in open : log' = Append(log, Line("INTERRUPTED", ev.id, ev.level))
    BY <1>6 DEF FlushLine
  <2>2. UNCHANGED <<posts, entries, told>>
    BY <1>6 DEF FlushLine, feedVars, boardVars
  <2> DEFINE ln == Line("INTERRUPTED", ev.id, ev.level)
  <2>3. ln \in Lines /\ ln.kind # "OPEN" /\ log' = Append(log, ln)
    BY <2>1 DEF MainTypeOK, Line, Lines
  <2> HIDE DEF ln
  <2>4. Mirror(entries, posts, log')
    BY <1>1, <1>2, <2>3, MirrorLine
  <2>5. QED BY <1>1, <2>2, <2>4
<1>7. CASE HandlePost
  <2>1. log' = log /\ told' = told
    BY <1>7 DEF HandlePost, Feed!HandlePost, Feed!vars
  <2>2. FeedP!HandlePost
    BY <1>7, HandleStep
  <2>3. QED BY <1>1, <2>1, <2>2, BoardHandle
<1>8. CASE ~FireOpened /\ ~FireClosed /\ ~PushFrame /\ ~FlushLine /\ ~HandlePost
  <2>1. ~Terminated
    BY DEF Terminated
  <2>2. QED BY <1>1, <1>8, <2>1, BoardSilent
<1>9. QED BY <1>3, <1>4, <1>5, <1>6, <1>7, <1>8

\* While the process lives, the channel table is as in AlertFeed.
LEMMA TableKept == Spec => [](stage # "killed" => FeedP!TableInv)
<1>1. Init => FeedP!TableInv
  <2>1. Init => FeedP!FeedInit
    BY DEF Init, Feed!FeedInit, Feed!Init, FeedP!Init, Feed!Default, FeedP!Default,
           Feed!Nothing, FeedP!Nothing, FeedP!FeedInit, Feed!Board!Init, FeedP!Board!Init,
           Feed!Board!SetConfigs, FeedP!Board!SetConfigs
  <2>2. QED BY <2>1, Assumed, FeedP!TableInit
<1>2. /\ HubP!TypeOK /\ FeedP!TypeOK /\ FeedP!StepInv /\ FeedP!InHand /\ FeedP!FeedTypeOK
      /\ (stage # "killed" => FeedP!TableInv) /\ [Next]_vars
      => (stage # "killed" => FeedP!TableInv)'
  <2>1. Terminated => stage' = "killed"
    BY DEF Terminated
  <2>2. /\ FeedP!TypeOK /\ FeedP!StepInv /\ FeedP!InHand /\ FeedP!FeedTypeOK
        /\ FeedP!TableInv /\ [FeedP!AnyStep]_(FeedP!feedVars)
        => FeedP!TableInv'
    BY Assumed, FeedP!TableStep
  <2>3. QED BY <2>1, <2>2, KilledStays, MonitorFeedStep
<1>3. QED BY <1>1, <1>2, HubCorrect, TrackerCorrect, FeedCorrect, PTL DEF Spec

\* In the process, too, the table and the event log are of their types, and whenever no
\* call is queued and no callback runs, each row shows the level the tracker has for its
\* sensor, and the counters count the sensors at each level: until the process is killed,
\* and its shutdown included.
THEOREM TableInMonitor ==
  Spec => [](stage # "killed" => FeedP!FeedTypeOK /\ FeedP!TableAgrees)
<1>1. FeedP!TypeOK /\ FeedP!StepInv /\ FeedP!FeedTypeOK /\ FeedP!TableInv => FeedP!TableAgrees
  BY Assumed, FeedP!TableQuiet
<1>2. QED BY <1>1, TrackerCorrect, FeedCorrect, TableKept, PTL

\* BoardInv holds always.
LEMMA BoardCorrect == Spec => []BoardInv
<1>1. Init => BoardInv
  <2> SUFFICES ASSUME Init PROVE Mirror(entries, posts, log) /\ Shown(entries, posts, told)
    BY DEF BoardInv
  <2>1. /\ log = <<>> /\ posts = <<>> /\ entries = <<>>
        /\ told = [s \in SensorIds |-> "Normal"]
    BY DEF Init, Feed!FeedInit, Feed!Init, Feed!Board!Init
  <2>2. Len(posts) = 0 /\ Len(entries) = 0 /\ DOMAIN log = {}
    BY <2>1
  <2> DEFINE z == [i \in Nat |-> 0]
             h == [i \in Nat |-> told]
  <2>3. z \in [Nat -> Nat] /\ z[0] = 0 /\ h \in [Nat -> [SensorIds -> Levels]] /\ h[0] = told
    BY <2>1 DEF Levels, Feed!Levels
  <2> HIDE DEF z, h
  <2>4. Listed(z, 0, log)
    BY <2>2 DEF Listed
  <2>5. Mirrored(entries, posts, 0, z, z, log)
    BY <2>2, <2>3, MonitorAssumption DEF Mirrored, Youngest
  <2>6. Shown(entries, posts, told)
    <3>1. Shows(entries, h[0]) /\ 1 .. Len(posts) = {}
      BY <2>2 DEF Shows
    <3>2. QED BY <2>2, <2>3, <3>1 DEF Shown
  <2>7. QED BY <2>3, <2>4, <2>5, <2>6 DEF Mirror
<1>2. QED BY <1>1, BoardStep, TrackerCorrect, FeedCorrect, MainTypeCorrect, PTL DEF Spec

\* The row of each sensor, when all is quiet.
LEMMA RowsAgree ==
  ASSUME FeedP!TypeOK, FeedP!StepInv, FeedP!FeedTypeOK, FeedP!TableInv, posts = <<>>, ~tracking,
         NEW s \in SensorIds
  PROVE  rows[s].level = told[s]
<1>1. config = [u \in SensorIds |-> u] /\ step = "idle" /\ known \subseteq SensorIds
  BY DEF FeedP!FeedTypeOK, FeedP!TypeOK
<1>2. FeedP!TableAgrees
  BY Assumed, FeedP!TableQuiet
<1>3. FeedP!Quiet /\ FeedP!Own(s)
  BY <1>1 DEF FeedP!Quiet, FeedP!Own
<1>4. QED BY <1>2, <1>3 DEF FeedP!TableAgrees

\* A list of places has as many elements after place a as there are numbers after a.
LEMMA Remaining ==
  ASSUME NEW n \in Nat, NEW a \in 0 .. n, NEW f,
         \A b, c \in 1 .. n : b < c => f[b] \in Nat /\ f[c] \in Nat /\ f[b] < f[c]
  PROVE  Cardinality({f[b] : b \in a + 1 .. n}) = n - a
<1> DEFINE A == a + 1 .. n
           B == {f[b] : b \in A}
           F == [b \in A |-> f[b]]
<1>1. a \in Nat /\ a + 1 \in Int /\ n \in Int /\ A \subseteq 1 .. n
  OBVIOUS
<1>2. IsFiniteSet(A) /\ Cardinality(A) = n - a
  <2>1. IsFiniteSet(a + 1 .. n) /\ Cardinality(a + 1 .. n) = IF a + 1 > n THEN 0 ELSE n - (a + 1) + 1
    BY <1>1, FS_Interval
  <2>2. QED BY <1>1, <2>1
<1>3. F \in [A -> B] /\ \A b \in A : F[b] = f[b]
  OBVIOUS
<1>4. \A b, c \in A : F[b] = F[c] => b = c
  <2>1. SUFFICES ASSUME NEW b \in A, NEW c \in A, b # c PROVE f[b] # f[c]
    BY <1>3
  <2>2. b \in 1 .. n /\ c \in 1 .. n /\ (b < c \/ c < b)
    BY <1>1, <2>1
  <2> HIDE DEF A, B, F
  <2>3. QED BY <2>2
<1>5. \A y \in B : \E b \in A : F[b] = y
  BY <1>3
<1> HIDE DEF A, B, F
<1>6. F \in Bijection(A, B)
  <2>1. F \in Injection(A, B)
    BY <1>3, <1>4, Fun_IsInj
  <2>2. F \in Surjection(A, B)
    BY <1>3, <1>5, Fun_IsSurj
  <2>3. QED BY <2>1, <2>2 DEF Bijection
<1>7. Cardinality(A) = Cardinality(B)
  BY <1>2, <1>6, FS_Bijection DEF ExistsBijection
<1>8. QED BY <1>2, <1>7 DEF A, B

\* Where the entry of the alert at place a of n is in a list of at most c.
LEMMA EntryPlace ==
  ASSUME NEW n \in Nat, NEW a \in 1 .. n, NEW c \in Nat, NEW len, len = IF n < c THEN n ELSE c
  PROVE  /\ n - a < c => n - a + 1 \in 1 .. len /\ n + 1 - (n - a + 1) = a
         /\ n - a >= c => \A j \in 1 .. len : ~(n - a + 1 <= j)
OBVIOUS

\* The ACTIVE entries of s, the OPEN lines after the last of s, and what DashboardAgrees
\* says of them.
ActiveOf(e, s)  == {k \in 1 .. Len(e) : e[k].active /\ e[k].name = s}
Younger(lg, s)  == {j \in DOMAIN lg : /\ lg[j].kind = "OPEN"
                                      /\ \E i \in OpensIn(lg, s) :
                                           \A o \in OpensIn(lg, s) : o <= i /\ i < j}
OneEntry(e, lg, s, l) ==
  /\ l = "Normal" => ActiveOf(e, s) = {}
  /\ l # "Normal" =>
       IF Cardinality(Younger(lg, s)) >= MaxEvents THEN ActiveOf(e, s) = {}
       ELSE \E k \in ActiveOf(e, s) : ActiveOf(e, s) = {k} /\ e[k].level = l

\* The entries of a sensor, when all is quiet: they are those of the youngest alerts.
LEMMA EntriesMirror ==
  ASSUME NEW e, NEW lg \in Seq(Lines), NEW t, Mirror(e, <<>>, lg), Shown(e, <<>>, t),
         NEW s, t[s] # "Normal" => OpensIn(lg, s) # {}
  PROVE  OneEntry(e, lg, s, t[s])
<1> DEFINE active  == ActiveOf(e, s)
           younger == Younger(lg, s)
<1> USE DEF ActiveOf
<1>1. PICK n \in Nat, f \in [Nat -> Nat], m \in [Nat -> Nat] :
        Listed(f, n, lg) /\ Mirrored(e, <<>>, n, m, f, lg)
  BY DEF Mirror
<1>1a. DOMAIN lg \subseteq Nat /\ \A b \in 1 .. n : b \in Nat /\ f[b] \in Nat
  <2>1. DOMAIN lg = 1 .. Len(lg) /\ Len(lg) \in Nat
    BY LenProperties
  <2>2. \A k \in Nat : 1 .. k \subseteq Nat
    OBVIOUS
  <2>3. DOMAIN lg \subseteq Nat /\ 1 .. n \subseteq Nat
    BY <2>1, <2>2
  <2>4. QED BY <2>3
<1>2. Youngest(e, n, f, lg)
  <2>1. Len(<<>>) = 0
    OBVIOUS
  <2>2. QED BY <1>1, <2>1 DEF Mirrored
<1>3. Shows(e, t)
  BY DEF Shown
<1>4. CASE t[s] = "Normal"
  <2>1. active = {}
    BY <1>3, <1>4 DEF Shows
  <2>2. QED BY <1>4, <2>1 DEF OneEntry
<1>5. CASE t[s] # "Normal"
  \* a is the place of the youngest alert of s.
  <2>1. PICK a \in 1 .. n : /\ lg[f[a]].id = s
                            /\ \A b \in 1 .. n : lg[f[b]].id = s => b <= a
    <3> DEFINE S == {n - b : b \in {c \in 1 .. n : lg[f[c]].id = s}}
    <3>1. PICK i \in OpensIn(lg, s) : TRUE
      BY <1>5
    <3>2. i \in DOMAIN lg /\ lg[i].kind = "OPEN" /\ lg[i].id = s
      BY DEF OpensIn
    <3>3. PICK c \in 1 .. n : f[c] = i
      BY <1>1, <3>2 DEF Listed
    <3>4. S \in SUBSET Nat /\ S # {}
      <4>1. ASSUME NEW y \in S PROVE y \in Nat
        <5>1. PICK b \in 1 .. n : y = n - b
          OBVIOUS
        <5>2. QED BY <5>1
      <4>2. c \in {b \in 1 .. n : lg[f[b]].id = s}
        BY <3>2, <3>3
      <4>3. QED BY <4>1, <4>2
    <3>5. PICK x \in S : \A y \in S : x <= y
      <4> HIDE DEF S
      <4>1. QED BY <3>4, Assumed, FeedP!LeastNat
    <3>6. PICK a \in 1 .. n : lg[f[a]].id = s /\ x = n - a
      OBVIOUS
    <3>7. ASSUME NEW b \in 1 .. n, lg[f[b]].id = s PROVE b <= a
      <4>1. n - a <= n - b
        BY <3>5, <3>6, <3>7
      <4>2. QED BY <4>1
    <3>8. QED BY <3>6, <3>7
  <2>2. f[a] \in OpensIn(lg, s) /\ \A o \in OpensIn(lg, s) : o <= f[a]
    <3>1. f[a] \in OpensIn(lg, s)
      BY <1>1, <2>1 DEF Listed, OpensIn
    <3>2. ASSUME NEW o \in OpensIn(lg, s) PROVE o <= f[a]
      <4>1. o \in DOMAIN lg /\ lg[o].kind = "OPEN" /\ lg[o].id = s
        BY DEF OpensIn
      <4>2. PICK b \in 1 .. n : f[b] = o
        BY <1>1, <4>1 DEF Listed
      <4>3. b <= a
        BY <2>1, <4>1, <4>2
      <4>4. b < a \/ b = a
        BY <4>3
      <4>5. CASE b < a
        BY <1>1, <4>2, <4>5 DEF Listed
      <4>6. CASE b = a
        BY <4>2, <4>6
      <4>7. QED BY <4>4, <4>5, <4>6
    <3>3. QED BY <3>1, <3>2
  <2>3. younger = {f[b] : b \in a + 1 .. n}
    <3>1. ASSUME NEW j \in younger PROVE \E b \in a + 1 .. n : f[b] = j
      <4>1. j \in DOMAIN lg /\ lg[j].kind = "OPEN"
        BY DEF Younger
      <4>2. f[a] < j
        <5>1. PICK i \in OpensIn(lg, s) : \A o \in OpensIn(lg, s) : o <= i /\ i < j
          BY DEF Younger
        <5>2. f[a] <= i /\ i < j
          BY <2>2, <5>1
        <5>3. i \in Nat /\ j \in Nat
          BY <1>1a, <4>1 DEF OpensIn
        <5>4. QED BY <5>2, <5>3
      <4>3. PICK b \in 1 .. n : f[b] = j
        BY <1>1, <4>1 DEF Listed
      <4>4. ~(b < a) /\ b # a
        <5>1. b < a => f[b] < f[a]
          BY <1>1 DEF Listed
        <5>2. f[a] \in Nat /\ f[b] \in Nat
          BY <1>1a
        <5>3. f[a] < f[b]
          BY <4>2, <4>3
        <5>4. \A x, y \in Nat : x < y => ~(y < x) /\ y # x
          OBVIOUS
        <5>5. ~(f[b] < f[a]) /\ f[b] # f[a]
          BY <5>2, <5>3, <5>4
        <5>6. QED BY <5>1, <5>5
      <4>5. b \in a + 1 .. n
        BY <4>4
      <4>6. QED BY <4>3, <4>5
    <3>2. ASSUME NEW b \in a + 1 .. n PROVE f[b] \in younger
      <4>1. b \in 1 .. n /\ a < b
        OBVIOUS
      <4>2. f[b] \in DOMAIN lg /\ lg[f[b]].kind = "OPEN" /\ f[a] < f[b]
        BY <1>1, <4>1 DEF Listed
      <4>3. QED BY <2>2, <4>2 DEF Younger
    <3>3. QED BY <3>1, <3>2
  <2>4. Cardinality(younger) = n - a
    <3>1. \A b, c \in 1 .. n : b < c => f[b] \in Nat /\ f[c] \in Nat /\ f[b] < f[c]
      BY <1>1, <1>1a DEF Listed
    <3>2. a \in 0 .. n
      OBVIOUS
    <3>3. QED BY <2>3, <3>1, <3>2, Remaining
  <2>5. /\ Len(e) = IF n < MaxEvents THEN n ELSE MaxEvents
        /\ Len(e) \in Nat /\ MaxEvents \in Nat
        /\ \A j \in 1 .. Len(e) : n + 1 - j \in 1 .. n /\ e[j].name = lg[f[n + 1 - j]].id
    BY <1>2, YoungestBound, MonitorAssumption DEF Youngest
  \* An entry of s is the one of place a, or an older one.
  <2>6. ASSUME NEW j \in 1 .. Len(e), e[j].name = s PROVE n - a + 1 <= j
    <3>1. n + 1 - j <= a
      BY <2>1, <2>5, <2>6
    <3>2. QED BY <3>1
  <2>7. CASE n - a >= MaxEvents
    <3>1. ASSUME NEW j \in active PROVE FALSE
      <4>1. j \in 1 .. Len(e) /\ e[j].name = s
        OBVIOUS
      <4>2. n - a + 1 <= j
        BY <2>6, <4>1
      <4>3. QED BY <2>5, <2>7, <4>1, <4>2, EntryPlace
    <3>2. active = {}
      BY <3>1
    <3>3. QED BY <1>5, <2>4, <2>7, <3>2 DEF OneEntry
  <2>8. CASE n - a < MaxEvents
    <3> DEFINE k == n - a + 1
    <3>1. k \in 1 .. Len(e) /\ n + 1 - k = a
      BY <2>5, <2>8, EntryPlace
    <3>2. e[k].name = s
      BY <2>1, <2>5, <3>1
    <3>3. First(e, k)
      <4>1. ASSUME NEW j \in 1 .. Len(e), j < k, e[j].name = e[k].name PROVE FALSE
        <5>1. k <= j
          BY <2>6, <3>2, <4>1
        <5>2. QED BY <4>1, <5>1
      <4>2. QED BY <4>1 DEF First
    <3> HIDE DEF k
    <3>4. e[k].active /\ e[k].level = t[s]
      BY <1>3, <1>5, <3>1, <3>2, <3>3 DEF Shows
    <3>5. ASSUME NEW j \in active PROVE j = k
      <4>1. j \in 1 .. Len(e) /\ e[j].name = s /\ e[j].active
        OBVIOUS
      <4>2. First(e, j)
        BY <1>3, <4>1 DEF Shows
      <4>3. ~(k < j) /\ k <= j
        BY <2>6, <3>1, <3>2, <4>1, <4>2 DEF First, k
      <4>4. QED BY <3>1, <4>1, <4>3
    <3>6. k \in active /\ active = {k}
      BY <3>1, <3>2, <3>4, <3>5
    <3>7. ~(n - a >= MaxEvents)
      BY <2>5, <2>8
    <3>8. QED BY <1>5, <2>4, <3>4, <3>6, <3>7 DEF OneEntry
  <2>9. n - a >= MaxEvents \/ n - a < MaxEvents
    BY <2>5
  <2>10. QED BY <2>7, <2>8, <2>9
<1>6. QED BY <1>4, <1>5

\* Whenever the queue is empty and no callback runs, the dashboard shows what the tracker
\* knows: the level of every channel, and of every open alert the one ACTIVE entry, if not
\* as many younger alerts as the list is long have pushed it out.
THEOREM DashboardCorrect == Spec => []DashboardAgrees
<1>1. /\ FeedP!TypeOK /\ FeedP!StepInv /\ FeedP!FeedTypeOK /\ MainTypeOK /\ AllPairUp
      /\ (stage # "killed" => FeedP!TableInv) /\ BoardInv
      => DashboardAgrees
  <2> SUFFICES ASSUME FeedP!TypeOK, FeedP!StepInv, FeedP!FeedTypeOK, MainTypeOK, AllPairUp,
                      FeedP!TableInv, BoardInv, stage # "killed", posts = <<>>, ~tracking,
                      NEW s \in SensorIds
               PROVE  LET active  == Feed!Board!Active(config[s])
                          younger == {j \in DOMAIN log : log[j].kind = "OPEN"
                                        /\ \E i \in Opens(s) : \A o \in Opens(s) : o <= i /\ i < j}
                      IN  /\ rows[s].level = told[s]
                          /\ told[s] = "Normal" => active = {}
                          /\ told[s] # "Normal" =>
                               IF Cardinality(younger) >= MaxEvents THEN active = {}
                               ELSE \E k \in active : active = {k} /\ entries[k].level = told[s]
    BY DEF DashboardAgrees, Feed!Quiet
  <2> DEFINE active  == Feed!Board!Active(config[s])
             younger == {j \in DOMAIN log : log[j].kind = "OPEN"
                           /\ \E i \in Opens(s) : \A o \in Opens(s) : o <= i /\ i < j}
  <2>1. rows[s].level = told[s]
    BY RowsAgree
  <2>2. Mirror(entries, <<>>, log) /\ Shown(entries, <<>>, told) /\ log \in Seq(Lines)
    BY DEF BoardInv, MainTypeOK
  <2>3. told[s] # "Normal" => OpensIn(log, s) # {}
    BY DEF AllPairUp, PairsUp
  <2>4. active = ActiveOf(entries, s)
    <3>1. config[s] = s /\ DOMAIN entries = 1 .. Len(entries)
      BY DEF FeedP!FeedTypeOK
    <3>2. QED BY <3>1 DEF Feed!Board!Active, ActiveOf
  <2>5. younger = Younger(log, s)
    BY DEF Opens, OpensIn, Younger
  <2>6. OneEntry(entries, log, s, told[s])
    BY <2>2, <2>3, EntriesMirror
  <2> HIDE DEF active, younger
  <2>7. QED BY <2>1, <2>4, <2>5, <2>6 DEF OneEntry, active, younger
<1>2. Spec => []AllPairUp
  BY LogIsPaired, LogAlwaysPairsUp, PTL
<1>3. QED BY <1>1, <1>2, BoardCorrect, TableKept, TrackerCorrect, FeedCorrect, MainTypeCorrect, PTL
==============================================================================
