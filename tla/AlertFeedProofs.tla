--------------------------- MODULE AlertFeedProofs ----------------------------
(* Theorems about AlertFeed for every finite set of sensors, every naming of   *)
(* them, every length of the event log and any number of queued calls.         *)
EXTENDS AlertFeed, AlertTrackerProofs, FiniteSetTheorems, SequenceTheorems,
        FunctionTheorems, WellFoundedInduction

\* The steps of the composition, however many calls are queued.
AnyStep == \/ \E s \in Sensors, l \in Levels : Receive(s, l)
           \/ Update \/ Opened \/ Closed \/ PushFrame \/ HandlePost

\* The bounds of the runs only leave steps out.
LEMMA BoundedStep == [FeedNext]_feedVars => [AnyStep]_feedVars
BY DEF FeedNext, AnyStep

\* Every step of the composition is one of the tracker or leaves the tracker alone.
LEMMA FeedStep == [AnyStep]_feedVars => [Next]_vars
<1> SUFFICES ASSUME [AnyStep]_feedVars PROVE Next \/ UNCHANGED vars
  BY DEF vars
<1>1. CASE \E s \in Sensors, l \in Levels : Receive(s, l)
  BY <1>1 DEF Receive, Next
<1>2. CASE Update \/ Opened \/ Closed
  BY <1>2 DEF Update, Opened, Closed, Next
<1>3. CASE PushFrame \/ HandlePost \/ UNCHANGED feedVars
  BY <1>3 DEF PushFrame, HandlePost, feedVars
<1>4. QED BY <1>1, <1>2, <1>3 DEF AnyStep

\* The tracker inside the composition behaves as the tracker by itself: whatever the
\* dashboard does, its state agrees with what its listeners have been told, and its
\* callbacks follow the lifecycle.
THEOREM FeedRunsTracker == FeedSpec => Spec
<1>1. FeedInit => Init
  BY DEF FeedInit
<1>2. QED BY <1>1, BoundedStep, FeedStep, PTL DEF FeedSpec, Spec

\* So the type, the steps, Agreement and the lifecycle of the tracker hold in the feed.
THEOREM FeedTracker ==
  FeedSpec => []TypeOK /\ []StepInv /\ []Agreement /\ FollowsLifecycle
BY FeedRunsTracker, TypeCorrect, StepCorrect, TrackerAgreement, ImplementsLifecycle, PTL

------------------------------------------------------------------------------
(* The rows.                                                                 *)

\* Every set of naturals has a least element.
LEMMA LeastNat == ASSUME NEW S \in SUBSET Nat, S # {}
                  PROVE  \E x \in S : \A y \in S : x <= y
<1> DEFINE R == {ss \in Nat \X Nat : ss[1] < ss[2]}
<1>1. IsWellFoundedOn(R, Nat)
  BY NatLessThanWellFounded DEF OpToRel
<1>2. PICK x \in S : \A y \in S : ~(<<y, x>> \in R)
  <2> HIDE DEF R
  <2>1. QED BY <1>1, WFMin
<1>3. ASSUME NEW y \in S PROVE x <= y
  <2>1. <<y, x>> \in Nat \X Nat /\ x \in Nat /\ y \in Nat
    OBVIOUS
  <2>2. ~(y < x)
    BY <1>2, <2>1
  <2>3. QED BY <2>1, <2>2
<1>4. QED BY <1>3

\* The first row of a name is a row of that name, and is the same for every sensor
\* of the name.
LEMMA FirstRow ==
  ASSUME NEW s \in Sensors
  PROVE  /\ Board!RowOf(s) \in Sensors
         /\ config[Board!RowOf(s)] = config[s]
         /\ \A q \in Sensors : config[q] = config[s] => Board!RowOf(q) = Board!RowOf(s)
<1> DEFINE same == {r \in Sensors : config[r] = config[s]}
<1>1. same \in SUBSET Nat /\ same # {}
  BY FeedAssumption
<1>2. PICK r \in same : \A q \in same : r <= q
  BY <1>1, LeastNat
<1>3. r \in Sensors /\ config[r] = config[s]
        /\ \A q \in Sensors : config[q] = config[s] => r <= q
  BY <1>2
<1>4. Board!RowOf(s) \in Sensors /\ config[Board!RowOf(s)] = config[s]
  BY <1>3 DEF Board!RowOf
<1>5. ASSUME NEW q \in Sensors, config[q] = config[s]
      PROVE  Board!RowOf(q) = Board!RowOf(s)
  BY <1>5 DEF Board!RowOf
<1>6. QED BY <1>4, <1>5

------------------------------------------------------------------------------
(* Types.                                                                    *)

Posts == [kind : {"opened", "closed", "frame"}, id : Sensors, level : Levels]

\* While the worker is in the callback there is a frame in hand.
InHand == tracking => input \in [id : Sensors, level : Levels]

\* InHand is preserved by every step.
LEMMA HandStep == InHand /\ [AnyStep]_feedVars => InHand'
<1> SUFFICES ASSUME InHand, [AnyStep]_feedVars PROVE InHand'
  OBVIOUS
<1>1. ASSUME NEW s \in Sensors, NEW l \in Levels, Receive(s, l) PROVE InHand'
  BY <1>1 DEF Receive, Process, BeginOpen, BeginClose, BeginEscalate, Stay, Call, InHand
<1>2. CASE Update \/ Opened \/ Closed
  BY <1>2 DEF Update, Opened, Closed, Fill, Reopen, FireOpened, FireClosed, FireEscalated,
              InHand
<1>3. CASE PushFrame \/ HandlePost \/ UNCHANGED feedVars
  BY <1>3 DEF PushFrame, HandlePost, feedVars, vars, InHand
<1>4. QED BY <1>1, <1>2, <1>3 DEF AnyStep

\* InHand holds always.
LEMMA HandCorrect == FeedSpec => []InHand
<1>1. FeedInit => InHand
  BY DEF FeedInit, InHand
<1>2. QED BY <1>1, BoundedStep, HandStep, PTL DEF FeedSpec

\* The dashboard counts as everybody does.
LEMMA SameCardinality == \A S : Board!Cardinality(S) = Cardinality(S)
BY DEF Cardinality, Board!Cardinality

\* The cards of a level are at most the sensors.
LEMMA CountType == ASSUME NEW table, NEW l
                   PROVE  Board!At(l, table) \in 0 .. Cardinality(Sensors)
<1> DEFINE S == {r \in Sensors : table[r].level = l}
<1>1. IsFiniteSet(S) /\ Cardinality(S) <= Cardinality(Sensors)
  BY FeedAssumption, FS_Subset
<1>2. Cardinality(S) \in Nat /\ Cardinality(Sensors) \in Nat
  BY <1>1, FeedAssumption, FS_CardinalityType
<1> HIDE DEF S
<1>3. Cardinality(S) \in 0 .. Cardinality(Sensors)
  BY <1>1, <1>2
<1>4. Board!At(l, table) = Cardinality(S)
  BY SameCardinality DEF Board!At, S
<1>5. QED BY <1>3, <1>4

\* Making a call keeps the types of the dashboard.
LEMMA BoardTypes ==
  ASSUME FeedTypeOK, NEW s \in Sensors, NEW l \in Levels,
         Board!OnAlertOpened(s, l) \/ Board!OnAlertClosed(s) \/ Board!PushFrame(s, l)
  PROVE  /\ config' = config
         /\ rows' \in [Sensors -> Board!Row]
         /\ criticalCount' \in 0 .. Cardinality(Sensors)
         /\ warningCount' \in 0 .. Cardinality(Sensors)
         /\ entries' \in Seq(Board!Entry) /\ Len(entries') <= MaxEvents
<1>1. CASE Board!PushFrame(s, l)
  <2>1. [level |-> l, of |-> s, hasData |-> TRUE] \in Board!Row
    BY DEF Board!Row, Board!Levels, Levels
  <2>2. rows' \in [Sensors -> Board!Row]
    BY <1>1, <2>1 DEF Board!PushFrame, FeedTypeOK
  <2>3. /\ criticalCount' = Board!At("Critical", rows')
        /\ warningCount' = Board!At("Warning", rows')
    BY <1>1 DEF Board!PushFrame, Board!RecomputeAlertCounts
  <2>4. QED BY <1>1, <2>2, <2>3, CountType DEF Board!PushFrame, FeedTypeOK
<1>2. CASE Board!OnAlertOpened(s, l)
  <2> DEFINE e == [name |-> config[s], level |-> l, active |-> TRUE]
             new == <<e>> \o entries
  <2>1. e \in Board!Entry
    BY DEF Board!Entry, Board!Levels, Levels
  <2>2. entries \in Seq(Board!Entry) /\ Len(entries) \in Nat /\ Len(entries) <= MaxEvents
    BY DEF FeedTypeOK
  <2> HIDE DEF e
  <2>3. <<e>> \in Seq(Board!Entry) /\ Len(<<e>>) = 1
    BY <2>1
  <2>4. new \in Seq(Board!Entry) /\ Len(new) = Len(entries) + 1
    BY <2>2, <2>3, ConcatProperties
  <2> HIDE DEF new
  <2>5. entries' = IF Len(entries) < MaxEvents THEN new ELSE SubSeq(new, 1, MaxEvents)
    BY <1>2 DEF Board!OnAlertOpened, Board!Newest, new, e
  <2>6. entries' \in Seq(Board!Entry) /\ Len(entries') <= MaxEvents
    <3>1. CASE Len(entries) < MaxEvents
      BY <2>2, <2>4, <2>5, <3>1, FeedAssumption
    <3>2. CASE ~(Len(entries) < MaxEvents)
      <4>1. entries' = SubSeq(new, 1, MaxEvents)
        BY <2>5, <3>2
      <4>2. \A i \in 1 .. MaxEvents : i \in 1 .. Len(new)
        BY <2>2, <2>4, <3>2, FeedAssumption
      <4>3. SubSeq(new, 1, MaxEvents) \in Seq(Board!Entry)
              /\ Len(SubSeq(new, 1, MaxEvents)) = MaxEvents
        BY <2>2, <2>4, <3>2, <4>2, FeedAssumption
      <4>4. QED BY <4>1, <4>3, FeedAssumption
    <3>3. QED BY <3>1, <3>2
  <2>7. QED BY <1>2, <2>6 DEF Board!OnAlertOpened, FeedTypeOK
<1>3. CASE Board!OnAlertClosed(s)
  <2>1. entries' = entries \/ \E k \in DOMAIN entries : entries' = Board!Closed(k)
    <3>1. CASE Board!Active(config[s]) = {}
      BY <1>3, <3>1 DEF Board!OnAlertClosed
    <3>2. CASE Board!Active(config[s]) # {}
      <4> DEFINE found == Board!Active(config[s])
                 k == CHOOSE k \in found : \A j \in found : k <= j
      <4>1. found \in SUBSET Nat
        BY DEF Board!Active, FeedTypeOK
      <4>2. k \in found
        BY <3>2, <4>1, LeastNat
      <4>3. entries' = Board!Closed(k)
        BY <1>3, <3>2 DEF Board!OnAlertClosed
      <4>4. QED BY <4>2, <4>3 DEF Board!Active
    <3>3. QED BY <3>1, <3>2
  <2>2. ASSUME NEW k \in DOMAIN entries
        PROVE  Board!Closed(k) \in Seq(Board!Entry) /\ Len(Board!Closed(k)) = Len(entries)
    <3>1. entries \in Seq(Board!Entry) /\ k \in 1 .. Len(entries)
      BY DEF FeedTypeOK
    <3>2. entries[k] \in Board!Entry
      BY <3>1, ElementOfSeq
    <3>3. [entries[k] EXCEPT !.active = FALSE] \in Board!Entry
      BY <3>2 DEF Board!Entry
    <3>4. Board!Closed(k) = [entries EXCEPT ![k] = [entries[k] EXCEPT !.active = FALSE]]
      BY DEF Board!Closed
    <3>5. QED BY <3>1, <3>3, <3>4, ExceptSeq
  <2>3. QED BY <1>3, <2>1, <2>2 DEF Board!OnAlertClosed, FeedTypeOK
<1>4. QED BY <1>1, <1>2, <1>3

\* FeedTypeOK holds of a program that has just started.
LEMMA FeedTypeInit == FeedInit => FeedTypeOK
<1> SUFFICES ASSUME FeedInit PROVE FeedTypeOK
  OBVIOUS
<1>1. PICK c \in Configs : Board!SetConfigs(c)
  BY DEF FeedInit
<1>2. config \in Configs /\ rows \in [Sensors -> Board!Row]
  BY <1>1 DEF Board!SetConfigs, Board!Row, Board!Levels
<1>3. Cardinality(Sensors) \in Nat
  BY FeedAssumption, FS_CardinalityType
<1>4. /\ posts = <<>> /\ entries = <<>> /\ criticalCount = 0 /\ warningCount = 0
      /\ step = "idle" /\ tracking = FALSE
  BY DEF FeedInit, Init, Board!Init
<1>5. /\ posts \in Seq(Posts) /\ entries \in Seq(Board!Entry)
      /\ Len(entries) <= MaxEvents
  BY <1>4, EmptySeq, FeedAssumption
<1>6. /\ criticalCount \in 0 .. Cardinality(Sensors)
      /\ warningCount \in 0 .. Cardinality(Sensors)
  BY <1>3, <1>4
<1>7. tracking \in BOOLEAN /\ ~(step # "idle")
  BY <1>4
<1>8. QED BY <1>2, <1>5, <1>6, <1>7 DEF FeedTypeOK, Posts

\* FeedTypeOK is preserved by every step.
LEMMA FeedTypeStep == TypeOK /\ InHand /\ FeedTypeOK /\ [AnyStep]_feedVars => FeedTypeOK'
<1> SUFFICES ASSUME TypeOK, InHand, FeedTypeOK, [AnyStep]_feedVars PROVE FeedTypeOK'
  OBVIOUS
<1>1. CASE \E s \in Sensors, l \in Levels : Receive(s, l)
  BY <1>1 DEF Receive, FeedTypeOK, boardVars, Board!Entry
<1>2. CASE Update
  <2>1. step # "idle"
    BY <1>2 DEF Update, Fill, Reopen
  <2>2. QED BY <1>2, <2>1 DEF Update, FeedTypeOK, boardVars, Board!Entry
<1>3. CASE Opened \/ Closed
  <2>1. step # "idle" /\ fired' \in Posts
    BY <1>3 DEF Opened, Closed, FireOpened, FireClosed, FireEscalated, Event, Posts, TypeOK,
                ChannelState
  <2>2. posts' \in Seq(Posts)
    <3>1. posts \in Seq(Posts)
      BY DEF FeedTypeOK, Posts
    <3>2. posts' = Append(posts, fired')
      BY <1>3 DEF Opened, Closed
    <3>3. QED BY <2>1, <3>1, <3>2
  <2>3. UNCHANGED <<tracking, boardVars>>
    BY <1>3 DEF Opened, Closed
  <2>4. QED BY <2>1, <2>2, <2>3 DEF FeedTypeOK, boardVars, Board!Entry, Posts
<1>4. CASE PushFrame
  <2>1. step = "idle" /\ tracking /\ tracking' = FALSE
    BY <1>4 DEF PushFrame
  <2>2. UNCHANGED <<vars, boardVars>>
    BY <1>4 DEF PushFrame
  <2>3. FramePost(input.id, input.level) \in Posts
    BY <2>1 DEF InHand, FramePost, Posts
  <2>4. posts' \in Seq(Posts)
    <3>1. posts \in Seq(Posts)
      BY DEF FeedTypeOK, Posts
    <3>2. posts' = Append(posts, FramePost(input.id, input.level))
      BY <1>4 DEF PushFrame
    <3>3. QED BY <2>3, <3>1, <3>2
  <2>5. step' = step
    BY <2>2 DEF vars
  <2>6. QED BY <2>1, <2>2, <2>4, <2>5 DEF FeedTypeOK, boardVars, Board!Entry, Posts
<1>5. CASE HandlePost
  <2>1. posts \in Seq(Posts) /\ posts # <<>> /\ posts' = Tail(posts) /\ UNCHANGED <<vars, tracking>>
    BY <1>5 DEF HandlePost, FeedTypeOK, Posts
  <2>2. Head(posts) \in Posts /\ posts' \in Seq(Posts)
    BY <2>1
  <2>3. \/ Board!OnAlertOpened(Head(posts).id, Head(posts).level)
        \/ Board!OnAlertClosed(Head(posts).id)
        \/ Board!PushFrame(Head(posts).id, Head(posts).level)
    BY <1>5 DEF HandlePost
  <2>4. Head(posts).id \in Sensors /\ Head(posts).level \in Levels
    BY <2>2 DEF Posts
  <2>5. /\ config' = config
        /\ rows' \in [Sensors -> Board!Row]
        /\ criticalCount' \in 0 .. Cardinality(Sensors)
        /\ warningCount' \in 0 .. Cardinality(Sensors)
        /\ entries' \in Seq(Board!Entry) /\ Len(entries') <= MaxEvents
    BY <2>3, <2>4, BoardTypes
  <2>6. entries' \in Seq(Board!Entry)'
    BY <2>5 DEF Board!Entry
  <2>7. step' = step /\ tracking' = tracking
    BY <2>1 DEF vars
  <2>8. QED BY <2>2, <2>5, <2>6, <2>7 DEF FeedTypeOK, Posts
<1>6. CASE UNCHANGED feedVars
  BY <1>6 DEF feedVars, vars, FeedTypeOK, boardVars, Board!Entry
<1>7. QED BY <1>1, <1>2, <1>3, <1>4, <1>5, <1>6 DEF AnyStep

\* Every variable of AlertFeed always holds a value of its type: the counters stay
\* between zero and the number of rows, the event log within its length.
THEOREM FeedTypeCorrect == FeedSpec => []FeedTypeOK
BY FeedTypeInit, FeedTypeStep, BoundedStep, FeedTracker, HandCorrect, PTL DEF FeedSpec

------------------------------------------------------------------------------
(* The channel table.                                                        *)

\* The first row that has the name of s in the configuration c; and the calls in the
\* queue q that replace row r.
First(c, s)    == CHOOSE r \in Sensors : /\ c[r] = c[s]
                                         /\ \A q \in Sensors : c[q] = c[s] => r <= q
Later(c, q, r) == {i \in 1 .. Len(q) : q[i].kind = "frame" /\ First(c, q[i].id) = r}

\* The frame in hand will replace row r.
Hand(r) == tracking /\ First(config, input.id) = r

CountInv == /\ criticalCount = Board!At("Critical", rows)
            /\ warningCount = Board!At("Warning", rows)

KnownInv == /\ tracking => input.id \in known
            /\ \A i \in 1 .. Len(posts) : posts[i].kind = "frame" => posts[i].id \in known

\* Only the first row of a name has data, of a known sensor of that name.  If no
\* frame of the name is in hand, the last frame queued for the row, or else the
\* row, has the level the tracker has for its sensor.
RowInv(r) ==
  /\ rows[r].hasData => rows[r].of \in known /\ First(config, rows[r].of) = r
  /\ ~rows[r].hasData => rows[r].level = "Normal"
  /\ ~Hand(r) /\ Later(config, posts, r) = {} =>
       /\ rows[r].hasData <=> \E s \in known : First(config, s) = r
       /\ rows[r].hasData => rows[r].level = told[rows[r].of]
  /\ ~Hand(r) /\ Later(config, posts, r) # {} =>
       \E i \in Later(config, posts, r) :
         /\ \A j \in Later(config, posts, r) : j <= i
         /\ posts[i].level = told[posts[i].id]

TableInv == CountInv /\ KnownInv /\ \A r \in Sensors : RowInv(r)

\* The dashboard finds the row that First names.
LEMMA RowFirst == \A s : Board!RowOf(s) = First(config, s)
BY DEF Board!RowOf, First

\* A call that is added goes behind the others, and one that is made comes off the
\* front.
LEMMA LaterAppend ==
  ASSUME NEW c, NEW q \in Seq(Posts), NEW p \in Posts, NEW r
  PROVE  Later(c, Append(q, p), r) =
           IF p.kind = "frame" /\ First(c, p.id) = r
           THEN Later(c, q, r) \cup {Len(q) + 1} ELSE Later(c, q, r)
<1>1. Len(q) \in Nat /\ Len(Append(q, p)) = Len(q) + 1
  OBVIOUS
<1>2. \A i \in 1 .. Len(q) : Append(q, p)[i] = q[i]
  OBVIOUS
<1>3. Append(q, p)[Len(q) + 1] = p
  OBVIOUS
<1>4. QED BY <1>1, <1>2, <1>3 DEF Later

\* The calls that are left move up by one place.
LEMMA LaterTail ==
  ASSUME NEW c, NEW q \in Seq(Posts), q # <<>>, NEW r
  PROVE  Later(c, Tail(q), r) = {i - 1 : i \in Later(c, q, r) \ {1}}
<1>1. Len(q) \in Nat \ {0} /\ Len(Tail(q)) = Len(q) - 1
  OBVIOUS
<1>2. \A i \in 1 .. Len(q) - 1 : Tail(q)[i] = q[i + 1]
  OBVIOUS
<1>3. ASSUME NEW i \in Later(c, Tail(q), r)
      PROVE  i + 1 \in Later(c, q, r) \ {1} /\ i = (i + 1) - 1
  BY <1>1, <1>2 DEF Later
<1>4. ASSUME NEW i \in Later(c, q, r) \ {1}
      PROVE  i - 1 \in Later(c, Tail(q), r)
  <2>1. i \in 2 .. Len(q) /\ i - 1 \in 1 .. Len(q) - 1 /\ (i - 1) + 1 = i
    BY <1>1, <1>4 DEF Later
  <2>2. Tail(q)[i - 1] = q[i]
    BY <1>2, <2>1
  <2>3. QED BY <1>1, <1>4, <2>1, <2>2 DEF Later
<1>5. QED BY <1>3, <1>4

\* TableInv holds of a program that has just started.
LEMMA TableInit == FeedInit => TableInv
<1> SUFFICES ASSUME FeedInit PROVE TableInv
  OBVIOUS
<1>1. /\ rows = [r \in Sensors |-> [level |-> "Normal", of |-> r, hasData |-> FALSE]]
      /\ criticalCount = 0 /\ warningCount = 0
      /\ known = {} /\ tracking = FALSE /\ posts = <<>>
  BY DEF FeedInit, Init, Board!Init, Board!SetConfigs
<1>2. Board!At("Critical", rows) = 0 /\ Board!At("Warning", rows) = 0
  <2>1. /\ {r \in Sensors : rows[r].level = "Critical"} = {}
        /\ {r \in Sensors : rows[r].level = "Warning"} = {}
    BY <1>1
  <2>2. QED BY <2>1, SameCardinality, FS_EmptySet DEF Board!At
<1>3. Len(posts) = 0
  BY <1>1
<1>4. ASSUME NEW r \in Sensors PROVE RowInv(r)
  <2>1. Later(config, posts, r) = {}
    BY <1>3 DEF Later
  <2>2. rows[r].hasData = FALSE /\ rows[r].level = "Normal"
    BY <1>1
  <2>3. QED BY <1>1, <2>1, <2>2 DEF RowInv
<1>5. QED BY <1>1, <1>2, <1>3, <1>4 DEF TableInv, CountInv, KnownInv

\* TableInv is preserved by every step.
LEMMA TableStep ==
  TypeOK /\ StepInv /\ InHand /\ FeedTypeOK /\ TableInv /\ [AnyStep]_feedVars => TableInv'
<1> SUFFICES ASSUME TypeOK, StepInv, InHand, FeedTypeOK, TableInv, [AnyStep]_feedVars
             PROVE  TableInv'
  OBVIOUS
<1>1. /\ posts \in Seq(Posts) /\ Len(posts) \in Nat
      /\ \A r \in Sensors : RowInv(r)
  BY DEF FeedTypeOK, Posts, TableInv
<1>2. ASSUME NEW s \in Sensors, NEW l \in Levels, Receive(s, l) PROVE TableInv'
  <2>1. /\ ~tracking /\ tracking' = TRUE /\ input'.id = s /\ known' = known \cup {s}
        /\ UNCHANGED <<told, posts, config, rows, criticalCount, warningCount>>
    BY <1>2 DEF Receive, Process, BeginOpen, BeginClose, BeginEscalate, Stay, Call, boardVars
  <2>2. CountInv' /\ KnownInv'
    BY <2>1 DEF TableInv, CountInv, KnownInv
  <2>3. ASSUME NEW r \in Sensors PROVE RowInv(r)'
    <3>1. RowInv(r) /\ ~Hand(r)
      BY <1>1, <2>1 DEF Hand
    <3>2. Hand(r)' <=> First(config, s) = r
      BY <2>1 DEF Hand
    <3>3. QED BY <2>1, <3>1, <3>2 DEF RowInv
  <2>4. QED BY <2>2, <2>3 DEF TableInv
<1>3. CASE Update
  <2>1. UNCHANGED <<known, input, told, tracking, posts, config, rows, criticalCount, warningCount>>
    BY <1>3 DEF Update, Fill, Reopen, boardVars
  <2>2. QED BY <2>1 DEF TableInv, CountInv, KnownInv, RowInv, Hand
<1>4. CASE Opened \/ Closed
  <2>1. /\ step # "idle" /\ UNCHANGED <<known, input, tracking, config, rows, criticalCount, warningCount>>
        /\ posts' = Append(posts, fired')
    BY <1>4 DEF Opened, Closed, FireOpened, FireClosed, FireEscalated, boardVars
  <2>2. tracking /\ input.id \in Sensors
    BY <2>1 DEF FeedTypeOK, TypeOK
  <2>3. \A s \in Sensors \ {input.id} : told'[s] = told[s]
    BY <1>4, <2>2 DEF Opened, Closed, FireOpened, FireClosed, FireEscalated, TypeOK
  <2>4. fired' \in Posts /\ fired'.kind # "frame"
    <3>1. states[input.id].current \in Levels
      BY <2>2 DEF TypeOK, ChannelState
    <3>2. \E kind \in {"opened", "closed"} :
            fired' = [kind |-> kind, id |-> input.id, level |-> states[input.id].current]
      BY <1>4 DEF Opened, Closed, FireOpened, FireClosed, FireEscalated, Event
    <3>3. QED BY <2>2, <3>1, <3>2 DEF Posts
  <2>5. \A r \in Sensors : Later(config', posts', r) = Later(config, posts, r)
    BY <1>1, <2>1, <2>4, LaterAppend
  <2>6. \A i \in 1 .. Len(posts) : posts'[i] = posts[i]
    BY <1>1, <2>1, <2>4
  <2>7. posts'[Len(posts) + 1].kind # "frame" /\ Len(posts') = Len(posts) + 1
    BY <1>1, <2>1, <2>4
  <2>8. CountInv' /\ KnownInv'
    BY <1>1, <2>1, <2>6, <2>7 DEF TableInv, CountInv, KnownInv
  <2>9. ASSUME NEW r \in Sensors PROVE RowInv(r)'
    <3>1. RowInv(r) /\ (Hand(r)' <=> Hand(r))
      BY <1>1, <2>1 DEF Hand
    <3>2. CASE Hand(r)
      BY <2>1, <3>1, <3>2 DEF RowInv
    <3>3. CASE ~Hand(r)
      <4>1. First(config, input.id) # r
        BY <2>2, <3>3 DEF Hand
      <4>2. rows[r].hasData => rows[r].of \in Sensors \ {input.id}
        BY <3>1, <4>1 DEF RowInv, TypeOK
      <4>3. ASSUME NEW i \in Later(config, posts, r)
            PROVE  posts'[i] = posts[i] /\ posts[i].id \in Sensors \ {input.id}
        <5>1. i \in 1 .. Len(posts) /\ First(config, posts[i].id) = r
          BY DEF Later
        <5>2. posts[i] \in Posts
          BY <1>1, <5>1
        <5>3. QED BY <2>6, <4>1, <5>1, <5>2 DEF Posts
      <4>4. rows[r].hasData => told'[rows[r].of] = told[rows[r].of]
        BY <2>3, <4>2
      <4>5. \A i \in Later(config, posts, r) :
              posts'[i] = posts[i] /\ told'[posts[i].id] = told[posts[i].id]
        BY <2>3, <4>3
      <4>6. CASE Later(config, posts, r) = {}
        BY <2>1, <2>5, <3>1, <3>3, <4>4, <4>6 DEF RowInv
      <4>7. CASE Later(config, posts, r) # {}
        BY <2>1, <2>5, <3>1, <3>3, <4>5, <4>7 DEF RowInv
      <4>8. QED BY <4>6, <4>7
    <3>4. QED BY <3>2, <3>3
  <2>10. QED BY <2>8, <2>9 DEF TableInv
<1>5. CASE PushFrame
  <2> DEFINE p == FramePost(input.id, input.level)
  <2>1. /\ tracking /\ tracking' = FALSE /\ step = "idle"
        /\ UNCHANGED <<known, input, told, config, rows, criticalCount, warningCount>>
        /\ posts' = Append(posts, p)
    BY <1>5 DEF PushFrame, vars, boardVars
  <2>2. /\ input.id \in known /\ p \in Posts
        /\ p.kind = "frame" /\ p.id = input.id /\ p.level = input.level
    BY <2>1 DEF InHand, TableInv, KnownInv, FramePost, Posts
  <2>3. told[input.id] = input.level
    <3>1. input # Nothing
      BY <2>1 DEF InHand, Nothing
    <3>2. QED BY <2>1, <3>1 DEF StepInv
  <2> HIDE DEF p
  <2>4. \A i \in 1 .. Len(posts) : posts'[i] = posts[i]
    BY <1>1, <2>1, <2>2
  <2>5. posts'[Len(posts) + 1] = p /\ Len(posts') = Len(posts) + 1
    BY <1>1, <2>1, <2>2
  <2>6. CountInv' /\ KnownInv'
    <3>1. CountInv'
      BY <2>1 DEF TableInv, CountInv
    <3>2. KnownInv'
      BY <1>1, <2>1, <2>2, <2>4, <2>5 DEF TableInv, KnownInv
    <3>3. QED BY <3>1, <3>2
  <2>7. ASSUME NEW r \in Sensors PROVE RowInv(r)'
    <3>1. RowInv(r) /\ ~Hand(r)'
      BY <1>1, <2>1 DEF Hand
    <3>2. \A i \in Later(config, posts, r) : i \in 1 .. Len(posts)
      BY DEF Later
    <3>3. CASE First(config, input.id) = r
      <4>1. Later(config', posts', r) = Later(config, posts, r) \cup {Len(posts) + 1}
        BY <1>1, <2>1, <2>2, <3>3, LaterAppend
      <4>2. \A j \in Later(config', posts', r) : j <= Len(posts) + 1
        BY <1>1, <3>2, <4>1
      <4>3. posts'[Len(posts) + 1].level = told'[posts'[Len(posts) + 1].id]
        BY <2>1, <2>2, <2>3, <2>5
      <4>4. QED BY <2>1, <3>1, <4>1, <4>2, <4>3 DEF RowInv
    <3>4. CASE First(config, input.id) # r
      <4>1. Later(config', posts', r) = Later(config, posts, r)
        BY <1>1, <2>1, <2>2, <3>4, LaterAppend
      <4>2. ~Hand(r)
        BY <3>4 DEF Hand
      <4>3. QED BY <2>1, <2>4, <3>1, <3>2, <4>1, <4>2 DEF RowInv
    <3>5. QED BY <3>3, <3>4
  <2>8. QED BY <2>6, <2>7 DEF TableInv
<1>6. CASE HandlePost
  <2> DEFINE p == Head(posts)
  <2>1. posts # <<>> /\ posts' = Tail(posts) /\ UNCHANGED <<known, input, told, tracking>>
    BY <1>6 DEF HandlePost, vars
  <2>2. p = posts[1] /\ p \in Posts /\ 1 \in 1 .. Len(posts) /\ Len(posts') = Len(posts) - 1
    BY <1>1, <2>1
  <2>3. \A i \in 1 .. Len(posts) : i # 1 => i - 1 \in 1 .. Len(posts') /\ posts'[i - 1] = posts[i]
    BY <1>1, <2>1, <2>2
  <2>4. \A i \in 1 .. Len(posts') : i + 1 \in 1 .. Len(posts) /\ posts'[i] = posts[i + 1]
    BY <1>1, <2>1, <2>2
  <2>5. config' = config
    BY <1>6 DEF HandlePost, Board!OnAlertOpened, Board!OnAlertClosed, Board!PushFrame
  <2>6. KnownInv'
    BY <2>1, <2>4 DEF TableInv, KnownInv
  <2>7. \A r \in Sensors : (Hand(r)' <=> Hand(r))
                           /\ Later(config', posts', r) = {i - 1 : i \in Later(config, posts, r) \ {1}}
    BY <1>1, <2>1, <2>5, LaterTail DEF Hand
  <2>8. ASSUME NEW r \in Sensors, rows'[r] = rows[r], 1 \notin Later(config, posts, r)
        PROVE  RowInv(r)'
    <3>1. RowInv(r) /\ Later(config', posts', r) = {i - 1 : i \in Later(config, posts, r)}
      BY <1>1, <2>7, <2>8
    <3>2. \A i \in Later(config, posts, r) :
             i \in Int /\ posts'[i - 1] = posts[i] /\ i - 1 \in Later(config', posts', r)
      BY <1>1, <2>3, <2>8, <3>1 DEF Later
    <3>3. CASE Later(config, posts, r) = {}
      BY <2>1, <2>5, <2>7, <2>8, <3>1, <3>3 DEF RowInv
    <3>4. CASE Later(config, posts, r) # {} /\ ~Hand(r)
      <4>1. PICK i \in Later(config, posts, r) :
              (\A j \in Later(config, posts, r) : j <= i) /\ posts[i].level = told[posts[i].id]
        BY <3>1, <3>4 DEF RowInv
      <4>2. \A j \in Later(config', posts', r) : j <= i - 1
        BY <3>1, <3>2, <4>1
      <4>3. posts'[i - 1].level = told'[posts'[i - 1].id] /\ i - 1 \in Later(config', posts', r)
        BY <2>1, <3>2, <4>1
      <4>4. QED BY <2>1, <2>5, <2>8, <3>1, <4>2, <4>3 DEF RowInv
    <3>5. CASE Hand(r)
      BY <2>1, <2>5, <2>7, <2>8, <3>1, <3>5 DEF RowInv
    <3>6. QED BY <3>3, <3>4, <3>5
  <2>9. CASE p.kind # "frame"
    <3>1. UNCHANGED <<rows, criticalCount, warningCount>>
      BY <1>6, <2>9 DEF HandlePost, Board!OnAlertOpened, Board!OnAlertClosed
    <3>2. \A r \in Sensors : RowInv(r)'
      BY <2>2, <2>8, <2>9, <3>1 DEF Later
    <3>3. CountInv'
      BY <3>1 DEF TableInv, CountInv
    <3>4. QED BY <2>6, <3>2, <3>3 DEF TableInv
  <2>10. CASE p.kind = "frame"
    <3> DEFINE row == [level |-> p.level, of |-> p.id, hasData |-> TRUE]
    <3>1. /\ rows' = [rows EXCEPT ![First(config, p.id)] = row]
          /\ criticalCount' = Board!At("Critical", rows') /\ warningCount' = Board!At("Warning", rows')
      BY <1>6, <2>10, RowFirst DEF HandlePost, Board!PushFrame, Board!RecomputeAlertCounts
    <3>2. p.id \in known /\ p.id \in Sensors
      BY <2>2, <2>10 DEF TableInv, KnownInv, TypeOK
    <3>3. CountInv'
      BY <3>1 DEF CountInv
    <3>4. ASSUME NEW r \in Sensors PROVE RowInv(r)'
      <4>1. CASE First(config, p.id) # r
        <5>1. rows'[r] = rows[r]
          BY <3>1, <4>1 DEF FeedTypeOK
        <5>2. 1 \notin Later(config, posts, r)
          BY <2>2, <4>1 DEF Later
        <5>3. QED BY <2>8, <5>1, <5>2
      <4>2. CASE First(config, p.id) = r
        <5>1. rows'[r] = row
          BY <3>1, <4>2 DEF FeedTypeOK
        <5>2. 1 \in Later(config, posts, r)
          BY <2>2, <2>10, <4>2 DEF Later
        <5>3. rows'[r].hasData /\ rows'[r].of = p.id /\ rows'[r].level = p.level
          BY <5>1
        <5>4. ASSUME ~Hand(r)
              PROVE  \E i \in Later(config, posts, r) :
                       /\ \A j \in Later(config, posts, r) : j <= i
                       /\ posts[i].level = told[posts[i].id]
          BY <1>1, <5>2, <5>4 DEF RowInv
        <5>5. CASE Later(config', posts', r) = {}
          <6>1. Later(config, posts, r) = {1}
            BY <2>7, <5>2, <5>5
          <6>2. ~Hand(r) => p.level = told[p.id]
            BY <2>2, <5>4, <6>1
          <6>3. QED BY <2>1, <2>5, <2>7, <3>2, <4>2, <5>3, <5>5, <6>2 DEF RowInv
        <5>6. CASE Later(config', posts', r) # {} /\ ~Hand(r)
          <6>1. PICK i \in Later(config, posts, r) :
                  (\A j \in Later(config, posts, r) : j <= i) /\ posts[i].level = told[posts[i].id]
            BY <5>4, <5>6
          <6>2. \A j \in Later(config, posts, r) : j \in 1 .. Len(posts)
            BY DEF Later
          <6>3. PICK j \in Later(config, posts, r) : j # 1
            BY <2>7, <5>6
          <6>4. i # 1 /\ i - 1 \in Later(config', posts', r) /\ posts'[i - 1] = posts[i]
            BY <1>1, <2>3, <2>7, <6>1, <6>2, <6>3
          <6>5. \A k \in Later(config', posts', r) : k <= i - 1
            BY <1>1, <2>7, <6>1, <6>2
          <6>6. posts'[i - 1].level = told'[posts'[i - 1].id]
            BY <2>1, <6>1, <6>4
          <6>7. QED BY <2>1, <2>5, <3>2, <4>2, <5>3, <6>4, <6>5, <6>6 DEF RowInv
        <5>7. CASE Hand(r)
          BY <2>1, <2>5, <2>7, <3>2, <4>2, <5>3, <5>7 DEF RowInv
        <5>8. QED BY <5>5, <5>6, <5>7
      <4>3. QED BY <4>1, <4>2
    <3>5. QED BY <2>6, <3>3, <3>4 DEF TableInv
  <2>11. QED BY <2>9, <2>10
<1>7. CASE UNCHANGED feedVars
  <2>1. UNCHANGED <<known, input, told, tracking, posts, config, rows, criticalCount, warningCount>>
    BY <1>7 DEF feedVars, vars, boardVars
  <2>2. QED BY <2>1 DEF TableInv, CountInv, KnownInv, RowInv, Hand
<1>8. QED BY <1>2, <1>3, <1>4, <1>5, <1>6, <1>7 DEF AnyStep

\* When all is quiet, TableInv is what the table promises.
LEMMA TableQuiet ==
  ASSUME TypeOK, StepInv, FeedTypeOK, TableInv
  PROVE  TableAgrees
<1> SUFFICES ASSUME Quiet PROVE TableAgrees
  BY DEF TableAgrees
<1>1. Len(posts) = 0 /\ ~tracking /\ step = "idle" /\ known \subseteq Sensors
  BY DEF Quiet, FeedTypeOK, TypeOK
<1>2. \A r \in Sensors : ~Hand(r) /\ Later(config, posts, r) = {}
  BY <1>1 DEF Hand, Later
<1>3. \A r \in Sensors :
        /\ rows[r].hasData => /\ rows[r].of \in known /\ First(config, rows[r].of) = r
                              /\ rows[r].level = told[rows[r].of]
        /\ rows[r].hasData <=> \E s \in known : First(config, s) = r
        /\ ~rows[r].hasData => rows[r].level = "Normal"
  BY <1>2 DEF TableInv, RowInv
<1>4. ASSUME NEW s \in Sensors, Own(s)
      PROVE  /\ rows[s].hasData <=> s \in known
             /\ rows[s].hasData => rows[s].of = s
             /\ rows[s].level = told[s]
  <2>1. \A q \in Sensors : First(config, q) = s <=> q = s
    <3>1. \A q \in Sensors : First(config, q) \in Sensors /\ config[First(config, q)] = config[q]
      BY FirstRow, RowFirst
    <3>2. QED BY <1>4, <3>1 DEF Own
  <2>2. rows[s].hasData <=> s \in known
    BY <1>1, <1>3, <2>1
  <2>3. rows[s].hasData => rows[s].of = s
    BY <1>1, <1>3, <2>1
  <2>4. s \notin known => told[s] = "Normal"
    BY <1>1 DEF StepInv, Agrees
  <2>5. rows[s].level = told[s]
    BY <1>3, <2>2, <2>3, <2>4
  <2>6. QED BY <2>2, <2>3, <2>5
<1>5. ASSUME \A s \in Sensors : Own(s)
      PROVE  /\ criticalCount = Cardinality({s \in Sensors : told[s] = "Critical"})
             /\ warningCount  = Cardinality({s \in Sensors : told[s] = "Warning"})
  <2>1. \A s \in Sensors : rows[s].level = told[s]
    BY <1>4, <1>5
  <2>2. /\ {r \in Sensors : rows[r].level = "Critical"} = {s \in Sensors : told[s] = "Critical"}
        /\ {r \in Sensors : rows[r].level = "Warning"} = {s \in Sensors : told[s] = "Warning"}
    BY <2>1
  <2>3. QED BY <2>2, SameCardinality DEF TableInv, CountInv, Board!At
<1>6. QED BY <1>4, <1>5 DEF TableAgrees

\* Whenever all is quiet, the channel table and its counters show what the tracker
\* knows of the sensors that share no name, however the calls were queued, and whatever
\* names the others share.
THEOREM TableCorrect == FeedSpec => []TableAgrees
<1>1. TypeOK /\ StepInv /\ FeedTypeOK /\ TableInv => TableAgrees
  BY TableQuiet
<1>2. QED
  BY <1>1, FeedTracker, HandCorrect, FeedTypeCorrect, TableInit, TableStep, BoundedStep, PTL
     DEF FeedSpec

------------------------------------------------------------------------------
(* The event log.                                                            *)

\* Who has the name of s; which of them have an open alert, when the alerts are
\* those of seen; and the ACTIVE entries of a name.
Namesakes(s)   == {r \in Sensors : config[r] = config[s]}
OpenOf(seen, s) == {r \in Namesakes(s) : seen[r] # "Normal"}
ActiveIn(e, n) == {k \in DOMAIN e : e[k].active /\ e[k].name = n}

\* What EntriesAgree says of one name, about the entries e and the alerts that the
\* event log has been told of so far.
NameInv(e, seen, s) ==
  /\ Cardinality(ActiveIn(e, config[s])) <= Cardinality(OpenOf(seen, s))
  /\ Cardinality(ActiveIn(e, config[s])) < Cardinality(OpenOf(seen, s)) => Len(e) = MaxEvents
  /\ Namesakes(s) = {s} => \A k \in ActiveIn(e, config[s]) : e[k].level = seen[s]

\* The entries of a name that are active are finitely many.
LEMMA ActiveFinite ==
  ASSUME NEW e \in Seq(Board!Entry), NEW n
  PROVE  IsFiniteSet(ActiveIn(e, n)) /\ Cardinality(ActiveIn(e, n)) \in Nat
<1>1. Len(e) \in Nat /\ DOMAIN e = 1 .. Len(e)
  OBVIOUS
<1>2. IsFiniteSet(1 .. Len(e))
  BY <1>1, FS_Interval
<1>3. ActiveIn(e, n) \subseteq 1 .. Len(e)
  BY <1>1 DEF ActiveIn
<1>4. QED BY <1>2, <1>3, FS_Subset, FS_CardinalityType

\* The sensors of a name that are open are finitely many.
LEMMA OpenFinite ==
  ASSUME NEW seen, NEW s
  PROVE  IsFiniteSet(OpenOf(seen, s)) /\ Cardinality(OpenOf(seen, s)) \in Nat
BY FeedAssumption, FS_Subset, FS_CardinalityType DEF OpenOf, Namesakes

\* A new entry goes to the front and the others move up by one; if the list has room,
\* none is lost.
LEMMA Shifted ==
  ASSUME NEW e \in Seq(Board!Entry), NEW e2 \in Seq(Board!Entry), NEW n,
         Len(e2) <= Len(e) + 1,
         \A k \in DOMAIN e2 : k # 1 => e2[k] = e[k - 1]
  PROVE  /\ Cardinality(ActiveIn(e2, n) \ {1}) <= Cardinality(ActiveIn(e, n))
         /\ Len(e2) = Len(e) + 1 =>
              Cardinality(ActiveIn(e2, n) \ {1}) = Cardinality(ActiveIn(e, n))
<1> DEFINE A == ActiveIn(e, n)
           B == ActiveIn(e2, n) \ {1}
           F == [k \in B |-> k - 1]
<1>1. /\ Len(e) \in Nat /\ DOMAIN e = 1 .. Len(e)
      /\ Len(e2) \in Nat /\ DOMAIN e2 = 1 .. Len(e2)
  OBVIOUS
<1>2. ASSUME NEW k \in B PROVE k \in Int /\ k - 1 \in A
  BY <1>1 DEF ActiveIn
<1>3. F \in [B -> A] /\ \A k \in B : F[k] = k - 1
  BY <1>2
<1>4. ASSUME Len(e2) = Len(e) + 1, NEW j \in A PROVE j + 1 \in B /\ F[j + 1] = j
  <2>1. j \in 1 .. Len(e) /\ j + 1 \in DOMAIN e2 /\ j + 1 # 1 /\ (j + 1) - 1 = j
    BY <1>1, <1>4 DEF ActiveIn
  <2>2. e2[j + 1] = e[j]
    BY <2>1
  <2>3. j + 1 \in B
    BY <2>1, <2>2 DEF ActiveIn
  <2>4. QED BY <1>3, <2>1, <2>3
<1> HIDE DEF F
<1>5. \A k, j \in B : F[k] = F[j] => k = j
  BY <1>2, <1>3
<1>6. F \in Injection(B, A)
  BY <1>3, <1>5, Fun_IsInj
<1>7. IsFiniteSet(A)
  BY ActiveFinite
<1> HIDE DEF A, B
<1>8. /\ Cardinality(B) <= Cardinality(A)
      /\ F \in Surjection(B, A) => Cardinality(B) = Cardinality(A)
  BY <1>6, <1>7, FS_Injection
<1>9. ASSUME Len(e2) = Len(e) + 1 PROVE F \in Surjection(B, A)
  <2>1. \A j \in A : \E k \in B : F[k] = j
    BY <1>4, <1>9
  <2>2. QED BY <1>3, <2>1, Fun_IsSurj
<1>10. QED BY <1>8, <1>9 DEF A, B

\* After an alert has opened, its entry is the first, and the others have moved up by one,
\* as far as the list reaches.
LEMMA OpenedEntries ==
  ASSUME FeedTypeOK, NEW p \in Sensors, NEW l \in Levels, Board!OnAlertOpened(p, l)
  PROVE  /\ Len(entries) \in Nat /\ Len(entries) <= MaxEvents
         /\ Len(entries') = IF Len(entries) < MaxEvents THEN Len(entries) + 1 ELSE MaxEvents
         /\ DOMAIN entries' = 1 .. Len(entries')
         /\ \A k \in DOMAIN entries' :
              entries'[k] = IF k = 1 THEN [name |-> config[p], level |-> l, active |-> TRUE]
                                     ELSE entries[k - 1]
<1> DEFINE x   == [name |-> config[p], level |-> l, active |-> TRUE]
           new == <<x>> \o entries
<1>1. /\ entries \in Seq(Board!Entry) /\ Len(entries) \in Nat /\ Len(entries) <= MaxEvents
      /\ MaxEvents \in Nat
  BY FeedAssumption DEF FeedTypeOK
<1>2. entries' = IF Len(entries) < MaxEvents THEN new ELSE SubSeq(new, 1, MaxEvents)
  BY DEF Board!OnAlertOpened, Board!Newest
<1>3. x \in Board!Entry
  BY DEF Board!Entry, Board!Levels, Levels
<1> HIDE DEF x
<1>4. /\ new \in Seq(Board!Entry) /\ Len(new) = Len(entries) + 1
      /\ \A k \in 1 .. Len(new) : new[k] = IF k = 1 THEN x ELSE entries[k - 1]
  BY <1>1, <1>3
<1> HIDE DEF new
<1>5. CASE Len(entries) < MaxEvents
  BY <1>1, <1>2, <1>4, <1>5 DEF x
<1>6. CASE Len(entries) = MaxEvents
  <2>1. entries' = SubSeq(new, 1, MaxEvents)
    BY <1>1, <1>2, <1>6
  <2>2. /\ Len(entries') = MaxEvents /\ DOMAIN entries' = 1 .. MaxEvents
        /\ \A k \in 1 .. MaxEvents : entries'[k] = new[k]
    BY <1>1, <1>4, <1>6, <2>1
  <2>3. QED BY <1>1, <1>4, <1>6, <2>2 DEF x
<1>7. QED BY <1>1, <1>5, <1>6

\* An alert opens: there is one more alert of the name, and one more ACTIVE entry at
\* the front.
LEMMA NameOpened ==
  ASSUME FeedTypeOK, NEW seen \in [Sensors -> Levels], NEW p \in Sensors,
         NEW l \in Levels \ {"Normal"}, seen[p] = "Normal",
         \A s \in Sensors : NameInv(entries, seen, s),
         Board!OnAlertOpened(p, l), entries' \in Seq(Board!Entry), NEW s \in Sensors
  PROVE  NameInv(entries', [seen EXCEPT ![p] = l], s)
<1> DEFINE x   == [name |-> config[p], level |-> l, active |-> TRUE]
           A   == ActiveIn(entries, config[s])
           A2  == ActiveIn(entries', config[s])
           now == [seen EXCEPT ![p] = l]
           Op  == OpenOf(seen, s)
           Op2 == OpenOf(now, s)
<1>1. /\ entries \in Seq(Board!Entry) /\ Len(entries) \in Nat /\ Len(entries) <= MaxEvents
      /\ MaxEvents \in Nat
  BY FeedAssumption DEF FeedTypeOK
<1>2. x.active /\ x.name = config[p] /\ x.level = l
  OBVIOUS
<1>3. /\ \A k \in DOMAIN entries' : entries'[k] = IF k = 1 THEN x ELSE entries[k - 1]
      /\ Len(entries') = IF Len(entries) < MaxEvents THEN Len(entries) + 1 ELSE MaxEvents
  BY OpenedEntries
<1> HIDE DEF x
<1>4. /\ Cardinality(A2 \ {1}) <= Cardinality(A)
      /\ Len(entries) < MaxEvents => Cardinality(A2 \ {1}) = Cardinality(A)
  <2> HIDE DEF A, A2
  <2>1. Len(entries') <= Len(entries) + 1
    BY <1>1, <1>3
  <2>2. /\ Cardinality(A2 \ {1}) <= Cardinality(A)
        /\ Len(entries') = Len(entries) + 1 => Cardinality(A2 \ {1}) = Cardinality(A)
    BY <1>1, <1>3, <2>1, Shifted DEF A, A2
  <2>3. QED BY <1>1, <1>3, <2>2
<1>5. /\ IsFiniteSet(A) /\ Cardinality(A) \in Nat /\ IsFiniteSet(A2) /\ Cardinality(A2) \in Nat
      /\ IsFiniteSet(Op) /\ Cardinality(Op) \in Nat
      /\ IsFiniteSet(Op2) /\ Cardinality(Op2) \in Nat
  BY <1>1, ActiveFinite, OpenFinite
<1>6. /\ Cardinality(A2) = IF 1 \in A2 THEN Cardinality(A2 \ {1}) + 1 ELSE Cardinality(A2 \ {1})
      /\ Cardinality(A2 \ {1}) \in Nat
  <2> HIDE DEF A2
  <2>1. Cardinality(A2 \ {1}) = IF 1 \in A2 THEN Cardinality(A2) - 1 ELSE Cardinality(A2)
    BY <1>5, FS_RemoveElement
  <2>2. Cardinality(A2 \ {1}) \in Nat
    BY <1>5, FS_RemoveElement, FS_CardinalityType
  <2>3. QED BY <1>5, <2>1, <2>2
<1>7. now \in [Sensors -> Levels] /\ now[p] = l /\ \A r \in Sensors \ {p} : now[r] = seen[r]
  OBVIOUS
<1>8. /\ Cardinality(A) <= Cardinality(Op)
      /\ Cardinality(A) < Cardinality(Op) => Len(entries) = MaxEvents
      /\ Namesakes(s) = {s} => \A k \in A : entries[k].level = seen[s]
  BY DEF NameInv
<1>9. CASE config[p] = config[s]
  <2>1. p \notin Op /\ Op2 = Op \cup {p}
    BY <1>7, <1>9 DEF OpenOf, Namesakes
  <2>2. Cardinality(Op2) = Cardinality(Op) + 1
    BY <1>5, <2>1, FS_AddElement
  <2>3. Len(entries) < MaxEvents => 1 \in A2
    BY <1>1, <1>2, <1>3, <1>9 DEF ActiveIn
  <2>4. /\ Cardinality(A2) <= Cardinality(Op2)
        /\ Cardinality(A2) < Cardinality(Op2) => Len(entries') = MaxEvents
    <3> HIDE DEF A, A2, Op, Op2
    <3>1. QED BY <1>1, <1>3, <1>4, <1>5, <1>6, <1>8, <2>2, <2>3
  <2>5. ASSUME Namesakes(s) = {s}, NEW k \in A2 PROVE entries'[k].level = now[s]
    <3>1. p = s
      BY <1>9, <2>5 DEF Namesakes
    <3>2. Op = {}
      BY <2>5, <3>1 DEF OpenOf
    <3>3. A = {}
      <4>1. Cardinality(Op) = 0
        BY <3>2, FS_EmptySet
      <4>2. Cardinality(A) = 0
        BY <1>5, <1>8, <4>1
      <4>3. QED BY <1>5, <4>2, FS_EmptySet
    <3>4. k = 1
      <4>1. SUFFICES ASSUME k # 1 PROVE FALSE
        OBVIOUS
      <4>2. k \in A2 \ {1}
        BY <2>5, <4>1
      <4>3. Cardinality(A2 \ {1}) = 0
        <5>1. Cardinality(A) = 0
          BY <3>3, FS_EmptySet
        <5>2. Cardinality(A2 \ {1}) \in Nat
          BY <1>5, FS_RemoveElement, FS_CardinalityType
        <5>3. QED BY <1>4, <5>1, <5>2
      <4>4. IsFiniteSet(A2 \ {1})
        BY <1>5, FS_RemoveElement
      <4>5. QED BY <4>2, <4>3, <4>4, FS_EmptySet
    <3>5. k \in DOMAIN entries'
      BY <2>5 DEF ActiveIn
    <3>6. QED BY <1>2, <1>3, <1>7, <3>1, <3>4, <3>5
  <2>6. QED BY <2>4, <2>5 DEF NameInv
<1>10. CASE config[p] # config[s]
  <2>1. Op2 = Op
    BY <1>7, <1>10 DEF OpenOf, Namesakes
  <2>2. 1 \notin A2
    BY <1>2, <1>3, <1>10 DEF ActiveIn
  <2>3. /\ Cardinality(A2) <= Cardinality(Op2)
        /\ Cardinality(A2) < Cardinality(Op2) => Len(entries') = MaxEvents
    <3> HIDE DEF A, A2, Op, Op2
    <3>1. QED BY <1>1, <1>3, <1>4, <1>5, <1>6, <1>8, <2>1, <2>2
  <2>4. ASSUME Namesakes(s) = {s}, NEW k \in A2 PROVE entries'[k].level = now[s]
    <3>1. k \in DOMAIN entries' /\ k # 1
      BY <2>2, <2>4 DEF ActiveIn
    <3>2. entries'[k] = entries[k - 1]
      BY <1>3, <3>1
    <3>3. k - 1 \in A
      <4>1. k \in 1 .. Len(entries') /\ k - 1 \in 1 .. Len(entries)
        BY <1>1, <1>3, <3>1
      <4>2. QED BY <1>1, <2>4, <3>2, <4>1 DEF ActiveIn
    <3>4. s # p
      BY <1>10
    <3>5. QED BY <1>7, <1>8, <2>4, <3>2, <3>3, <3>4
  <2>5. QED BY <2>3, <2>4 DEF NameInv
<1>11. QED BY <1>9, <1>10

\* An alert closes: there is one alert of the name less, and one ACTIVE entry less if
\* there was one.
LEMMA NameClosed ==
  ASSUME FeedTypeOK, NEW seen \in [Sensors -> Levels], NEW p \in Sensors,
         seen[p] # "Normal",
         \A s \in Sensors : NameInv(entries, seen, s),
         Board!OnAlertClosed(p), NEW s \in Sensors
  PROVE  NameInv(entries', [seen EXCEPT ![p] = "Normal"], s)
<1> DEFINE found == ActiveIn(entries, config[p])
           A     == ActiveIn(entries, config[s])
           A2    == ActiveIn(entries', config[s])
           now   == [seen EXCEPT ![p] = "Normal"]
           Op    == OpenOf(seen, s)
           Op2   == OpenOf(now, s)
<1>1. /\ entries \in Seq(Board!Entry) /\ Len(entries) \in Nat
      /\ DOMAIN entries = 1 .. Len(entries)
  BY DEF FeedTypeOK
<1>2. now \in [Sensors -> Levels] /\ now[p] = "Normal" /\ \A r \in Sensors \ {p} : now[r] = seen[r]
  BY DEF Levels
<1>3. /\ Cardinality(A) <= Cardinality(Op)
      /\ Cardinality(A) < Cardinality(Op) => Len(entries) = MaxEvents
      /\ Namesakes(s) = {s} => \A k \in A : entries[k].level = seen[s]
  BY DEF NameInv
<1>4. /\ IsFiniteSet(A) /\ Cardinality(A) \in Nat /\ IsFiniteSet(Op) /\ Cardinality(Op) \in Nat
      /\ IsFiniteSet(Op2) /\ Cardinality(Op2) \in Nat
  BY <1>1, ActiveFinite, OpenFinite
<1>5. IF config[p] = config[s]
      THEN p \in Op /\ Op2 = Op \ {p} /\ Cardinality(Op2) = Cardinality(Op) - 1
      ELSE Op2 = Op
  <2>1. IF config[p] = config[s] THEN p \in Op /\ Op2 = Op \ {p} ELSE Op2 = Op
    BY <1>2 DEF OpenOf, Namesakes
  <2> HIDE DEF Op, Op2
  <2>2. QED BY <1>4, <2>1, FS_RemoveElement
<1>6. found = Board!Active(config[p])
  BY DEF ActiveIn, Board!Active
<1>7. CASE found = {}
  <2>1. entries' = entries
    BY <1>6, <1>7 DEF Board!OnAlertClosed
  <2>2. CASE config[p] = config[s]
    <3>1. A = {} /\ Cardinality(A) = 0
      BY <1>7, <2>2, FS_EmptySet
    <3>2. /\ Cardinality(A2) <= Cardinality(Op2)
          /\ Cardinality(A2) < Cardinality(Op2) => Len(entries') = MaxEvents
      <4>1. A2 = A
        BY <2>1
      <4> HIDE DEF A, A2, Op, Op2
      <4>2. QED BY <1>3, <1>4, <1>5, <2>1, <2>2, <3>1, <4>1
    <3>3. QED BY <2>1, <3>1, <3>2 DEF NameInv
  <2>3. CASE config[p] # config[s]
    <3>1. now[s] = seen[s]
      BY <1>2, <2>3
    <3>2. QED BY <1>3, <1>5, <2>1, <2>3, <3>1 DEF NameInv
  <2>4. QED BY <2>2, <2>3
<1>8. CASE found # {}
  <2> DEFINE k == CHOOSE k \in found : \A j \in found : k <= j
  <2>1. found \in SUBSET Nat
    BY <1>1 DEF ActiveIn
  <2>2. k \in found
    BY <1>8, <2>1, LeastNat
  <2>3. entries' = Board!Closed(k)
    BY <1>6, <1>8 DEF Board!OnAlertClosed
  <2> HIDE DEF k
  <2>4. /\ k \in DOMAIN entries /\ entries[k].name = config[p] /\ entries[k].active
        /\ DOMAIN entries' = DOMAIN entries /\ Len(entries') = Len(entries)
        /\ \A j \in DOMAIN entries \ {k} : entries'[j] = entries[j]
        /\ entries'[k] = [entries[k] EXCEPT !.active = FALSE]
        /\ entries[k] \in Board!Entry
    BY <1>1, <2>2, <2>3 DEF Board!Closed, ActiveIn
  <2>5. entries'[k].active = FALSE
    BY <2>4 DEF Board!Entry
  <2>6. A2 = A \ {k}
    BY <2>4, <2>5 DEF ActiveIn
  <2>7. k \in A <=> config[p] = config[s]
    BY <2>4 DEF ActiveIn
  <2>8. Cardinality(A2) = IF config[p] = config[s] THEN Cardinality(A) - 1 ELSE Cardinality(A)
    <3> HIDE DEF A, A2
    <3>1. QED BY <1>4, <2>6, <2>7, FS_RemoveElement
  <2>9. /\ Cardinality(A2) <= Cardinality(Op2)
        /\ Cardinality(A2) < Cardinality(Op2) => Len(entries') = MaxEvents
    <3> HIDE DEF A, A2, Op, Op2
    <3>1. QED BY <1>3, <1>4, <1>5, <2>4, <2>8
  <2>10. ASSUME Namesakes(s) = {s}, NEW j \in A2 PROVE entries'[j].level = now[s]
    <3>1. j \in A /\ j # k
      BY <2>6
    <3>2. entries'[j] = entries[j] /\ entries[j].level = seen[s]
      BY <1>3, <2>4, <2>10, <3>1 DEF ActiveIn
    <3>3. config[p] # config[s]
      <4>1. SUFFICES ASSUME config[p] = config[s] PROVE FALSE
        OBVIOUS
      <4>2. Op \subseteq {s}
        BY <2>10 DEF OpenOf
      <4>3. Cardinality(Op) <= 1
        <5>1. IsFiniteSet({s}) /\ Cardinality({s}) = 1
          BY FS_Singleton
        <5> HIDE DEF Op
        <5>2. QED BY <4>2, <5>1, FS_Subset
      <4>4. Cardinality(A2) = 0
        <5>1. Cardinality(A2) \in Nat
          BY <1>4, <2>6, FS_RemoveElement, FS_CardinalityType
        <5> HIDE DEF A, A2, Op, Op2
        <5>2. QED BY <1>4, <1>5, <2>9, <4>1, <4>3, <5>1
      <4>5. IsFiniteSet(A2)
        BY <1>4, <2>6, FS_RemoveElement
      <4>6. QED BY <2>10, <4>4, <4>5, FS_EmptySet
    <3>4. QED BY <1>2, <3>2, <3>3
  <2>11. QED BY <2>9, <2>10 DEF NameInv
<1>9. QED BY <1>7, <1>8

\* What a queued call says has happened to the alerts.
Change(before, after, p) ==
  /\ p.kind = "frame"  => after = before
  /\ p.kind = "opened" => /\ before[p.id] = "Normal" /\ p.level # "Normal"
                          /\ after = [before EXCEPT ![p.id] = p.level]
  /\ p.kind = "closed" => /\ before[p.id] # "Normal"
                          /\ after = [before EXCEPT ![p.id] = "Normal"]

\* The alerts as they were before each queued call lead, call by call, from those the
\* event log shows to those the tracker's listener has been told of.
EntriesInv ==
  \E h \in [Nat -> [Sensors -> Levels]] :
    /\ h[Len(posts)] = told
    /\ \A i \in 1 .. Len(posts) : Change(h[i - 1], h[i], posts[i])
    /\ \A s \in Sensors : NameInv(entries, h[0], s)

\* EntriesInv holds of a program that has just started.
LEMMA EntriesInit == FeedInit => EntriesInv
<1> SUFFICES ASSUME FeedInit PROVE EntriesInv
  OBVIOUS
<1>1. /\ posts = <<>> /\ Len(posts) = 0 /\ entries = <<>>
      /\ told = [s \in Sensors |-> "Normal"]
  BY DEF FeedInit, Init, Board!Init
<1> DEFINE h == [i \in Nat |-> told]
<1>2. h \in [Nat -> [Sensors -> Levels]] /\ h[0] = told
  BY <1>1 DEF Levels
<1>3. ASSUME NEW s \in Sensors PROVE NameInv(entries, told, s)
  <2>1. ActiveIn(entries, config[s]) = {} /\ OpenOf(told, s) = {}
    BY <1>1 DEF ActiveIn, OpenOf, Namesakes
  <2>2. QED BY <2>1, FS_EmptySet DEF NameInv
<1> HIDE DEF h
<1>4. QED BY <1>1, <1>2, <1>3 DEF EntriesInv

\* A step that posts a call, and tells the listener what the call will say.
LEMMA EntriesPost ==
  ASSUME EntriesInv, posts \in Seq(Posts), NEW p \in Posts, posts' = Append(posts, p),
         told' \in [Sensors -> Levels], Change(told, told', p), UNCHANGED <<config, entries>>
  PROVE  EntriesInv'
<1>1. PICK h \in [Nat -> [Sensors -> Levels]] :
        /\ h[Len(posts)] = told
        /\ \A i \in 1 .. Len(posts) : Change(h[i - 1], h[i], posts[i])
        /\ \A s \in Sensors : NameInv(entries, h[0], s)
  BY DEF EntriesInv
<1> DEFINE n == Len(posts) + 1
<1>2. /\ Len(posts) \in Nat /\ n \in Nat /\ n # 0 /\ Len(posts') = n
      /\ \A i \in 1 .. Len(posts) : posts'[i] = posts[i]
      /\ posts'[n] = p
  OBVIOUS
<1>3. PICK h2 \in [Nat -> [Sensors -> Levels]] :
        h2[n] = told' /\ \A i \in 0 .. Len(posts) : h2[i] = h[i]
  <2> DEFINE g == [h EXCEPT ![n] = told']
  <2>1. g \in [Nat -> [Sensors -> Levels]] /\ g[n] = told'
    BY <1>2
  <2>2. ASSUME NEW i \in 0 .. Len(posts) PROVE g[i] = h[i]
    <3>1. i \in Nat /\ i # n
      BY <1>2
    <3>2. QED BY <3>1
  <2> HIDE DEF g
  <2>3. QED BY <2>1, <2>2
<1>4. ASSUME NEW i \in 1 .. Len(posts') PROVE Change(h2[i - 1], h2[i], posts'[i])
  <2>1. CASE i = n
    <3>1. i - 1 = Len(posts) /\ Len(posts) \in 0 .. Len(posts)
      BY <1>2, <2>1
    <3>2. QED BY <1>1, <1>2, <1>3, <2>1, <3>1
  <2>2. CASE i # n
    <3>1. i \in 1 .. Len(posts) /\ i - 1 \in 0 .. Len(posts) /\ i \in 0 .. Len(posts)
      BY <1>2, <2>2
    <3>2. QED BY <1>1, <1>2, <1>3, <3>1
  <2>3. QED BY <2>1, <2>2
<1>5. ASSUME NEW s \in Sensors PROVE NameInv(entries, h2[0], s)'
  <2>1. h2[0] = h[0]
    BY <1>2, <1>3
  <2>2. QED BY <1>1, <2>1 DEF NameInv, Namesakes, OpenOf, ActiveIn
<1>6. QED BY <1>2, <1>3, <1>4, <1>5 DEF EntriesInv

\* The oldest call is made.
LEMMA EntriesHandle ==
  ASSUME FeedTypeOK, FeedTypeOK', EntriesInv, HandlePost
  PROVE  EntriesInv'
<1>1. PICK h \in [Nat -> [Sensors -> Levels]] :
        /\ h[Len(posts)] = told
        /\ \A i \in 1 .. Len(posts) : Change(h[i - 1], h[i], posts[i])
        /\ \A s \in Sensors : NameInv(entries, h[0], s)
  BY DEF EntriesInv
<1> DEFINE p  == Head(posts)
           h2 == [i \in Nat |-> h[i + 1]]
<1>2. posts \in Seq(Posts) /\ posts # <<>> /\ posts' = Tail(posts) /\ told' = told
  BY DEF HandlePost, FeedTypeOK, Posts, vars
<1>3. /\ Len(posts) \in Nat /\ Len(posts) # 0 /\ p = posts[1] /\ p \in Posts
      /\ Len(posts') = Len(posts) - 1
      /\ \A i \in 1 .. Len(posts') : posts'[i] = posts[i + 1]
  BY <1>2
<1>4. /\ h2 \in [Nat -> [Sensors -> Levels]] /\ \A i \in Nat : h2[i] = h[i + 1]
  OBVIOUS
<1> HIDE DEF h2
<1>5. h2[Len(posts')] = told'
  <2>1. Len(posts') \in Nat /\ Len(posts') + 1 = Len(posts)
    BY <1>3
  <2>2. QED BY <1>1, <1>2, <1>4, <2>1
<1>6. ASSUME NEW i \in 1 .. Len(posts') PROVE Change(h2[i - 1], h2[i], posts'[i])
  <2>1. /\ i \in Nat /\ i - 1 \in Nat /\ (i - 1) + 1 = i /\ i + 1 \in 1 .. Len(posts)
        /\ (i + 1) - 1 = i
    BY <1>3
  <2>2. h2[i - 1] = h[i] /\ h2[i] = h[i + 1] /\ posts'[i] = posts[i + 1]
    BY <1>3, <1>4, <2>1
  <2>3. Change(h[(i + 1) - 1], h[i + 1], posts[i + 1])
    BY <1>1, <2>1
  <2>4. QED BY <2>1, <2>2, <2>3
<1>7. Change(h[0], h2[0], p)
  <2>1. 1 \in 1 .. Len(posts) /\ 1 - 1 = 0 /\ 0 + 1 = 1
    BY <1>3
  <2>2. QED BY <1>1, <1>3, <1>4, <2>1
<1>8. h[0] \in [Sensors -> Levels] /\ p.id \in Sensors /\ p.level \in Levels
  BY <1>3 DEF Posts
<1>9. config' = config /\ entries' \in Seq(Board!Entry)
  <2>1. config' = config
    BY DEF HandlePost, Board!OnAlertOpened, Board!OnAlertClosed, Board!PushFrame
  <2>2. entries' \in Seq(Board!Entry)'
    BY DEF FeedTypeOK
  <2>3. QED BY <2>1, <2>2 DEF Board!Entry
<1>10. ASSUME NEW s \in Sensors PROVE NameInv(entries', h2[0], s)
  <2>1. CASE p.kind = "opened"
    <3>1. /\ h[0][p.id] = "Normal" /\ p.level # "Normal"
          /\ h2[0] = [h[0] EXCEPT ![p.id] = p.level]
      BY <1>7, <2>1 DEF Change
    <3>2. Board!OnAlertOpened(p.id, p.level)
      BY <2>1 DEF HandlePost
    <3>3. p.level \in Levels \ {"Normal"}
      BY <1>8, <3>1
    <3> HIDE DEF p
    <3>4. NameInv(entries', [h[0] EXCEPT ![p.id] = p.level], s)
      BY <1>1, <1>8, <1>9, <3>1, <3>2, <3>3, NameOpened
    <3>5. QED BY <3>1, <3>4
  <2>2. CASE p.kind = "closed"
    <3>1. h[0][p.id] # "Normal" /\ h2[0] = [h[0] EXCEPT ![p.id] = "Normal"]
      BY <1>7, <2>2 DEF Change
    <3>2. Board!OnAlertClosed(p.id)
      BY <2>2 DEF HandlePost
    <3>3. QED BY <1>1, <1>8, <3>1, <3>2, NameClosed
  <2>3. CASE p.kind = "frame"
    <3>1. h2[0] = h[0] /\ entries' = entries
      BY <1>7, <2>3 DEF Change, HandlePost, Board!PushFrame
    <3>2. QED BY <1>1, <3>1
  <2>4. QED BY <1>3, <2>1, <2>2, <2>3 DEF Posts
<1>11. ASSUME NEW s \in Sensors PROVE NameInv(entries, h2[0], s)'
  BY <1>9, <1>10 DEF NameInv, Namesakes, OpenOf, ActiveIn
<1>12. QED BY <1>4, <1>5, <1>6, <1>11 DEF EntriesInv

\* EntriesInv is preserved by every step.
LEMMA EntriesStep ==
  /\ TypeOK /\ TypeOK' /\ StepInv /\ InHand /\ FeedTypeOK /\ FeedTypeOK' /\ EntriesInv
  /\ [AnyStep]_feedVars
  => EntriesInv'
<1> SUFFICES ASSUME TypeOK, TypeOK', StepInv, InHand, FeedTypeOK, FeedTypeOK', EntriesInv,
                    [AnyStep]_feedVars
             PROVE  EntriesInv'
  OBVIOUS
<1>1. posts \in Seq(Posts) /\ told \in [Sensors -> Levels] /\ told' \in [Sensors -> Levels]
  BY DEF FeedTypeOK, Posts, TypeOK
<1>2. CASE (\E s \in Sensors, l \in Levels : Receive(s, l)) \/ Update \/ UNCHANGED feedVars
  <2>1. UNCHANGED <<told, posts, config, entries>>
    BY <1>2 DEF Receive, Process, BeginOpen, BeginClose, BeginEscalate, Stay, Call, Update, Fill,
                Reopen, boardVars, feedVars, vars
  <2>2. QED BY <2>1 DEF EntriesInv, NameInv, Namesakes, OpenOf, ActiveIn
<1>3. CASE Opened
  <2>1. /\ step = "opened" /\ posts' = Append(posts, fired') /\ UNCHANGED <<config, entries>>
        /\ fired' = Event("opened", input.id, states[input.id].current)
        /\ told' = [told EXCEPT ![input.id] = states[input.id].current]
    BY <1>3 DEF Opened, FireOpened, boardVars
  <2>2. /\ told[input.id] = "Normal" /\ input.level # "Normal"
        /\ states[input.id].current = input.level
    BY <2>1 DEF StepInv
  <2>3. fired' \in Posts /\ Change(told, told', fired')
    BY <2>1, <2>2 DEF Event, Posts, Change, TypeOK
  <2>4. QED BY <1>1, <2>1, <2>3, EntriesPost
<1>4. CASE Closed
  <2>1. /\ step \in {"closed", "escalate"} /\ posts' = Append(posts, fired')
        /\ UNCHANGED <<config, entries>>
        /\ fired' = Event("closed", input.id, states[input.id].current)
        /\ told' = [told EXCEPT ![input.id] = "Normal"]
    BY <1>4 DEF Closed, FireClosed, FireEscalated, boardVars
  <2>2. told[input.id] = states[input.id].current /\ told[input.id] # "Normal"
    BY <2>1 DEF StepInv
  <2>3. fired' \in Posts /\ Change(told, told', fired')
    BY <1>1, <2>1, <2>2 DEF Event, Posts, Change, TypeOK
  <2>4. QED BY <1>1, <2>1, <2>3, EntriesPost
<1>5. CASE PushFrame
  <2> DEFINE p == FramePost(input.id, input.level)
  <2>1. /\ tracking /\ posts' = Append(posts, p) /\ UNCHANGED <<told, config, entries>>
    BY <1>5 DEF PushFrame, vars, boardVars
  <2>2. p \in Posts /\ p.kind = "frame"
    BY <2>1 DEF InHand, FramePost, Posts
  <2> HIDE DEF p
  <2>3. Change(told, told', p)
    BY <2>1, <2>2 DEF Change
  <2>4. QED BY <1>1, <2>1, <2>2, <2>3, EntriesPost
<1>6. CASE HandlePost
  BY <1>6, EntriesHandle
<1>7. QED BY <1>2, <1>3, <1>4, <1>5, <1>6 DEF AnyStep

\* Whenever all is quiet, each name has as many ACTIVE entries as its sensors have open
\* alerts, or fewer because the list is full: an alert neither stays ACTIVE for ever nor
\* is closed in another's name, whatever names the sensors share, however long the list.
THEOREM EntriesCorrect == FeedSpec => []EntriesAgree
<1>1. EntriesInv => EntriesAgree
  <2> SUFFICES ASSUME EntriesInv, Quiet, NEW s \in Sensors
               PROVE  LET named  == {r \in Sensors : config[r] = config[s]}
                          active == Board!Active(config[s])
                          open   == {r \in named : told[r] # "Normal"}
                      IN  /\ Cardinality(active) <= Cardinality(open)
                          /\ Cardinality(active) < Cardinality(open) => Len(entries) = MaxEvents
                          /\ named = {s} => \A k \in active : entries[k].level = told[s]
    BY DEF EntriesAgree
  <2>1. NameInv(entries, told, s)
    BY DEF EntriesInv, Quiet
  <2>2. QED BY <2>1 DEF NameInv, Namesakes, OpenOf, ActiveIn, Board!Active
<1>2. QED
  BY <1>1, FeedTracker, HandCorrect, FeedTypeCorrect, EntriesInit, EntriesStep, BoundedStep, PTL
     DEF FeedSpec
==============================================================================
