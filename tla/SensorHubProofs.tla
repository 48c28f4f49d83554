--------------------------- MODULE SensorHubProofs ---------------------------
(* Theorems about SensorHub for every capacity, every set of configured ids   *)
(* and any number of frames and sessions.                                     *)
EXTENDS SensorHub, SequenceTheorems, TLAPS

\* What TryPush does to the content of a queue that is within its capacity.
LEMMA TryPushType ==
  ASSUME TypeOK, NEW item \in Frames \cup {Sentinel}, TryPush(item)
  PROVE  /\ buffer' \in Seq(Frames \cup {Sentinel}) /\ Len(buffer') <= Cap
         /\ buffer' # <<>>
<1> DEFINE Item == Frames \cup {Sentinel}
<1>1. buffer \in Seq(Item) /\ Len(buffer) \in Nat /\ Len(buffer) <= Cap /\ Cap \in Nat \ {0}
  BY HubAssumption, LenProperties DEF TypeOK
<1> HIDE DEF Item
<1>2. CASE Len(buffer) < Cap
  <2>1. buffer' = Append(buffer, item) /\ item \in Item
    BY <1>2 DEF TryPush, Item
  <2>2. buffer' \in Seq(Item) /\ Len(buffer') = Len(buffer) + 1
    BY <1>1, <2>1, AppendProperties
  <2>3. buffer' # <<>>
    BY <1>1, <2>2, EmptySeq
  <2>4. QED BY <1>1, <1>2, <2>2, <2>3 DEF Item
<1>3. CASE ~(Len(buffer) < Cap)
  <2>1. buffer' = buffer /\ Len(buffer) # 0
    BY <1>1, <1>3 DEF TryPush
  <2>2. QED BY <1>1, <2>1, EmptySeq DEF Item
<1>4. QED BY <1>2, <1>3

\* TypeOK holds of a hub that has just been built.
LEMMA TypeInit == Init => TypeOK
<1> USE HubAssumption
<1>1. <<>> \in Seq(Frames \cup {Sentinel}) /\ <<>> \in Seq(1 .. MaxFrames) /\ Len(<<>>) = 0
  BY EmptySeq
<1> SUFFICES ASSUME Init PROVE TypeOK
  OBVIOUS
<1>2. buffer \in Seq(Frames \cup {Sentinel}) /\ Len(buffer) <= Cap
        /\ delivered \in Seq(1 .. MaxFrames)
  BY <1>1 DEF Init
<1>3. starts \in 0 .. MaxStarts /\ parsed \in 0 .. MaxFrames /\ late \in Nat
        /\ accepted \subseteq 1 .. parsed
  BY DEF Init
<1>4. QED BY <1>2, <1>3 DEF Init, TypeOK

\* TypeOK is preserved by every step.
LEMMA TypeStep == TypeOK /\ [Next]_vars => TypeOK'
<1> USE HubAssumption
<1> SUFFICES ASSUME TypeOK, [Next]_vars PROVE TypeOK'
  OBVIOUS
<1>1. CASE Start
  BY <1>1 DEF Start, TypeOK, Frames
<1>2. CASE Spawn
  BY <1>2 DEF Spawn, TypeOK, Frames
<1>3. CASE Stop
  BY <1>3 DEF Stop, TypeOK, Frames
<1>4. CASE PushSentinel
  <2>1. buffer' \in Seq(Frames \cup {Sentinel}) /\ Len(buffer') <= Cap
    BY <1>4, TryPushType DEF PushSentinel
  <2>2. QED BY <1>4, <2>1 DEF PushSentinel, TypeOK, Frames
<1>5. CASE Join
  BY <1>5 DEF Join, TypeOK, Frames
<1>6. CASE Ingest
  <2>1. parsed' \in 1 .. MaxFrames /\ parsed' = parsed + 1
    BY <1>6 DEF Ingest, TypeOK
  <2>2. PICK id \in SensorIds : TryPush([id |-> id, seq |-> parsed'])
    BY <1>6 DEF Ingest
  <2>3. [id |-> id, seq |-> parsed'] \in Frames
    BY <2>1 DEF Frames
  <2>4. buffer' \in Seq(Frames \cup {Sentinel}) /\ Len(buffer') <= Cap
    BY <2>2, <2>3, TryPushType
  <2>5. accepted' \subseteq 1 .. parsed'
    BY <1>6, <2>1 DEF Ingest, TypeOK
  <2>6. QED BY <1>6, <2>1, <2>4, <2>5 DEF Ingest, TypeOK, Frames
<1>7. CASE Check
  BY <1>7 DEF Check, TypeOK, Frames
<1>8. CASE Pop
  <2>1. /\ buffer' \in Seq(Frames \cup {Sentinel}) /\ Len(buffer') <= Cap
        /\ frame' \in Frames \cup {Sentinel}
    BY <1>8 DEF Pop, TypeOK
  <2>2. worker' = "evaluate" => frame' \in Frames
    BY <1>8, <2>1 DEF Pop, Sentinel
  <2>3. worker' \in {"evaluate", "done"} /\ stale' \in BOOLEAN
    BY <1>8 DEF Pop, TypeOK
  <2>4. QED BY <1>8, <2>1, <2>2, <2>3 DEF Pop, TypeOK, Frames
<1>9. CASE Deliver
  <2>1. frame.seq \in 1 .. MaxFrames
    BY <1>9 DEF Deliver, TypeOK, Frames
  <2>2. delivered' \in Seq(1 .. MaxFrames)
    BY <1>9, <2>1, AppendProperties DEF Deliver, TypeOK
  <2>3. late' \in Nat
    BY <1>9 DEF Deliver, TypeOK
  <2>4. QED BY <1>9, <2>2, <2>3 DEF Deliver, TypeOK, Frames
<1>10. CASE UNCHANGED vars
  BY <1>10 DEF vars, TypeOK, Frames
<1>11. QED
  BY <1>1, <1>2, <1>3, <1>4, <1>5, <1>6, <1>7, <1>8, <1>9, <1>10
     DEF Next, MainStep, WorkerStep

\* Every variable of SensorHub always holds a value of its type; in particular
\* the queue never exceeds kBufferCapacity.
THEOREM TypeCorrect == Spec => []TypeOK
BY TypeInit, TypeStep, PTL DEF Spec

------------------------------------------------------------------------------
(* Sessions: start() and stop().                                             *)

\* What start() and stop() keep true.  While stop() joins, either the worker has
\* not used the mutex of the buffer since (stale), the queue still holds what
\* stop() found or put there, and at most one frame was in flight; or it has,
\* will see m_running false at its next check, and so never reaches pop() again.
SessionInv ==
  /\ main = "spawn" => running /\ worker = "none"
  /\ main = "idle" /\ ~running => worker = "none"
  /\ main = "sentinel" => ~running /\ stale
  /\ main = "join" =>
       /\ ~running
       /\ stale => /\ buffer # <<>>
                   /\ late <= 1
                   /\ worker = "evaluate" => late = 0
       /\ ~stale => /\ worker # "pop"
                    /\ late <= 2
                    /\ worker = "evaluate" => late <= 1

\* SessionInv holds before the first session.
LEMMA SessionInit == Init => SessionInv
BY DEF Init, SessionInv

\* Every step keeps SessionInv, whatever the capacity and the number of sessions.
LEMMA SessionStep == TypeOK /\ SessionInv /\ [Next]_vars => SessionInv'
<1> USE HubAssumption
<1> SUFFICES ASSUME TypeOK, SessionInv, [Next]_vars PROVE SessionInv'
  OBVIOUS
<1>1. CASE Start
  BY <1>1 DEF Start, SessionInv
<1>2. CASE Spawn
  BY <1>2 DEF Spawn, SessionInv
<1>3. CASE Stop
  BY <1>3 DEF Stop, SessionInv
<1>4. CASE PushSentinel
  <2>1. buffer' # <<>>
    BY <1>4, TryPushType DEF PushSentinel
  <2>2. QED BY <1>4, <2>1 DEF PushSentinel, SessionInv
<1>5. CASE Join
  BY <1>5 DEF Join, SessionInv
<1>6. CASE Ingest
  <2>1. PICK id \in SensorIds : TryPush([id |-> id, seq |-> parsed'])
    BY <1>6 DEF Ingest
  <2>2. [id |-> id, seq |-> parsed'] \in Frames
    BY <1>6 DEF Ingest, Frames, TypeOK
  <2>3. buffer' # <<>>
    BY <2>1, <2>2, TryPushType
  <2>4. QED BY <1>6, <2>3 DEF Ingest, SessionInv
<1>7. CASE Check
  BY <1>7 DEF Check, SessionInv, TypeOK
<1>8. CASE Pop
  <2>1. worker' \in {"evaluate", "done"}
    BY <1>8 DEF Pop
  <2>2. CASE main = "join"
    <3>1. stale /\ late <= 1 /\ ~running
      BY <1>8, <2>2 DEF Pop, SessionInv, TypeOK
    <3>2. ~stale' /\ UNCHANGED <<main, running, late>>
      BY <1>8, <2>2 DEF Pop
    <3>3. QED BY <2>1, <2>2, <3>1, <3>2 DEF SessionInv, TypeOK
  <2>3. CASE main # "join"
    BY <1>8, <2>1, <2>3 DEF Pop, SessionInv, TypeOK
  <2>4. QED BY <2>2, <2>3
<1>9. CASE Deliver
  <2>1. CASE main = "join"
    BY <1>9, <2>1 DEF Deliver, SessionInv, TypeOK
  <2>2. CASE main # "join"
    BY <1>9, <2>2 DEF Deliver, SessionInv
  <2>3. QED BY <2>1, <2>2
<1>10. CASE UNCHANGED vars
  BY <1>10 DEF vars, SessionInv
<1>11. QED
  BY <1>1, <1>2, <1>3, <1>4, <1>5, <1>6, <1>7, <1>8, <1>9, <1>10
     DEF Next, MainStep, WorkerStep

\* SessionInv is an invariant.
LEMMA SessionCorrect == Spec => []SessionInv
BY SessionInit, SessionStep, TypeCorrect, PTL DEF Spec

\* stop() never joins a worker that sleeps in pop() on an empty buffer, although
\* the sentinel is dropped when the buffer is full and the worker's read of
\* m_running is relaxed.
THEOREM StopSafe == Spec => []StopNeverHangs
<1>1. SessionInv => StopNeverHangs
  BY DEF SessionInv, StopNeverHangs
<1>2. QED BY <1>1, SessionCorrect, PTL

\* At most two callbacks run after stop() has offered the sentinel.
THEOREM DrainBounded == Spec => []BoundedDrain
<1>1. TypeOK /\ SessionInv => BoundedDrain
  BY DEF SessionInv, BoundedDrain, TypeOK
<1>2. QED BY <1>1, SessionCorrect, TypeCorrect, PTL

\* start() never overwrites a joinable std::thread, and there is no worker
\* outside a session.
THEOREM AtMostOneWorker == Spec => []OneWorker
<1>1. SessionInv => OneWorker
  BY DEF SessionInv, OneWorker
<1>2. QED BY <1>1, SessionCorrect, PTL

------------------------------------------------------------------------------
(* The stream of frames.                                                     *)

FrameSeq == Seq(Frames \cup {Sentinel})

\* Appending an item to the queue.
LEMMA QueuedAppend ==
  ASSUME buffer \in FrameSeq, NEW x \in Frames \cup {Sentinel},
         buffer' = Append(buffer, x)
  PROVE  /\ DOMAIN buffer = 1 .. Len(buffer) /\ DOMAIN buffer' = 1 .. Len(buffer) + 1
         /\ Len(buffer) \in Nat
         /\ \A k \in 1 .. Len(buffer) : buffer'[k] = buffer[k]
         /\ buffer'[Len(buffer) + 1] = x
         /\ Queued' = Queued \cup (IF Real(x) THEN {x.seq} ELSE {})
<1>1. /\ DOMAIN buffer = 1 .. Len(buffer) /\ DOMAIN buffer' = 1 .. Len(buffer) + 1
      /\ Len(buffer) \in Nat
      /\ \A k \in 1 .. Len(buffer) : buffer'[k] = buffer[k]
      /\ buffer'[Len(buffer) + 1] = x
  BY AppendProperties, LenProperties DEF FrameSeq
<1>2. ASSUME NEW q \in Queued' PROVE q \in Queued \cup (IF Real(x) THEN {x.seq} ELSE {})
  <2>1. PICK k \in 1 .. Len(buffer) + 1 : Real(buffer'[k]) /\ q = buffer'[k].seq
    BY <1>1 DEF Queued, Real
  <2>2. CASE k = Len(buffer) + 1
    BY <1>1, <2>1, <2>2
  <2>3. CASE k \in 1 .. Len(buffer)
    BY <1>1, <2>1, <2>3 DEF Queued, Real
  <2>4. QED BY <1>1, <2>2, <2>3
<1>3. ASSUME NEW q \in Queued PROVE q \in Queued'
  <2>1. PICK k \in 1 .. Len(buffer) : Real(buffer[k]) /\ q = buffer[k].seq
    BY <1>1 DEF Queued
  <2>2. k \in DOMAIN buffer' /\ buffer'[k] = buffer[k]
    BY <1>1
  <2>3. QED BY <2>1, <2>2 DEF Queued, Real
<1>4. Real(x) => x.seq \in Queued'
  <2>1. Len(buffer) + 1 \in DOMAIN buffer'
    BY <1>1
  <2>2. QED BY <1>1, <2>1 DEF Queued, Real
<1>5. QED BY <1>1, <1>2, <1>3, <1>4

\* Taking the first item out of the queue.
LEMMA QueuedTail ==
  ASSUME buffer \in FrameSeq, buffer # <<>>, buffer' = Tail(buffer)
  PROVE  /\ DOMAIN buffer = 1 .. Len(buffer) /\ DOMAIN buffer' = 1 .. Len(buffer) - 1
         /\ Len(buffer) \in Nat \ {0}
         /\ \A k \in 1 .. Len(buffer) - 1 : buffer'[k] = buffer[k + 1]
         /\ Head(buffer) = buffer[1] /\ Head(buffer) \in Frames \cup {Sentinel}
         /\ Queued = Queued' \cup (IF Real(Head(buffer)) THEN {Head(buffer).seq} ELSE {})
<1>1. /\ DOMAIN buffer = 1 .. Len(buffer) /\ DOMAIN buffer' = 1 .. Len(buffer) - 1
      /\ Len(buffer) \in Nat \ {0}
      /\ \A k \in 1 .. Len(buffer) - 1 : buffer'[k] = buffer[k + 1]
      /\ Head(buffer) = buffer[1] /\ Head(buffer) \in Frames \cup {Sentinel}
  BY HeadTailProperties, LenProperties, EmptySeq DEF FrameSeq
<1>2. ASSUME NEW q \in Queued
      PROVE  q \in Queued' \cup (IF Real(Head(buffer)) THEN {Head(buffer).seq} ELSE {})
  <2>1. PICK k \in 1 .. Len(buffer) : Real(buffer[k]) /\ q = buffer[k].seq
    BY <1>1 DEF Queued
  <2>2. CASE k = 1
    BY <1>1, <2>1, <2>2
  <2>3. CASE k # 1
    <3> DEFINE j == k - 1
    <3>1. j \in DOMAIN buffer' /\ buffer'[j] = buffer[k]
      BY <1>1, <2>3
    <3> HIDE DEF j
    <3>2. QED BY <2>1, <3>1 DEF Queued, Real
  <2>4. QED BY <2>2, <2>3
<1>3. ASSUME NEW q \in Queued' PROVE q \in Queued
  <2>1. PICK k \in 1 .. Len(buffer) - 1 : Real(buffer'[k]) /\ q = buffer'[k].seq
    BY <1>1 DEF Queued, Real
  <2> DEFINE j == k + 1
  <2>2. j \in DOMAIN buffer /\ buffer'[k] = buffer[j]
    BY <1>1
  <2> HIDE DEF j
  <2>3. QED BY <2>1, <2>2 DEF Queued, Real
<1>4. Real(Head(buffer)) => Head(buffer).seq \in Queued
  <2>1. 1 \in DOMAIN buffer
    BY <1>1
  <2>2. QED BY <1>1, <2>1 DEF Queued
<1>5. QED BY <1>1, <1>2, <1>3, <1>4

\* Handing a frame to the callback.
LEMMA ShownAppend ==
  ASSUME delivered \in Seq(1 .. MaxFrames), NEW n \in 1 .. MaxFrames,
         delivered' = Append(delivered, n)
  PROVE  /\ DOMAIN delivered = 1 .. Len(delivered)
         /\ DOMAIN delivered' = 1 .. Len(delivered) + 1
         /\ Len(delivered) \in Nat
         /\ \A k \in 1 .. Len(delivered) : delivered'[k] = delivered[k]
         /\ delivered'[Len(delivered) + 1] = n
         /\ Shown' = Shown \cup {n}
<1>1. /\ DOMAIN delivered = 1 .. Len(delivered)
      /\ DOMAIN delivered' = 1 .. Len(delivered) + 1
      /\ Len(delivered) \in Nat
      /\ \A k \in 1 .. Len(delivered) : delivered'[k] = delivered[k]
      /\ delivered'[Len(delivered) + 1] = n
  BY AppendProperties, LenProperties
<1>2. Shown' = {delivered'[k] : k \in 1 .. Len(delivered) + 1}
  BY <1>1 DEF Shown
<1>3. Shown = {delivered[k] : k \in 1 .. Len(delivered)}
  BY <1>1 DEF Shown
<1>4. QED BY <1>1, <1>2, <1>3

\* What InOrder needs to be kept: what is in the pipeline is what was accepted.
StreamInv == InOrder /\ Shown \cup InHand \cup Queued \subseteq accepted

\* An item appended to the queue keeps the order if it is later than the rest.
LEMMA AppendInOrder ==
  ASSUME TypeOK, InOrder, NEW x \in Frames \cup {Sentinel}, buffer' = Append(buffer, x),
         \A q \in Shown \cup InHand \cup Queued : Real(x) => q < x.seq,
         Shown' = Shown, InHand' = InHand, delivered' = delivered
  PROVE  InOrder'
<1>1. /\ DOMAIN buffer = 1 .. Len(buffer) /\ DOMAIN buffer' = 1 .. Len(buffer) + 1
      /\ Len(buffer) \in Nat
      /\ \A k \in 1 .. Len(buffer) : buffer'[k] = buffer[k]
      /\ buffer'[Len(buffer) + 1] = x
      /\ Queued' = Queued \cup (IF Real(x) THEN {x.seq} ELSE {})
  BY QueuedAppend DEF TypeOK, FrameSeq
<1>2. ASSUME NEW i \in DOMAIN buffer', NEW j \in DOMAIN buffer',
             i < j, Real(buffer'[i]), Real(buffer'[j])
      PROVE  buffer'[i].seq < buffer'[j].seq
  <2>1. i \in 1 .. Len(buffer) /\ buffer'[i] = buffer[i]
    BY <1>1, <1>2
  <2>2. CASE j = Len(buffer) + 1
    <3>1. buffer[i].seq \in Queued
      BY <1>1, <1>2, <2>1 DEF Queued, Real
    <3>2. QED BY <1>1, <1>2, <2>1, <2>2, <3>1
  <2>3. CASE j \in 1 .. Len(buffer)
    BY <1>1, <1>2, <2>1, <2>3 DEF InOrder, Real
  <2>4. QED BY <1>1, <2>2, <2>3
<1>3. ASSUME NEW q \in Queued'
      PROVE  /\ \A s \in Shown : s < q
             /\ \A h \in InHand : h < q
  BY <1>1, <1>3 DEF InOrder
<1>4. /\ \A i, j \in DOMAIN delivered' : i < j => delivered'[i] < delivered'[j]
      /\ \A s \in Shown, h \in InHand : s < h
  BY DEF InOrder
<1>5. QED BY <1>2, <1>3, <1>4 DEF InOrder

\* StreamInv holds before anything has arrived.
LEMMA StreamInit == Init => StreamInv
<1> SUFFICES ASSUME Init PROVE StreamInv
  OBVIOUS
<1>1. DOMAIN buffer = {} /\ DOMAIN delivered = {}
  BY DEF Init
<1>2. Shown = {} /\ InHand = {} /\ Queued = {}
  BY <1>1 DEF Init, Shown, InHand, Queued
<1>3. QED BY <1>1, <1>2 DEF StreamInv, InOrder

\* Every step keeps StreamInv.
LEMMA StreamStep == TypeOK /\ StreamInv /\ [Next]_vars => StreamInv'
<1> USE HubAssumption
<1> SUFFICES ASSUME TypeOK, StreamInv, [Next]_vars PROVE StreamInv'
  OBVIOUS
<1>1. ASSUME UNCHANGED <<buffer, frame, delivered, accepted>>, worker' # "evaluate" \/ worker' = worker
      PROVE  StreamInv'
  <2>1. Shown' = Shown /\ Queued' = Queued /\ InHand' \subseteq InHand
    BY <1>1 DEF Shown, Queued, InHand
  <2>2. InOrder'
    BY <1>1, <2>1 DEF StreamInv, InOrder
  <2>3. QED BY <1>1, <2>1, <2>2 DEF StreamInv
<1>2. CASE Start \/ Spawn \/ Stop \/ Join \/ Check
  BY <1>1, <1>2 DEF Start, Spawn, Stop, Join, Check
<1>3. CASE PushSentinel
  <2>1. CASE Len(buffer) < Cap
    <3>1. buffer' = Append(buffer, Sentinel) /\ ~Real(Sentinel)
      BY <1>3, <2>1 DEF PushSentinel, TryPush, Real, Sentinel
    <3>2. Shown' = Shown /\ InHand' = InHand /\ UNCHANGED <<delivered, accepted>>
      BY <1>3 DEF PushSentinel, Shown, InHand
    <3>3. InOrder'
      BY <3>1, <3>2, AppendInOrder DEF StreamInv
    <3>4. Queued' = Queued
      BY <3>1, QueuedAppend DEF TypeOK, FrameSeq
    <3>5. QED BY <3>2, <3>3, <3>4 DEF StreamInv
  <2>2. CASE ~(Len(buffer) < Cap)
    BY <1>1, <1>3, <2>2 DEF PushSentinel, TryPush
  <2>3. QED BY <2>1, <2>2
<1>4. CASE Ingest
  <2>1. PICK id \in SensorIds : TryPush([id |-> id, seq |-> parsed'])
    BY <1>4 DEF Ingest
  <2> DEFINE x == [id |-> id, seq |-> parsed']
  <2>2. x \in Frames /\ x.seq = parsed + 1 /\ parsed \in Nat
    BY <1>4 DEF Ingest, Frames, TypeOK
  <2>3. Shown' = Shown /\ InHand' = InHand /\ UNCHANGED delivered
    BY <1>4 DEF Ingest, Shown, InHand
  <2>4. CASE Len(buffer) < Cap
    <3>1. buffer' = Append(buffer, x) /\ accepted' = accepted \cup {x.seq}
      BY <1>4, <2>1, <2>4 DEF Ingest, TryPush
    <3> HIDE DEF x
    <3>2. ASSUME NEW q \in Shown \cup InHand \cup Queued PROVE q < x.seq
      <4>1. q \in 1 .. parsed
        BY DEF StreamInv, TypeOK
      <4>2. QED BY <2>2, <4>1
    <3>3. InOrder'
      BY <2>2, <2>3, <3>1, <3>2, AppendInOrder DEF StreamInv
    <3>4. Queued' \subseteq Queued \cup {x.seq}
      BY <2>2, <3>1, QueuedAppend DEF TypeOK, FrameSeq
    <3>5. QED BY <2>3, <3>1, <3>3, <3>4 DEF StreamInv
  <2>5. CASE ~(Len(buffer) < Cap)
    BY <1>1, <1>4, <2>1, <2>5 DEF Ingest, TryPush
  <2>6. QED BY <2>4, <2>5
<1>5. CASE Pop
  <2>1. /\ DOMAIN buffer = 1 .. Len(buffer) /\ DOMAIN buffer' = 1 .. Len(buffer) - 1
        /\ Len(buffer) \in Nat \ {0}
        /\ \A k \in 1 .. Len(buffer) - 1 : buffer'[k] = buffer[k + 1]
        /\ Head(buffer) = buffer[1] /\ Head(buffer) \in Frames \cup {Sentinel}
        /\ Queued = Queued' \cup (IF Real(Head(buffer)) THEN {Head(buffer).seq} ELSE {})
    BY <1>5, QueuedTail DEF Pop, TypeOK, FrameSeq
  <2>2. Shown' = Shown /\ UNCHANGED <<delivered, accepted>> /\ InHand = {}
    BY <1>5 DEF Pop, Shown, InHand
  <2>3. InHand' \subseteq (IF Real(Head(buffer)) THEN {Head(buffer).seq} ELSE {})
    BY <1>5, <2>1 DEF Pop, InHand, Real, Frames, Sentinel
  <2>4. ASSUME NEW i \in DOMAIN buffer', NEW j \in DOMAIN buffer',
               i < j, Real(buffer'[i]), Real(buffer'[j])
        PROVE  buffer'[i].seq < buffer'[j].seq
    <3>1. /\ i + 1 \in DOMAIN buffer /\ j + 1 \in DOMAIN buffer /\ i + 1 < j + 1
          /\ buffer'[i] = buffer[i + 1] /\ buffer'[j] = buffer[j + 1]
      BY <2>1, <2>4
    <3>2. QED BY <2>4, <3>1 DEF StreamInv, InOrder, Real
  <2>5. ASSUME NEW h \in InHand', NEW q \in Queued' PROVE h < q
    <3>1. Real(buffer[1]) /\ h = buffer[1].seq
      BY <2>1, <2>3, <2>5
    <3>2. PICK k \in 1 .. Len(buffer) - 1 : Real(buffer'[k]) /\ q = buffer'[k].seq
      BY <2>1, <2>5 DEF Queued, Real
    <3>3. /\ 1 \in DOMAIN buffer /\ k + 1 \in DOMAIN buffer /\ 1 < k + 1
          /\ buffer'[k] = buffer[k + 1]
      BY <2>1
    <3>4. QED BY <3>1, <3>2, <3>3 DEF StreamInv, InOrder, Real
  <2>6. InHand' \cup Queued' \subseteq Queued
    BY <2>1, <2>3
  <2>7. InOrder'
    BY <2>2, <2>4, <2>5, <2>6 DEF StreamInv, InOrder
  <2>8. QED BY <2>2, <2>6, <2>7 DEF StreamInv
<1>6. CASE Deliver
  <2> DEFINE n == frame.seq
  <2>1. n \in 1 .. MaxFrames /\ delivered' = Append(delivered, n)
          /\ delivered \in Seq(1 .. MaxFrames) /\ InHand = {n} /\ InHand' = {}
          /\ Queued' = Queued /\ UNCHANGED <<buffer, accepted>>
    BY <1>6 DEF Deliver, TypeOK, Frames, InHand, Queued
  <2> HIDE DEF n
  <2>2. /\ DOMAIN delivered = 1 .. Len(delivered)
        /\ DOMAIN delivered' = 1 .. Len(delivered) + 1
        /\ Len(delivered) \in Nat
        /\ \A k \in 1 .. Len(delivered) : delivered'[k] = delivered[k]
        /\ delivered'[Len(delivered) + 1] = n
        /\ Shown' = Shown \cup {n}
    BY <2>1, ShownAppend
  <2>3. ASSUME NEW i \in DOMAIN delivered', NEW j \in DOMAIN delivered', i < j
        PROVE  delivered'[i] < delivered'[j]
    <3>1. i \in 1 .. Len(delivered) /\ delivered'[i] = delivered[i] /\ delivered[i] \in Shown
      BY <2>2, <2>3 DEF Shown
    <3>2. CASE j = Len(delivered) + 1
      BY <2>1, <2>2, <3>1, <3>2 DEF StreamInv, InOrder
    <3>3. CASE j \in 1 .. Len(delivered)
      BY <2>2, <2>3, <3>1, <3>3 DEF StreamInv, InOrder
    <3>4. QED BY <2>2, <3>2, <3>3
  <2>4. InOrder'
    BY <2>1, <2>2, <2>3 DEF StreamInv, InOrder
  <2>5. QED BY <2>1, <2>2, <2>4 DEF StreamInv
<1>7. CASE UNCHANGED vars
  BY <1>1, <1>7 DEF vars
<1>8. QED
  BY <1>2, <1>3, <1>4, <1>5, <1>6, <1>7 DEF Next, MainStep, WorkerStep

\* The frames reach the callback in the order in which they were parsed, each at
\* most once, in every session.
THEOREM DeliveryInOrder == Spec => []InOrder
<1>1. StreamInv => InOrder
  BY DEF StreamInv
<1>2. QED BY <1>1, StreamInit, StreamStep, TypeCorrect, PTL DEF Spec

\* If no instrument is configured with the sentinel's id, every frame that the
\* buffer took is delivered, in the worker's hand or queued, at every moment and
\* across any number of sessions.
THEOREM NoFrameLost ==
  ASSUME SentinelId \notin SensorIds
  PROVE  Spec => []NothingLost
<1> USE HubAssumption
<1>1. Init => NothingLost
  <2> SUFFICES ASSUME Init PROVE NothingLost
    OBVIOUS
  <2>1. DOMAIN buffer = {} /\ DOMAIN delivered = {}
    BY DEF Init
  <2>2. Shown = {} /\ InHand = {} /\ Queued = {}
    BY <2>1 DEF Init, Shown, InHand, Queued
  <2>3. QED BY <2>2 DEF Init, NothingLost
<1>2. TypeOK /\ SessionInv /\ NothingLost /\ [Next]_vars => NothingLost'
  <2> SUFFICES ASSUME TypeOK, SessionInv, NothingLost, [Next]_vars PROVE NothingLost'
    OBVIOUS
  <2>1. ASSUME UNCHANGED <<buffer, frame, delivered, accepted>>,
               (worker # "evaluate" /\ worker' # "evaluate") \/ worker' = worker
        PROVE  NothingLost'
    BY <2>1 DEF NothingLost, Shown, Queued, InHand
  <2>2. CASE Start \/ Stop \/ Join \/ Check
    BY <2>1, <2>2 DEF Start, Stop, Join, Check
  <2>3. CASE Spawn
    BY <2>1, <2>3 DEF Spawn, SessionInv
  <2>4. CASE PushSentinel
    <3>1. CASE Len(buffer) < Cap
      <4>1. buffer' = Append(buffer, Sentinel) /\ ~Real(Sentinel)
        BY <2>4, <3>1 DEF PushSentinel, TryPush, Real, Sentinel
      <4>2. Shown' = Shown /\ InHand' = InHand /\ UNCHANGED accepted
        BY <2>4 DEF PushSentinel, Shown, InHand
      <4>3. Queued' = Queued
        BY <4>1, QueuedAppend DEF TypeOK, FrameSeq
      <4>4. QED BY <4>2, <4>3 DEF NothingLost
    <3>2. CASE ~(Len(buffer) < Cap)
      BY <2>1, <2>4, <3>2 DEF PushSentinel, TryPush
    <3>3. QED BY <3>1, <3>2
  <2>5. CASE Ingest
    <3>1. PICK id \in SensorIds : TryPush([id |-> id, seq |-> parsed'])
      BY <2>5 DEF Ingest
    <3> DEFINE x == [id |-> id, seq |-> parsed']
    <3>2. x \in Frames /\ Real(x)
      BY <2>5 DEF Ingest, Frames, TypeOK, Real
    <3>3. Shown' = Shown /\ InHand' = InHand
      BY <2>5 DEF Ingest, Shown, InHand
    <3>4. CASE Len(buffer) < Cap
      <4>1. buffer' = Append(buffer, x) /\ accepted' = accepted \cup {x.seq}
        BY <2>5, <3>1, <3>4 DEF Ingest, TryPush
      <4> HIDE DEF x
      <4>2. Queued' = Queued \cup {x.seq}
        BY <3>2, <4>1, QueuedAppend DEF TypeOK, FrameSeq
      <4>3. QED BY <3>3, <4>1, <4>2 DEF NothingLost
    <3>5. CASE ~(Len(buffer) < Cap)
      BY <2>1, <2>5, <3>1, <3>5 DEF Ingest, TryPush
    <3>6. QED BY <3>4, <3>5
  <2>6. CASE Pop
    <3>1. /\ Head(buffer) \in Frames \cup {Sentinel}
          /\ Queued = Queued' \cup (IF Real(Head(buffer)) THEN {Head(buffer).seq} ELSE {})
      BY <2>6, QueuedTail DEF Pop, TypeOK, FrameSeq
    <3>2. Shown' = Shown /\ UNCHANGED accepted /\ InHand = {}
      BY <2>6 DEF Pop, Shown, InHand
    <3>3. InHand' = IF Real(Head(buffer)) THEN {Head(buffer).seq} ELSE {}
      BY <2>6, <3>1 DEF Pop, InHand, Real, Frames, Sentinel
    <3>4. QED BY <3>1, <3>2, <3>3 DEF NothingLost
  <2>7. CASE Deliver
    <3> DEFINE n == frame.seq
    <3>1. n \in 1 .. MaxFrames /\ delivered' = Append(delivered, n)
            /\ delivered \in Seq(1 .. MaxFrames) /\ InHand = {n} /\ InHand' = {}
            /\ Queued' = Queued /\ UNCHANGED accepted
      BY <2>7 DEF Deliver, TypeOK, Frames, InHand, Queued
    <3> HIDE DEF n
    <3>2. Shown' = Shown \cup {n}
      BY <3>1, ShownAppend
    <3>3. QED BY <3>1, <3>2 DEF NothingLost
  <2>8. CASE UNCHANGED vars
    BY <2>1, <2>8 DEF vars
  <2>9. QED
    BY <2>2, <2>3, <2>4, <2>5, <2>6, <2>7, <2>8 DEF Next, MainStep, WorkerStep
<1>3. QED BY <1>1, <1>2, TypeCorrect, SessionCorrect, PTL DEF Spec
==============================================================================
