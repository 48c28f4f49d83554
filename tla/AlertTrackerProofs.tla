-------------------------- MODULE AlertTrackerProofs --------------------------
(* Theorems about AlertTracker for every set of sensors.                      *)
EXTENDS AlertTracker, TLAPS

\* Every variable of AlertTracker always holds a value of its type.
THEOREM TypeCorrect == Spec => []TypeOK
<1>1. Init => TypeOK
  BY DEF Init, TypeOK, ChannelState, Default, Levels
<1>2. TypeOK /\ [Next]_vars => TypeOK'
  <2> SUFFICES ASSUME TypeOK, [Next]_vars PROVE TypeOK'
    OBVIOUS
  <2>1. ASSUME NEW s \in Sensors, NEW l \in Levels, Call(s, l),
               states' \in [Sensors -> ChannelState],
               step' \in {"idle", "fill", "closed", "escalate"}
        PROVE  TypeOK'
    <3>1. input' \in [id : Sensors, level : Levels] /\ input'.id = s /\ s \in known'
            /\ input' # Nothing
      BY <2>1 DEF Call, Nothing
    <3>2. known' \subseteq Sensors /\ UNCHANGED <<told, fired>>
      BY <2>1 DEF Call, TypeOK
    <3>3. QED BY <2>1, <3>1, <3>2 DEF TypeOK
  <2>2. ASSUME NEW s \in Sensors, NEW l \in Levels, BeginOpen(s, l) PROVE TypeOK'
    <3>1. states' \in [Sensors -> ChannelState]
      BY <2>2 DEF BeginOpen, TypeOK, ChannelState
    <3>2. QED BY <2>1, <2>2, <3>1 DEF BeginOpen
  <2>3. ASSUME NEW s \in Sensors, NEW l \in Levels, BeginClose(s, l) PROVE TypeOK'
    <3>1. states' \in [Sensors -> ChannelState]
      BY <2>3 DEF BeginClose, TypeOK, ChannelState, Levels
    <3>2. QED BY <2>1, <2>3, <3>1 DEF BeginClose
  <2>4. ASSUME NEW s \in Sensors, NEW l \in Levels, BeginEscalate(s, l) PROVE TypeOK'
    BY <2>1, <2>4 DEF BeginEscalate, TypeOK
  <2>5. ASSUME NEW s \in Sensors, NEW l \in Levels, Stay(s, l) PROVE TypeOK'
    <3>1. step' = "idle"
      BY <2>5 DEF Stay, Call
    <3>2. QED BY <2>1, <2>5, <3>1 DEF Stay, TypeOK
  <2>6. ASSUME step # "idle"
        PROVE  /\ input \in [id : Sensors, level : Levels] /\ input.id \in Sensors
               /\ input.level \in Levels /\ states[input.id] \in ChannelState
    BY <2>6 DEF TypeOK
  <2>7. CASE Fill
    <3>1. states' \in [Sensors -> ChannelState]
      BY <2>6, <2>7 DEF Fill, TypeOK, ChannelState
    <3>2. QED BY <2>7, <3>1 DEF Fill, TypeOK
  <2>8. CASE Reopen
    <3>1. states' \in [Sensors -> ChannelState]
      BY <2>6, <2>8 DEF Reopen, TypeOK, ChannelState
    <3>2. QED BY <2>8, <3>1 DEF Reopen, TypeOK
  <2>9. ASSUME NEW kind \in {"opened", "closed"}, step # "idle"
        PROVE  Event(kind, input.id, states[input.id].current)
                 \in [kind : {"opened", "closed"}, id : Sensors, level : Levels]
    BY <2>6, <2>9 DEF Event, ChannelState
  <2>10. CASE FireOpened
    <3>1. told' \in [Sensors -> Levels]
      BY <2>6, <2>10 DEF FireOpened, TypeOK, ChannelState
    <3>2. QED BY <2>9, <2>10, <3>1 DEF FireOpened, TypeOK
  <2>11. CASE FireClosed
    <3>1. told' \in [Sensors -> Levels]
      BY <2>11 DEF FireClosed, TypeOK, Levels
    <3>2. QED BY <2>9, <2>11, <3>1 DEF FireClosed, TypeOK
  <2>12. CASE FireEscalated
    <3>1. told' \in [Sensors -> Levels]
      BY <2>12 DEF FireEscalated, TypeOK, Levels
    <3>2. QED BY <2>9, <2>12, <3>1 DEF FireEscalated, TypeOK
  <2>13. CASE UNCHANGED vars
    BY <2>13 DEF vars, TypeOK
  <2>14. QED
    BY <2>2, <2>3, <2>4, <2>5, <2>7, <2>8, <2>10, <2>11, <2>12, <2>13
       DEF Next, Process
<1>3. QED BY <1>1, <1>2, PTL DEF Spec

------------------------------------------------------------------------------
\* A channel and its listener agree.
Agrees(s) == /\ told[s] = states[s].level
             /\ states[s].isOpen <=> states[s].level # "Normal"
             /\ states[s].isOpen => s \in known /\ states[s].current = states[s].level

\* What Agreement is inside process(): every channel but the one in hand agrees,
\* and the one in hand is as far as the step says.
StepInv ==
  /\ \A s \in Sensors : step = "idle" \/ s # input.id => Agrees(s)
  /\ step = "idle" /\ input # Nothing => told[input.id] = input.level
  /\ step \in {"fill", "opened"} =>
       /\ told[input.id] = "Normal"
       /\ input.level # "Normal"
       /\ states[input.id].isOpen
       /\ states[input.id].level = input.level
  /\ step = "opened" => states[input.id].current = input.level
  /\ step = "closed" =>
       /\ told[input.id] = states[input.id].current /\ told[input.id] # "Normal"
       /\ input.level = "Normal"
       /\ ~states[input.id].isOpen
       /\ states[input.id].level = "Normal"
  /\ step = "escalate" =>
       /\ told[input.id] = states[input.id].current /\ told[input.id] # "Normal"
       /\ input.level # "Normal"
       /\ states[input.id].isOpen
  /\ step = "reopen" =>
       /\ told[input.id] = "Normal"
       /\ input.level # "Normal"
       /\ states[input.id].isOpen

\* StepInv holds at every step of process().
LEMMA StepCorrect == Spec => []StepInv
<1>1. Init => StepInv
  BY DEF Init, StepInv, Agrees, Default
<1>2. TypeOK /\ StepInv /\ [Next]_vars => StepInv'
  <2> SUFFICES ASSUME TypeOK, StepInv, [Next]_vars PROVE StepInv'
    OBVIOUS
  <2>1. ASSUME NEW s \in Sensors, NEW l \in Levels, Call(s, l)
        PROVE  /\ s \in known' /\ input'.id = s /\ input'.level = l
               /\ step = "idle" /\ UNCHANGED <<told, fired>> /\ known \subseteq known'
               /\ \A u \in Sensors : Agrees(u)
    BY <2>1 DEF Call, StepInv
  <2>2. ASSUME NEW s \in Sensors, NEW l \in Levels, BeginOpen(s, l) PROVE StepInv'
    <3>1. \A u \in Sensors \ {s} : states'[u] = states[u]
      BY <2>2 DEF BeginOpen, TypeOK
    <3>2. states'[s].isOpen /\ states'[s].level = l
      BY <2>2 DEF BeginOpen, TypeOK, ChannelState
    <3>3. QED BY <2>1, <2>2, <3>1, <3>2 DEF BeginOpen, StepInv, Agrees
  <2>3. ASSUME NEW s \in Sensors, NEW l \in Levels, BeginClose(s, l) PROVE StepInv'
    <3>1. \A u \in Sensors \ {s} : states'[u] = states[u]
      BY <2>3 DEF BeginClose, TypeOK
    <3>2. ~states'[s].isOpen /\ states'[s].level = "Normal"
            /\ states'[s].current = states[s].current
      BY <2>3 DEF BeginClose, TypeOK, ChannelState
    <3>3. QED BY <2>1, <2>3, <3>1, <3>2 DEF BeginClose, StepInv, Agrees
  <2>4. ASSUME NEW s \in Sensors, NEW l \in Levels, BeginEscalate(s, l) PROVE StepInv'
    BY <2>1, <2>4 DEF BeginEscalate, StepInv, Agrees
  <2>5. ASSUME NEW s \in Sensors, NEW l \in Levels, Stay(s, l) PROVE StepInv'
    BY <2>1, <2>5 DEF Stay, StepInv, Agrees
  <2>6. step # "idle" => input.id \in Sensors /\ states[input.id] \in ChannelState
                           /\ input.id \in known /\ input # Nothing
    BY DEF TypeOK, Nothing
  <2>7. CASE Fill
    <3>1. \A u \in Sensors \ {input.id} : states'[u] = states[u]
      BY <2>7 DEF Fill, TypeOK
    <3>2. /\ states'[input.id].isOpen = states[input.id].isOpen
          /\ states'[input.id].level = states[input.id].level
          /\ states'[input.id].current = input.level
      BY <2>6, <2>7 DEF Fill, TypeOK, ChannelState
    <3>3. QED BY <2>6, <2>7, <3>1, <3>2 DEF Fill, StepInv, Agrees
  <2>8. CASE Reopen
    <3>1. \A u \in Sensors \ {input.id} : states'[u] = states[u]
      BY <2>8 DEF Reopen, TypeOK
    <3>2. /\ states'[input.id].isOpen = states[input.id].isOpen
          /\ states'[input.id].level = input.level
          /\ states'[input.id].current = input.level
      BY <2>6, <2>8 DEF Reopen, TypeOK, ChannelState
    <3>3. QED BY <2>6, <2>8, <3>1, <3>2 DEF Reopen, StepInv, Agrees
  <2>9. CASE FireOpened
    <3>1. \A u \in Sensors \ {input.id} : told'[u] = told[u]
      BY <2>9 DEF FireOpened, TypeOK
    <3>2. told'[input.id] = input.level
      BY <2>6, <2>9 DEF FireOpened, TypeOK, StepInv
    <3>3. QED BY <2>6, <2>9, <3>1, <3>2 DEF FireOpened, StepInv, Agrees
  <2>10. CASE FireClosed
    <3>1. \A u \in Sensors \ {input.id} : told'[u] = told[u]
      BY <2>10 DEF FireClosed, TypeOK
    <3>2. told'[input.id] = "Normal"
      BY <2>6, <2>10 DEF FireClosed, TypeOK
    <3>3. QED BY <2>6, <2>10, <3>1, <3>2 DEF FireClosed, StepInv, Agrees
  <2>11. CASE FireEscalated
    <3>1. \A u \in Sensors \ {input.id} : told'[u] = told[u]
      BY <2>11 DEF FireEscalated, TypeOK
    <3>2. told'[input.id] = "Normal"
      BY <2>6, <2>11 DEF FireEscalated, TypeOK
    <3>3. QED BY <2>6, <2>11, <3>1, <3>2 DEF FireEscalated, StepInv, Agrees
  <2>12. CASE UNCHANGED vars
    BY <2>12 DEF vars, StepInv, Agrees
  <2>13. QED
    BY <2>2, <2>3, <2>4, <2>5, <2>7, <2>8, <2>9, <2>10, <2>11, <2>12
       DEF Next, Process
<1>3. QED BY <1>1, <1>2, TypeCorrect, PTL DEF Spec

\* Whenever process() is not running, what the listener knows is what isOpen()
\* and openEvents() report and what the last frame said.
THEOREM TrackerAgreement == Spec => []Agreement
<1>1. StepInv => Agreement
  BY DEF StepInv, Agreement, Agrees
<1>2. QED BY <1>1, StepCorrect, PTL

\* The callbacks of AlertTracker, for any frames in any order, are a behaviour
\* of AlertLifecycle: no alert is opened twice, none is closed that is not open,
\* and each is closed with the level it was opened with.
THEOREM ImplementsLifecycle == Spec => FollowsLifecycle
<1>1. Init => Lifecycle!Init
  BY DEF Init, Lifecycle!Init, Nothing, Lifecycle!Nothing
<1>2. TypeOK /\ StepInv /\ [Next]_vars => [Lifecycle!Next]_(Lifecycle!vars)
  <2> SUFFICES ASSUME TypeOK, StepInv, [Next]_vars
               PROVE  Lifecycle!Next \/ UNCHANGED Lifecycle!vars
    OBVIOUS
  <2>1. ASSUME NEW s \in Sensors, NEW l \in Levels, Process(s, l)
        PROVE  UNCHANGED Lifecycle!vars
    BY <2>1 DEF Process, BeginOpen, BeginClose, BeginEscalate, Stay, Call, Lifecycle!vars
  <2>2. step # "idle" => input.id \in Sensors /\ input.level \in Levels
    BY DEF TypeOK
  <2>3. CASE Fill \/ Reopen
    BY <2>3 DEF Fill, Reopen, Lifecycle!vars
  <2>4. CASE FireOpened
    <3>1. Lifecycle!Open(input.id, input.level) /\ input.level \in Lifecycle!Alerts
      BY <2>2, <2>4 DEF FireOpened, StepInv, Event, Lifecycle!Open, Lifecycle!Alerts,
                        Lifecycle!Levels, Levels
    <3>2. QED BY <2>2, <2>4, <3>1 DEF FireOpened, Lifecycle!Next
  <2>5. CASE FireClosed \/ FireEscalated
    <3>1. Lifecycle!Close(input.id) /\ step # "idle"
      BY <2>5 DEF FireClosed, FireEscalated, StepInv, Event, Lifecycle!Close
    <3>2. QED BY <2>2, <3>1 DEF Lifecycle!Next
  <2>6. CASE UNCHANGED vars
    BY <2>6 DEF vars, Lifecycle!vars
  <2>7. QED
    BY <2>1, <2>3, <2>4, <2>5, <2>6 DEF Next
<1>3. QED BY <1>1, <1>2, TypeCorrect, StepCorrect, PTL
          DEF Spec, FollowsLifecycle, Lifecycle!Spec
==============================================================================
