----------------------------- MODULE AlertTracker -----------------------------
(***************************************************************************)
(* core/src/AlertTracker.cpp.  process() runs on the worker thread and is   *)
(* not protected by a lock, while openEvents() is called by the main thread *)
(* (monitor/src/main.cpp:117), so process() is split where the other thread *)
(* can look in: between the write of isOpen and the writes of current, and  *)
(* around every callback.  An event is its sensor and its level; values,    *)
(* times and texts go with them and no branch depends on them.              *)
(***************************************************************************)
CONSTANT Sensors      \* the ids of the frames that are processed

VARIABLES known,      \* the keys of m_states
          states,     \* m_states; a key that is absent has the default ChannelState
          step,       \* where process() is
          input,      \* the arguments of the last call of process()
          told,       \* history: the alert the listener knows of
          fired       \* history: the last callback

vars == <<known, states, step, input, told, fired>>

Levels == {"Normal", "Warning", "Critical"}
Alerts == Levels \ {"Normal"}

ChannelState == [level : Levels, isOpen : BOOLEAN, current : Levels]
Default      == [level |-> "Normal", isOpen |-> FALSE, current |-> "Normal"]
Nothing      == [kind |-> "none"]
Event(kind, s, l) == [kind |-> kind, id |-> s, level |-> l]

TypeOK ==
  /\ known \subseteq Sensors
  /\ states \in [Sensors -> ChannelState]
  /\ step \in {"idle", "fill", "opened", "closed", "escalate", "reopen"}
  /\ input \in [id : Sensors, level : Levels] \cup {Nothing}
  /\ step # "idle" => input # Nothing /\ input.id \in known
  /\ told \in [Sensors -> Levels]
  /\ fired \in [kind : {"opened", "closed"}, id : Sensors, level : Levels] \cup {Nothing}

Init == /\ known = {}
        /\ states = [s \in Sensors |-> Default]
        /\ step = "idle"
        /\ input = Nothing
        /\ told = [s \in Sensors |-> "Normal"]
        /\ fired = Nothing

\* (Mutant of Call: the channel is looked up but not inserted.)
CallNoInsert(s, l) == /\ step = "idle"
                      /\ input' = [id |-> s, level |-> l]
                      /\ UNCHANGED <<known, told, fired>>

\* process() is called: it finds or inserts the channel, and takes a branch.
Call(s, l) == /\ step = "idle"
              /\ input' = [id |-> s, level |-> l]
              /\ known' = known \cup {s}
              /\ UNCHANGED <<told, fired>>

\* Normal to alert: isOpen and level are written; current is not yet.
BeginOpen(s, l) == /\ Call(s, l)
                   /\ states[s].level = "Normal" /\ l # "Normal"
                   /\ states' = [states EXCEPT ![s].isOpen = TRUE, ![s].level = l]
                   /\ step' = "fill"

\* Alert to Normal.
BeginClose(s, l) == /\ Call(s, l)
                    /\ states[s].level # "Normal" /\ l = "Normal"
                    /\ states' = [states EXCEPT ![s].isOpen = FALSE, ![s].level = "Normal"]
                    /\ step' = "closed"

\* From one alert level to the other: a copy of current is closed first.
BeginEscalate(s, l) == /\ Call(s, l)
                       /\ states[s].level # "Normal" /\ l # "Normal"
                       /\ states[s].level # l
                       /\ step' = "escalate"
                       /\ UNCHANGED states

\* No transition, no callback.
Stay(s, l) == /\ Call(s, l)
              /\ states[s].level = l
              /\ UNCHANGED <<states, step>>

Process(s, l) == BeginOpen(s, l) \/ BeginClose(s, l) \/ BeginEscalate(s, l) \/ Stay(s, l)

\* (Mutant of Reopen: the event keeps the level of the last alert.)
ReopenLevelOnly == /\ step = "reopen"
                   /\ states' = [states EXCEPT ![input.id].level = input.level]
                   /\ step' = "opened"
                   /\ UNCHANGED <<known, input, told, fired>>

\* The fields of current are written.
Fill == /\ step = "fill"
        /\ states' = [states EXCEPT ![input.id].current = input.level]
        /\ step' = "opened"
        /\ UNCHANGED <<known, input, told, fired>>

\* m_onOpened(state.current)
FireOpened == /\ step = "opened"
              /\ fired' = Event("opened", input.id, states[input.id].current)
              /\ told' = [told EXCEPT ![input.id] = states[input.id].current]
              /\ step' = "idle"
              /\ UNCHANGED <<known, states, input>>

\* m_onClosed(state.current)
FireClosed == /\ step = "closed"
              /\ fired' = Event("closed", input.id, states[input.id].current)
              /\ told' = [told EXCEPT ![input.id] = "Normal"]
              /\ step' = "idle"
              /\ UNCHANGED <<known, states, input>>

\* (Mutant of FireEscalated: an escalation only reports the new level.)
SkipEscalated == /\ step = "escalate"
                 /\ step' = "reopen"
                 /\ UNCHANGED <<known, states, input, told, fired>>

\* m_onClosed(escalated), with the level before the escalation.
FireEscalated == /\ step = "escalate"
                 /\ fired' = Event("closed", input.id, states[input.id].current)
                 /\ told' = [told EXCEPT ![input.id] = "Normal"]
                 /\ step' = "reopen"
                 /\ UNCHANGED <<known, states, input>>

\* The channel takes the new level.
Reopen == /\ step = "reopen"
          /\ states' = [states EXCEPT ![input.id].current = input.level,
                                      ![input.id].level = input.level]
          /\ step' = "opened"
          /\ UNCHANGED <<known, input, told, fired>>

Next == \/ \E s \in Sensors, l \in Levels : Process(s, l)
        \/ Fill \/ FireOpened \/ FireClosed \/ FireEscalated \/ Reopen

Spec == Init /\ [][Next]_vars

------------------------------------------------------------------------------
\* Between two calls of process() the tracker, its listener and the last frame
\* agree: the listener knows exactly the alerts that isOpen() and openEvents()
\* report, with their levels, and the channel of the last frame is at its level.
Agreement ==
  step = "idle" =>
    /\ \A s \in Sensors :
         /\ told[s] = states[s].level
         /\ states[s].isOpen <=> states[s].level # "Normal"
         /\ states[s].isOpen => s \in known /\ states[s].current = states[s].level
    /\ input # Nothing => told[input.id] = input.level

\* The callbacks follow the alert lifecycle: in particular an escalation, in
\* either direction, closes the alert with its old level before it opens one.
Lifecycle == INSTANCE AlertLifecycle
FollowsLifecycle == Lifecycle!Spec
==============================================================================
