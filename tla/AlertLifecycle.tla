---------------------------- MODULE AlertLifecycle ----------------------------
(***************************************************************************)
(* What AlertTracker promises to whoever listens to its callbacks (README,  *)
(* "Single-event alert lifecycle"): a channel that is Normal can only open  *)
(* an alert, a channel in alert can only close the alert that is open, with *)
(* the level it was opened with.                                            *)
(***************************************************************************)
CONSTANT Sensors

VARIABLES told,   \* told[s]: the level of the alert the listener knows, or Normal
          fired   \* the last callback

vars == <<told, fired>>

Levels == {"Normal", "Warning", "Critical"}
Alerts == Levels \ {"Normal"}

Nothing == [kind |-> "none"]

Init == /\ told = [s \in Sensors |-> "Normal"]
        /\ fired = Nothing

Open(s, l) == /\ told[s] = "Normal"
              /\ told' = [told EXCEPT ![s] = l]
              /\ fired' = [kind |-> "opened", id |-> s, level |-> l]

Close(s) == /\ told[s] # "Normal"
            /\ told' = [told EXCEPT ![s] = "Normal"]
            /\ fired' = [kind |-> "closed", id |-> s, level |-> told[s]]

Next == \E s \in Sensors : Close(s) \/ \E l \in Alerts : Open(s, l)

Spec == Init /\ [][Next]_vars
==============================================================================
