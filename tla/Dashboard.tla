------------------------------ MODULE Dashboard ------------------------------
(***************************************************************************)
(* monitor/src/SensorModel.cpp: the channel table (SensorModel) and the     *)
(* event log (EventLogModel) behind the user interface.  Both live on the   *)
(* Qt main thread, and both find what they change by the display name of    *)
(* the sensor, which sensors.json need not make unique.                     *)
(*                                                                         *)
(* setConfigs() makes one row per id, in the order of the ids, and the      *)
(* parser gives frames of configured ids only: no row is ever appended, a   *)
(* row keeps its name, and rows can be numbered by the ids.                 *)
(***************************************************************************)
EXTENDS Naturals, Sequences, FiniteSets

CONSTANTS Sensors,    \* the ids of sensors.json
          MaxEvents   \* kMaxEvents

VARIABLES config,         \* m_configs: the display name of each id
          rows,           \* m_rows
          criticalCount, warningCount,
          entries         \* m_entries, newest first

Levels == {"Normal", "Warning", "Critical"}

\* A row shows a level, and the unit and limits of the sensor "of".
Row   == [level : Levels, of : Sensors, hasData : BOOLEAN]
Entry == [name : {config[s] : s \in Sensors}, level : Levels, active : BOOLEAN]

SetConfigs(c) ==
  /\ config = c
  /\ rows = [r \in Sensors |-> [level |-> "Normal", of |-> r, hasData |-> FALSE]]

Init == /\ criticalCount = 0 /\ warningCount = 0
        /\ entries = <<>>

\* The first row that has the name of s.
RowOf(s) == CHOOSE r \in Sensors : /\ config[r] = config[s]
                                   /\ \A q \in Sensors : config[q] = config[s] => r <= q

At(l, table) == Cardinality({r \in Sensors : table[r].level = l})

\* (Mutant of RecomputeAlertCounts: the counts are taken before the row changes.)
RecomputeEarly == /\ criticalCount' = At("Critical", rows)
                  /\ warningCount'  = At("Warning", rows)

RecomputeAlertCounts == /\ criticalCount' = At("Critical", rows')
                        /\ warningCount'  = At("Warning", rows')

\* pushFrameOnMainThread(): the whole row is replaced.
PushFrame(s, l) ==
  /\ rows' = [rows EXCEPT ![RowOf(s)] = [level |-> l, of |-> s, hasData |-> TRUE]]
  /\ RecomputeAlertCounts
  /\ UNCHANGED <<config, entries>>

Newest(s, l) == <<[name |-> config[s], level |-> l, active |-> TRUE]>> \o entries

\* (Mutant of OnAlertOpened: the list is not cut.)
OnAlertOpenedUncut(s, l) == /\ entries' = Newest(s, l)
                            /\ UNCHANGED <<config, rows, criticalCount, warningCount>>

\* onAlertOpened(): the new entry goes to the front, and the list is cut.
OnAlertOpened(s, l) ==
  /\ entries' = IF Len(entries) < MaxEvents THEN Newest(s, l)
                                            ELSE SubSeq(Newest(s, l), 1, MaxEvents)
  /\ UNCHANGED <<config, rows, criticalCount, warningCount>>

Active(n) == {k \in DOMAIN entries : entries[k].active /\ entries[k].name = n}

Closed(k) == [entries EXCEPT ![k].active = FALSE]

\* (Mutant of OnAlertClosed: the first ACTIVE entry, whatever its name.)
OnAlertClosedAny(s) ==
  /\ LET found == UNION {Active(config[q]) : q \in Sensors}
     IN  IF found = {} THEN UNCHANGED entries
         ELSE entries' = Closed(CHOOSE k \in found : \A j \in found : k <= j)
  /\ UNCHANGED <<config, rows, criticalCount, warningCount>>

\* onAlertClosed(): the first ACTIVE entry of that name, if there is one.
OnAlertClosed(s) ==
  /\ LET found == Active(config[s])
     IN  IF found = {} THEN UNCHANGED entries
         ELSE entries' = Closed(CHOOSE k \in found : \A j \in found : k <= j)
  /\ UNCHANGED <<config, rows, criticalCount, warningCount>>
==============================================================================
