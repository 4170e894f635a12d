---------------------------- MODULE MC_AlarmFlow ----------------------------
(* Small instances of AlarmFlow: a machine that is watched and sends no     *)
(* alarms, and one that sends alarms, up to one in a window, cannot list     *)
(* what is set and cannot be asked for its last event.                      *)
EXTENDS AlarmFlow

CONSTANTS door, pump

Watched == [sv |-> TRUE,  spool |-> TRUE,  alarms |-> FALSE, limit |-> 0, known |-> TRUE,
            connects |-> 2, switches |-> 1]
Stormy  == [sv |-> FALSE, spool |-> FALSE, alarms |-> TRUE,  limit |-> 1, known |-> FALSE,
            connects |-> 1, switches |-> 0]

SomeMachines == {Watched, Stormy}
WatchedOnly  == {Watched}
=============================================================================
