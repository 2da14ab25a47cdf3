--------------------------- MODULE MCSwitchDaemon ---------------------------
(* Constants of the run of SwitchDaemon. *)
EXTENDS SwitchDaemon

CONSTANTS a, b

Act(s, e, id) == [start |-> s, end |-> e, swid |-> id]

\* A day with overlapping actions, one of them into midnight, and a free one.
MCDays == {<<Act(0, 2, a), Act(1, DaySecs, b)>>, <<>>}
MCSwidLists == {<<a, b>>}
=============================================================================
