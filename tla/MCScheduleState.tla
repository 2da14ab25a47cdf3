-------------------------- MODULE MCScheduleState --------------------------
(* Constants of the runs of ScheduleState. *)
EXTENDS ScheduleState

MCDurations == {0, 2, Malformed}
MCLongDurations == {1, DaySecs - 1}
MCClockTargets == {0, DaySecs - 1}
=============================================================================
