----------------------------- MODULE HNSAction -----------------------------
(***************************************************************************)
(* HNSAction (HNScheduleMatrix.cpp): a switch is to be on from start until *)
(* just before end.  The only kind of action is HNS_ACT_SWON.              *)
(***************************************************************************)
EXTENDS HNS24HTime

CONSTANT Switch        \* switch IDs

StartIsBefore(act, t) == act.start <= t

StartIsAfter(act, t) == act.start > t

EndIsAfter(act, t) == t < act.end

Active(act, t) == StartIsBefore(act, t) /\ EndIsAfter(act, t)

\* sortCompare
SortCompare(first, second) == first.start < second.start
=============================================================================
