-------------------------- MODULE MCSequenceQueue --------------------------
(* Constants of the runs of SequenceQueue. *)
EXTENDS SequenceQueue

CONSTANTS a, b, r1

\* One to three switches, a repeated switch among them, or no list at all.
MCSwidLists == {<<>>, <<a>>, <<a, b>>, <<b, a, b>>}
MCShortLists == {<<>>, <<a>>, <<a, b>>}
MCOn == {1, 3, Missing}
MCOff == {0, 2, Missing}
MCOnLong == {2, 3}
MCOffLong == {0, 1, 2}
MCClockTargets == {0, 3, DaySecs - 1}
=============================================================================
