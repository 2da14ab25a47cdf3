---------------------------- MODULE SequenceOnce ----------------------------
(***************************************************************************)
(* SequenceQueue with the age of the queued sequence, the seconds since it *)
(* was accepted, up to a whole day.  The clock is never set here           *)
(* (ClockTargets is empty), so a new time of day is a second that passed.  *)
(***************************************************************************)
EXTENDS MCSequenceQueue

VARIABLE age

OnceInit == Init /\ age = 0

OnceNext ==
  /\ Next
  /\ age' = IF actionList' = <<>> THEN 0
            ELSE IF now' # now /\ age < DaySecs THEN age + 1 ELSE age

OnceSpec == OnceInit /\ [][OnceNext]_<<vars, age>>

\* "Add a one time sequence of switch actions" (HNSwitchDaemon.h): no poll
\* turns a switch on for a sequence accepted a whole day ago.
OneTime == lag = 0 /\ swOn # {} => age < DaySecs
=============================================================================
