---------------------------- MODULE SwitchPolicy ----------------------------
(***************************************************************************)
(* What the switch daemon promises about the switches it turns on, leaving *)
(* out times, durations, IDs and files.  At any moment one driver is in    *)
(* charge: a client's sequence, the schedule, or nobody.  The list of      *)
(* switches changes only at a turn of the event loop, to something the     *)
(* driver in charge may ask for.                                           *)
(***************************************************************************)
CONSTANTS Switch,        \* switch IDs
          ScheduledSets  \* the sets of switches the schedule may have due

VARIABLES driver, swOn

Driver == {"sequence", "schedule", "nobody"}

\* A sequence has one switch on at a time.
MayTurnOn(who) ==
  CASE who = "sequence" -> {{}} \cup {{sw} : sw \in Switch}
    [] who = "schedule" -> ScheduledSets
    [] who = "nobody" -> {{}}

Init == driver \in Driver /\ swOn = {}

\* A client's request puts another driver in charge.  It turns nothing on or
\* off itself, and a sequence that runs is not replaced but cancelled.
Request ==
  /\ driver' \in Driver
  /\ UNCHANGED swOn

\* The driver in charge has its way, and stays in charge.
Turn ==
  /\ swOn' \in MayTurnOn(driver)
  /\ UNCHANGED driver

\* The sequence in charge is over.  The driver after it waits for the next
\* turn: the switches of the two are never on together.
SequenceEnds ==
  /\ driver = "sequence"
  /\ driver' \in {"schedule", "nobody"}
  /\ swOn' = {}

\* The time the schedule was inhibited for is over, and it takes its turn.
InhibitEnds ==
  /\ driver = "nobody"
  /\ driver' = "schedule"
  /\ swOn' \in MayTurnOn("schedule")

\* The daemon stops, or starts.
Restart ==
  /\ driver' \in {"schedule", "nobody"}
  /\ swOn' = {}

Next == Request \/ Turn \/ SequenceEnds \/ InhibitEnds \/ Restart

Spec == Init /\ [][Next]_<<driver, swOn>>
=============================================================================
