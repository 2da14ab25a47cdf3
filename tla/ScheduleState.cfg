\* All faults, one clock change.
CONSTANTS
  DaySecs = 6
  UIntMod = 16
  Malformed = Malformed
  Durations <- MCDurations
  WriteFaults = {"refused", "short"}
  MaxLag = 2
  ClockTargets <- MCClockTargets
  MaxClockSets = 1
SPECIFICATION FairSpec
INVARIANTS TypeOK CommandSurvives
PROPERTIES InhibitHolds InhibitExpires
