\* Inhibits that reach midnight, no faults.
CONSTANTS
  DaySecs = 4
  UIntMod = 16
  Malformed = Malformed
  Durations <- MCLongDurations
  WriteFaults = {}
  MaxLag = 1
  ClockTargets = {}
  MaxClockSets = 0
SPECIFICATION FairSpec
PROPERTY InhibitEnds
