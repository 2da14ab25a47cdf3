\* Requests of every kind, deaths and restarts, in a day of one minute.
CONSTANTS
  a = a
  b = b
  DaySecs = 3
  UIntMod = 16
  Malformed = Malformed
  Missing = Missing
  NonString = NonString
  NoSwid = NoSwid
  Switch = {a, b}
  RequestID = {}
  DefaultID = DefaultID
  NoID = NoID
  OnTexts = {1, 2, Missing}
  OffTexts = {0}
  SwidLists <- MCSwidLists
  Durations = {2}
  WriteFaults = {}
  MaxLag = 1
  ClockTargets = {0}
  MaxClockSets = 0
  Days <- MCDays
  MinuteSecs = 3
  StatusSecs = 2
SPECIFICATION FairSpec
INVARIANTS ListAnnounced
PROPERTIES PolicyKept InhibitSilencesSchedule SequenceRunsInFull SilenceReachesSwitches StatusCatchesUp
