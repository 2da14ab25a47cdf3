\* Requests of every shape, and a clock that is set once.
CONSTANTS
  a = a
  b = b
  r1 = r1
  DaySecs = 10
  UIntMod = 32
  Malformed = Malformed
  Missing = Missing
  NoID = NoID
  DefaultID = DefaultID
  Switch = {a, b}
  RequestID = {r1}
  OnTexts <- MCOn
  OffTexts <- MCOff
  SwidLists <- MCSwidLists
  MaxLag = 2
  MaxClockSets = 1
  ClockTargets <- MCClockTargets
SPECIFICATION FairSpec
INVARIANTS TypeOK ActiveHasID OneAtATime GapKept
PROPERTIES ConsumedInOrder PollReportsDue NoSwitchSkipped SequenceEndsOnTime SequenceCompletes
