\* Sequences that run into midnight.
CONSTANTS
  a = a
  b = b
  r1 = r1
  DaySecs = 6
  UIntMod = 32
  Malformed = Malformed
  Missing = Missing
  NoID = NoID
  DefaultID = DefaultID
  Switch = {a, b}
  RequestID = {r1}
  OnTexts <- MCOnLong
  OffTexts <- MCOffLong
  SwidLists <- MCShortLists
  MaxLag = 1
  ClockTargets = {}
  MaxClockSets = 0
SPECIFICATION OnceSpec
INVARIANT OneTime
