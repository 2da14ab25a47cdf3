\* Every transfer may fail at any time, and the daemon may be restarted at any time.
SPECIFICATION FairSpec
CONSTANTS
  d1 = d1
  d2 = d2
  noDevice = noDevice
  chip1 = chip1
  chip2 = chip2
  pump = pump
  lamp = lamp
  valve = valve
  badPin = badPin
  orphan = orphan
  Empty = Empty
  NoNumber = NoNumber
  NoDocument = NoDocument
  DevID = {d1, d2, noDevice, Empty}
  Chip = {chip1, chip2}
  Name = {pump, lamp, valve, badPin, orphan, Empty}
  LastPin = 1
  Config <- MCConfig
  OnLists <- MCOnLists
INVARIANTS TypeOK HealthyMatchesList HealthyStartsOff OverallMeansDriven
PROPERTIES RaisesOnlyListed FaultsClear OverallRecovers
