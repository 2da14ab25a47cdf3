\* What the last comment of mcp23008Init says of a device reported OK.
SPECIFICATION Spec
CONSTANTS
  d1 = d1
  d2 = d2
  noDevice = noDevice
  chip1 = chip1
  chip2 = chip2
  pump = pump
  lamp = lamp
  valve = valve
  badPin = badPin
  orphan = orphan
  Empty = Empty
  NoNumber = NoNumber
  NoDocument = NoDocument
  DevID = {d1, d2, noDevice, Empty}
  Chip = {chip1, chip2}
  Name = {pump, lamp, valve, badPin, orphan, Empty}
  LastPin = 1
  Config <- MCConfig
  OnLists <- MCOnLists
INVARIANTS HealthyMeansDriving
