\* Every kind of document and every fault.
CONSTANTS
  a = a
  b = b
  crc1 = crc1
  crc2 = crc2
  DaySecs = 4
  UIntMod = 6
  Malformed = Malformed
  Missing = Missing
  NonString = NonString
  NoSwid = NoSwid
  Switch = {a, b}
  Weekday = {0, 1}
  Doc <- MCDoc
  NoMatrix = NoMatrix
  NoCRC = NoCRC
  NoDoc = NoDoc
  NoStatus = NoStatus
  Torn = Torn
  Absent = Absent
  InstanceDir = TRUE
  WriteFaults = {"refused", "short"}
  ReadFaults = {"unreadable"}
SPECIFICATION Spec
INVARIANTS TypeOK MatrixIsFile QueryReportsFile ChangeIsSeen
