\* Two clients, the second a monitor, two events at a time, room for one packet in a client's socket.
CONSTANTS
  c1 = c1
  c2 = c2
  NoClient = NoClient
  Client = {c1, c2}
  Monitors = {c2}
  Fd = {7, 8}
  AcceptFD = 5
  StatusFD = 4
  Kinds = {"status", "seqadd"}
  MaxEvents = 2
  MaxQueued = 1
SPECIFICATION FairSpec
INVARIANTS TypeOK EventsReachOwner NoLostWakeup
PROPERTIES ServiceKept RequestHandled LoopReturns
