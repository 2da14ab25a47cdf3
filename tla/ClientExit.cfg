\* Two clients, the second a monitor, and every kind of request.
CONSTANTS
  c1 = c1
  c2 = c2
  NoClient = NoClient
  Client = {c1, c2}
  Monitors = {c2}
  Fd = {7, 8}
  AcceptFD = 5
  StatusFD = 4
  Kinds = {"status", "health", "seqadd", "cancel", "schstate"}
  MaxEvents = 2
  MaxQueued = 1
SPECIFICATION Spec
INVARIANTS ExitsOnExpected
