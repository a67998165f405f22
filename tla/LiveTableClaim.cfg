CONSTANTS
  c1 = c1
  c2 = c2
  Conn = {c1, c2}
  MaxSessions = 2
  MaxMoves = 2
  MaxRecords = 1
  MaxFaults = 0
CHECK_DEADLOCK FALSE
SPECIFICATION Spec
INVARIANT OneDriver
