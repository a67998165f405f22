\* Two connections, of which each may close while the other takes over, and one
\* statement that fails.  The model stops when the tournaments it may start are
\* used up.
CONSTANTS
  c1 = c1
  c2 = c2
  Conn = {c1, c2}
  MaxSessions = 2
  MaxMoves = 2
  MaxRecords = 1
  MaxFaults = 1
SYMMETRY AnyConnection
CHECK_DEADLOCK FALSE
SPECIFICATION MCSpec
INVARIANTS
  NoTableIsLocked
  SnapshotsStayInTheirTournament
  DecisionsAreRecorded
  NothingIsUndone
  NoTournamentIsOrphaned
PROPERTY OutcomeWrittenOnce
