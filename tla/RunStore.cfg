\* Two threads, two run ids that may be drawn again, a cap of one.
CONSTANTS
  Threads = {t1, t2}
  RunIds = {1, 2}
  Keep = 1
  None = None

SPECIFICATION FairSpec
INVARIANTS
  RunsAreWhole
  NamedRunsWereSaved
PROPERTIES
  ImplementsHistory
  SavesEnd
