\* Two clients that read with GET, and a tool that reads in two steps.
CONSTANTS
  Threads = {t1, t2, t3}
  Tools = {t3}
  NoThread = NoThread
  MaxVersion = 4

SPECIFICATION FairSpec
PROPERTIES
  ImplementsDocument
  LockIsFreed

\* At the bound on versions no operation begins any more.
CHECK_DEADLOCK FALSE
