\* Two threads that serve one request after another for two sessions.  Their
\* gates have two ids between them, so that two sessions may each have a gate of
\* one id, and one session a gate of either.
CONSTANTS
  Threads = {t1, t2}
  Sessions = {s1, s2}
  GateIds = {g1, g2}
  MaxGates = 2
  None = None

SPECIFICATION Spec
SYMMETRY MCSymmetry
CONSTRAINT FewGates
INVARIANTS
  TypeOK
  ApprovalPaysOnce
  StandingGatesBlock
  ApprovalIsHonoured

\* Every session has been deleted.
CHECK_DEADLOCK FALSE
