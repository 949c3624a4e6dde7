\* Two turns, one after the other or while the first is still being stopped.
CONSTANTS
  Turns = {t1, t2}
  Backends = {claude}
  Personas = {}
  None = None
  LinesParse = FALSE
  Encodable = TRUE
  MaxNarration = 1

SPECIFICATION Spec
SYMMETRY MCSymmetry

INVARIANTS
  OneTurnRuns
  NoTurnIsStranded
  RunningTurnCanBeStopped
  StopIsObserved
  RegistersAreSettled

\* When every turn is over and the session is deleted nothing can happen.
CHECK_DEADLOCK FALSE
