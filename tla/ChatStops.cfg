\* One turn whose process may ignore SIGTERM, with any message and persona, fairly
\* scheduled.
CONSTANTS
  Turns = {t1}
  Backends = {claude, codex}
  Personas = {researcher}
  None = None
  LinesParse = FALSE
  Encodable = FALSE
  MaxNarration = 2

SPECIFICATION FairSpec

PROPERTIES
  VerdictIsFinal
  StopEndsProcess
  TurnsSettle

\* When the turn is over and the session is deleted nothing can happen.
CHECK_DEADLOCK FALSE
