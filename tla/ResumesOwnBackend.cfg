\* A chat that is stopped, ended and begun again with another backend.
CONSTANTS
  Turns = {t1, t2}
  Backends = {claude, codex}
  Personas = {}
  None = None
  LinesParse = TRUE
  Encodable = TRUE
  MaxNarration = 1

SPECIFICATION Spec

INVARIANT ResumesOwnBackend

CHECK_DEADLOCK FALSE
