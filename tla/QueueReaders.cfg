\* An agent that asks for one of two proposals, and a stream of three events.
CONSTANTS
  Agents = {a1}
  Proposals = {p1, p2}
  Noise = noise
  Failure = failure
  MaxEvents = 3
  Nothing = Nothing

SPECIFICATION FairReadersSpec
INVARIANTS
  NoVerdictIsMissed
  StreamIsWhole
PROPERTIES
  PoolThreadsReturn

\* Everyone has been answered and has gone.
CHECK_DEADLOCK FALSE
