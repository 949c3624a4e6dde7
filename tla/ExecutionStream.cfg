\* Two requests for a graph, one of its edits or a part of it, one after the
\* other or at once; sources have two OUT ports.
CONSTANTS
  Runs = {r1, r2}
  NodeIds = {1, 2, 3}
  InPorts = {left}
  OutPorts = {p, q}
  Unsaid = unsaid
  Configs <- MCConfigs
  Cacheable <- MCCacheable
  Outs <- MCOuts
  Requests <- MCRequests
  None = None
  load1 = load1
  load2 = load2
  ask = ask
  fit = fit
  join = join
  left = left
  right = right
  p = p
  q = q

SPECIFICATION FairSpec
INVARIANTS
  CachedIsFresh
PROPERTIES
  ImplementsEvaluation
  RunsComplete

\* Every request has been served.
CHECK_DEADLOCK FALSE
