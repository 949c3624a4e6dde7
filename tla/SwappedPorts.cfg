\* The two wires from one source to one node are swapped between two runs.
CONSTANTS
  Runs = {r1, r2}
  NodeIds = {1, 2, 3}
  InPorts = {left, right}
  OutPorts = {p, q}
  Unsaid = unsaid
  Configs <- MCConfigs
  Cacheable <- MCCacheable
  Outs <- MCOuts
  Requests <- SwappedRequests
  None = None
  load1 = load1
  load2 = load2
  ask = ask
  fit = fit
  join = join
  left = left
  right = right
  p = p
  q = q

SPECIFICATION Spec
INVARIANTS
  CachedIsFresh

\* Every request has been served.
CHECK_DEADLOCK FALSE
