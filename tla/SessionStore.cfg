\* One session, two proposals, one watcher that comes and goes.
CONSTANTS
  a = a
  b = b
  e = e
  NodeIds = {a, b}
  EdgeIds = {e}
  None = None
  Ports = {"in", "out"}
  ParamNames = {"x"}
  Values = {0, 1}
  Types <- MCTypes
  Accepts <- MCAccepts
  Sessions = {s1}
  ProposalIds = {p1, p2}
  Queues = {q1}
  Graphs <- MCGraphs
  Mutations <- MCMutations
  Authors = {"agent"}
  BadAuthor = BadAuthor
  MaxVersion = 3

SPECIFICATION Spec
SYMMETRY MCSymmetry

INVARIANTS
  TypeOK
  StreamIsGapless
  EventsAreTrue
  LogReplays
  AcceptedProposalsAreInTheLog
  DiagnosticsStayTrue

PROPERTY RecordsAreKept

\* Once every session is deleted and every queue closed nothing can happen.
CHECK_DEADLOCK FALSE
