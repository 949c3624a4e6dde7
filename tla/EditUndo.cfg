\* Undo and redo by derived inverses.
CONSTANTS
  None = None
  NodeIds = {a, b}
  EdgeIds = {e}
  Ports = {"port"}
  ParamNames = {"x"}
  Values = {"v", "bad"}
  Types <- MCTypes
  Accepts <- MCAccepts
  Graphs <- MCGraphs
  Mutations <- MCMutations

SPECIFICATION Spec

INVARIANTS
  TypeOK
  UndoRestores
  RedoRestores
  InverseApplies
  DeletionStopsAtGroups

\* An edit that cannot be undone, or is redone, ends the behaviour.
CHECK_DEADLOCK FALSE
