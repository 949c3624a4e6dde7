------------------------------- MODULE EditUndo -------------------------------
(***************************************************************************)
(* One edit of a graph, undone and redone by the inverses the code derives *)
(* (mutation.py), from any graph and with any mutation of a bounded domain.*)
(* The tests of mutation.py try four hand-written round trips; here every  *)
(* combination of replaced nodes, moved edges, groups and parameter        *)
(* updates is tried.                                                       *)
(***************************************************************************)
EXTENDS GraphMutation

CONSTANTS Graphs, Mutations  \* the graphs to start from and the mutations to try

ASSUME GraphsAssumption == \A g \in Graphs : g \in Graph /\ StructurallyValid(g)
ASSUME MutationsAssumption == Mutations \subseteq GraphMutation

VARIABLES
  origin,    \* the graph the edit was computed against and applied to
  graph,     \* the graph now
  mutation,  \* the edit
  phase      \* "fresh", "edited", "undone" or "redone"

vars == <<origin, graph, mutation, phase>>

Undoing == InvertMutation(origin, mutation)

Init == /\ origin \in Graphs
        /\ graph = origin
        /\ mutation = NoChange
        /\ phase = "fresh"

\* Any mutation that applies, the delete_node tool's included.
Edit == /\ phase = "fresh"
        /\ \E m \in Mutations \cup {DeleteNodeMutation(graph, n) : n \in Keys(graph.nodes)} :
             /\ CanApply(graph, m)
             /\ mutation' = m
             /\ graph' = ApplyMutation(graph, m)
        /\ phase' = "edited"
        /\ UNCHANGED origin

Undo == /\ phase = "edited"
        /\ CanInvert(origin, mutation)
        /\ CanApply(graph, Undoing)
        /\ graph' = ApplyMutation(graph, Undoing)
        /\ phase' = "undone"
        /\ UNCHANGED <<origin, mutation>>

\* The inverse of the inverse, derived from the edited graph.
Redo == LET edited == ApplyMutation(origin, mutation)
            again  == InvertMutation(edited, Undoing)
        IN /\ phase = "undone"
           /\ CanInvert(edited, Undoing)
           /\ CanApply(graph, again)
           /\ graph' = ApplyMutation(graph, again)
           /\ phase' = "redone"
           /\ UNCHANGED <<origin, mutation>>

Next == Edit \/ Undo \/ Redo

Spec == Init /\ [][Next]_vars

----------------------------------------------------------------------------
\* A graph all of whose nodes satisfy their type's contract.  The structural
\* validator does not ask for it: a graph may be stored without it.
ContractClean(g) == \A n \in Keys(g.nodes) : ContractHolds(g.nodes[n])

\* g with the nodes at the default position cascaded if they are in S.
WithCascaded(g, S) == [g EXCEPT !.nodes = Update(@, Cascaded(Only(@, S)))]

\* Undoing an edit restores every node, edge, group and parameter, also when
\* the edit replaced a node under the same id and updated it in the same batch;
\* only a removed node that stood at the default position may come back
\* elsewhere (invert_mutation's docstring, mutation.py:224-225, says equivalent
\* without this proviso: adding it back takes (0, 0) for unset, and cascades it).
UndoRestores ==
  phase = "undone" => graph = WithCascaded(origin, mutation.removeNodes)

\* Undoing the undo gives back the edited graph: a revert can be reverted.
RedoRestores == phase = "redone" => graph = ApplyMutation(origin, mutation)

\* An inverse that can be derived can be applied (no removal finds its target
\* missing, no addition collides, no edge dangles, no restored value is refused
\* by the contract), provided the original graph kept its contracts; and it can
\* in turn be inverted, so undo and redo can go on for ever.
InverseApplies ==
  phase = "edited" /\ CanInvert(origin, mutation) /\ ContractClean(origin)
    => CanApply(graph, Undoing) /\ CanInvert(graph, Undoing)

\* delete_node removes the incident edges with the node (mcp.py:923-933), but
\* says nothing of the nodes grouped under it: its mutation is refused for a
\* node that another names as its group, and for no other.
DeletionStopsAtGroups ==
  \A n \in Keys(graph.nodes) :
    CanApply(graph, DeleteNodeMutation(graph, n))
      <=> \A k \in Keys(graph.nodes) \ {n} : graph.nodes[k].group # n

TypeOK == /\ origin \in Graph /\ graph \in Graph
          /\ mutation \in GraphMutation
          /\ phase \in {"fresh", "edited", "undone", "redone"}
          /\ StructurallyValid(graph)

=============================================================================
