---------------------------- MODULE GraphMutation ----------------------------
(***************************************************************************)
(* The graph IR and the mutation protocol: ir/graph.py and ir/mutation.py. *)
(*                                                                         *)
(* Pure operators.  A graph is a map of nodes and a map of edges; a        *)
(* mutation is a batch of removals, additions and parameter updates.       *)
(* ApplyMutation and InvertMutation are the two functions every            *)
(* collaborative edit goes through; CanApply and CanInvert say when the    *)
(* code returns a value rather than raising MutationError.                 *)
(*                                                                         *)
(* A dict of the code is a function from the whole key set, None where it  *)
(* has no entry.                                                           *)
(*                                                                         *)
(* A canvas position is reduced to whether it is the default one, which    *)
(* apply_mutation takes for "not placed yet".  Left out: the graph's name, *)
(* paradigm and graph-level params (copied unchanged by apply_mutation),   *)
(* and nested subgraphs (opaque to a mutation).  The id lists of a mutation*)
(* are sets and maps here: a list that names an id twice is refused        *)
(* (mutation.py:122, 127, 139, 151) and is not enumerated.  So is a node's *)
(* list of parameters: one with two entries of a name, which nothing       *)
(* refuses (node.py:81), is left out.                                      *)
(***************************************************************************)
EXTENDS Naturals

CONSTANTS
  None,              \* no entry; also the group_id of a top-level node
  NodeIds, EdgeIds,  \* identities of nodes and edges (uuid strings)
  Types,             \* node types, registered or not
  Ports,             \* port ids
  ParamNames, Values,
  Accepts            \* Accepts[t]: the parameter maps a node of type t may hold

\* The dicts with some keys of K and values in V, and the keys of such a dict.
Dict(K, V) == [K -> V \cup {None}]
Keys(f) == {k \in DOMAIN f : f[k] # None}

\* The dict without entries; f with the entries of h put over its own; f
\* without, and with only, the entries in S.
Empty(K) == [k \in K |-> None]
Update(f, h) == [k \in DOMAIN f |-> IF h[k] # None THEN h[k] ELSE f[k]]
Without(f, S) == [k \in DOMAIN f |-> IF k \in S THEN None ELSE f[k]]
Only(f, S) == [k \in DOMAIN f |-> IF k \in S THEN f[k] ELSE None]

Params == Dict(ParamNames, Values)

\* A node: its contract-bearing fields, the ids of its IN and OUT ports, its
\* group, and whether its position differs from the default (0, 0).
Node == [type : Types, params : Params, ins : SUBSET Ports, outs : SUBSET Ports,
         group : NodeIds \cup {None}, placed : BOOLEAN]

Edge == [source : NodeIds, sourcePort : Ports, target : NodeIds, targetPort : Ports]

Graph == [nodes : Dict(NodeIds, Node), edges : Dict(EdgeIds, Edge)]

GraphMutation == [addNodes : Dict(NodeIds, Node),
                  addEdges : Dict(EdgeIds, Edge),
                  removeNodes : SUBSET NodeIds,
                  removeEdges : SUBSET EdgeIds,
                  setParams : Dict(NodeIds, Params)]

ASSUME NoneAssumption ==
  /\ None \notin NodeIds /\ None \notin Values
  /\ None \notin Node /\ None \notin Edge /\ None \notin Params
ASSUME AcceptsAssumption == \A t \in Types : Accepts[t] \subseteq Params

EmptyGraph == [nodes |-> Empty(NodeIds), edges |-> Empty(EdgeIds)]

(***************************************************************************)
(* Graph._validate_structure: endpoints exist, with the right direction,   *)
(* and a group_id names a node.  Every Graph object of the program passed  *)
(* it when it was constructed.                                             *)
(***************************************************************************)
StructurallyValid(g) ==
  /\ \A e \in Keys(g.edges) :
       LET edge == g.edges[e] IN
       /\ {edge.source, edge.target} \subseteq Keys(g.nodes)
       /\ edge.sourcePort \in g.nodes[edge.source].outs
       /\ edge.targetPort \in g.nodes[edge.target].ins
  /\ \A n \in Keys(g.nodes) : g.nodes[n].group \in Keys(g.nodes) \cup {None}

\* validate_node: what a node's registered type says of its parameters.  A
\* type that is not in the registry accepts every map.
ContractHolds(node) == node.params \in Accepts[node.type]

----------------------------------------------------------------------------
(***************************************************************************)
(* apply_mutation.                                                         *)
(***************************************************************************)

\* An added node at the default position is cascaded past the bounding box of
\* the graph (away from the default, if some node has a coordinate >= 0).
Cascaded(nodes) == [n \in NodeIds |-> IF nodes[n] = None THEN None
                                      ELSE [nodes[n] EXCEPT !.placed = TRUE]]

\* Removals first, then additions.
NodesAfterAdds(g, m) == Update(Without(g.nodes, m.removeNodes), Cascaded(m.addNodes))
EdgesAfter(g, m) == Update(Without(g.edges, m.removeEdges), m.addEdges)

\* A parameter the node has takes the new value; one it lacks is appended.
WithParams(node, updates) == [node EXCEPT !.params = Update(@, updates)]

NodesAfter(g, m) ==
  LET nodes == NodesAfterAdds(g, m) IN
  [n \in NodeIds |-> IF n \in Keys(m.setParams) /\ nodes[n] # None
                     THEN WithParams(nodes[n], m.setParams[n]) ELSE nodes[n]]

ApplyMutation(g, m) == [nodes |-> NodesAfter(g, m), edges |-> EdgesAfter(g, m)]

\* Every id removed is there, and no id added is (still) there.
RemovesAndAddsFit(g, m) ==
  /\ m.removeNodes \subseteq Keys(g.nodes)
  /\ m.removeEdges \subseteq Keys(g.edges)
  /\ Keys(m.addNodes) \cap Keys(g.nodes) \subseteq m.removeNodes
  /\ Keys(m.addEdges) \cap Keys(g.edges) \subseteq m.removeEdges

\* The nodes setParams names exist, and accept what it makes of them.
ParamUpdatesFit(g, m) ==
  \A n \in Keys(m.setParams) :
    /\ n \in Keys(NodesAfterAdds(g, m))
    /\ ContractHolds(NodesAfter(g, m)[n])

\* Variant: the result is not put through the structural validator.
CanApplyUnvalidated(g, m) == RemovesAndAddsFit(g, m) /\ ParamUpdatesFit(g, m)

\* apply_mutation returns a graph rather than raising MutationError.
CanApply(g, m) ==
  /\ RemovesAndAddsFit(g, m)
  /\ ParamUpdatesFit(g, m)
  /\ StructurallyValid(ApplyMutation(g, m))

----------------------------------------------------------------------------
(***************************************************************************)
(* invert_mutation: the mutation that undoes m, derived from the graph m   *)
(* was applied to.                                                         *)
(***************************************************************************)

\* A parameter the original node lacks cannot be restored: the protocol has
\* no way to remove one.
CanInvert(g, m) ==
  /\ m.removeNodes \subseteq Keys(g.nodes)
  /\ m.removeEdges \subseteq Keys(g.edges)
  /\ \A n \in Keys(m.setParams) :
       n \in Keys(g.nodes) /\ Keys(m.setParams[n]) \subseteq Keys(g.nodes[n].params)

\* The values g holds for the parameters m sets.
OldParams(g, m) ==
  [n \in NodeIds |-> IF n \in Keys(m.setParams) /\ g.nodes[n] # None
                     THEN Only(g.nodes[n].params, Keys(m.setParams[n])) ELSE None]

\* Variant: the edges the edit removed are not put back.
InvertForgettingEdges(g, m) ==
  [addNodes |-> Only(g.nodes, m.removeNodes), addEdges |-> Empty(EdgeIds),
   removeNodes |-> Keys(m.addNodes), removeEdges |-> Keys(m.addEdges),
   setParams |-> OldParams(g, m)]

\* Variant: a node the edit replaced is not removed before the old one returns.
InvertKeepingReplaced(g, m) ==
  [addNodes |-> Only(g.nodes, m.removeNodes), addEdges |-> Only(g.edges, m.removeEdges),
   removeNodes |-> Keys(m.addNodes) \ Keys(g.nodes), removeEdges |-> Keys(m.addEdges),
   setParams |-> OldParams(g, m)]

InvertMutation(g, m) ==
  [addNodes |-> Only(g.nodes, m.removeNodes), addEdges |-> Only(g.edges, m.removeEdges),
   removeNodes |-> Keys(m.addNodes), removeEdges |-> Keys(m.addEdges),
   setParams |-> OldParams(g, m)]

----------------------------------------------------------------------------
\* The mutation that asks for nothing.
NoChange == [addNodes |-> Empty(NodeIds), addEdges |-> Empty(EdgeIds),
             removeNodes |-> {}, removeEdges |-> {}, setParams |-> Empty(NodeIds)]

\* Variant: the edges that come into the node are forgotten.
DeleteWithOutgoing(g, n) ==
  [NoChange EXCEPT !.removeNodes = {n},
                   !.removeEdges = {e \in Keys(g.edges) : n = g.edges[e].source}]

\* The mutation the delete_node tool builds: the node and every incident edge.
DeleteNodeMutation(g, n) ==
  [NoChange EXCEPT !.removeNodes = {n},
                   !.removeEdges = {e \in Keys(g.edges) :
                                      n \in {g.edges[e].source, g.edges[e].target}}]

=============================================================================
