---------------------------- MODULE EditUndoProofs ----------------------------
(***************************************************************************)
(* Undo by derived inverses, for every graph and every mutation.           *)
(***************************************************************************)
EXTENDS EditUndo, TLAPS

\* The dict operators return dicts.
LEMMA DictOperators ==
  ASSUME NEW K, NEW V, NEW f \in Dict(K, V)
  PROVE  /\ Empty(K) \in Dict(K, V)
         /\ \A h \in Dict(K, V) : Update(f, h) \in Dict(K, V)
         /\ \A S : Without(f, S) \in Dict(K, V) /\ Only(f, S) \in Dict(K, V)
  BY DEF Dict, Empty, Update, Without, Only

\* Placing the nodes of a dict leaves a dict of nodes.
LEMMA CascadedType ==
  ASSUME NEW nodes \in Dict(NodeIds, Node)
  PROVE  Cascaded(nodes) \in Dict(NodeIds, Node)
  BY DEF Dict, Cascaded, Node

\* apply_mutation returns a graph: its dicts keep their key sets and the types
\* of their values.
THEOREM ApplyMutationType ==
  ASSUME NEW g \in Graph, NEW m \in GraphMutation
  PROVE  ApplyMutation(g, m) \in Graph
<1>1. NodesAfterAdds(g, m) \in Dict(NodeIds, Node)
  <2>1. Without(g.nodes, m.removeNodes) \in Dict(NodeIds, Node)
    BY DictOperators DEF Graph
  <2>2. Cascaded(m.addNodes) \in Dict(NodeIds, Node)
    BY CascadedType DEF GraphMutation
  <2> QED BY <2>1, <2>2, DictOperators DEF NodesAfterAdds
<1>2. EdgesAfter(g, m) \in Dict(EdgeIds, Edge)
  BY DictOperators DEF EdgesAfter, Graph, GraphMutation
<1>3. NodesAfter(g, m) \in Dict(NodeIds, Node)
  <2> DEFINE nodes == NodesAfterAdds(g, m)
  <2>1. ASSUME NEW n \in NodeIds, n \in Keys(m.setParams), nodes[n] # None
        PROVE  WithParams(nodes[n], m.setParams[n]) \in Node
    <3>1. nodes[n] \in Node /\ m.setParams[n] \in Params
      BY <1>1, <2>1 DEF Dict, GraphMutation, Keys
    <3>2. Update(nodes[n].params, m.setParams[n]) \in Params
      BY <3>1, DictOperators DEF Node, Params
    <3> HIDE DEF nodes
    <3> QED BY <3>1, <3>2 DEF WithParams, Node
  <2>2. ASSUME NEW n \in NodeIds PROVE nodes[n] \in Node \cup {None}
    BY <1>1 DEF Dict
  <2> QED BY <2>1, <2>2 DEF NodesAfter, Dict
<1> QED BY <1>2, <1>3 DEF ApplyMutation, Graph

\* invert_mutation, when it returns, returns a mutation.
THEOREM InvertMutationType ==
  ASSUME NEW g \in Graph, NEW m \in GraphMutation
  PROVE  InvertMutation(g, m) \in GraphMutation
<1>1. Only(g.nodes, m.removeNodes) \in Dict(NodeIds, Node)
  BY DictOperators DEF Graph
<1>2. Only(g.edges, m.removeEdges) \in Dict(EdgeIds, Edge)
  BY DictOperators DEF Graph
<1>3. Keys(m.addNodes) \subseteq NodeIds /\ Keys(m.addEdges) \subseteq EdgeIds
  BY DEF GraphMutation, Dict, Keys
<1>4. OldParams(g, m) \in Dict(NodeIds, Params)
  <2>1. ASSUME NEW n \in NodeIds, g.nodes[n] # None, n \in Keys(m.setParams)
        PROVE  Only(g.nodes[n].params, Keys(m.setParams[n])) \in Params
    <3>1. g.nodes[n] \in Node BY <2>1 DEF Graph, Dict
    <3>2. g.nodes[n].params \in Dict(ParamNames, Values) BY <3>1 DEF Node, Params
    <3> QED BY <3>2, DictOperators DEF Params
  <2> QED BY <2>1 DEF OldParams, Dict
<1> QED BY <1>1, <1>2, <1>3, <1>4 DEF InvertMutation, GraphMutation

----------------------------------------------------------------------------
\* What an inverse puts back.

\* Putting a part of a dict over a dict with the same entries changes nothing,
\* and putting back the entries an update replaced undoes the update.
LEMMA UpdateUndone ==
  ASSUME NEW K, NEW V, NEW f \in Dict(K, V), NEW h \in Dict(K, V)
  PROVE  /\ \A S : Update(f, Only(f, S)) = f
         /\ Keys(h) \subseteq Keys(f) => Update(Update(f, h), Only(f, Keys(h))) = f
<1>1. ASSUME NEW S PROVE Update(f, Only(f, S)) = f
  BY DEF Dict, Update, Only
<1>2. ASSUME Keys(h) \subseteq Keys(f)
      PROVE  Update(Update(f, h), Only(f, Keys(h))) = f
  BY <1>2 DEF Dict, Update, Only, Keys
<1> QED BY <1>1, <1>2

\* The same of the parameters of a node: restoring the old values after an
\* update, or in a node that was not updated, gives back the node.
LEMMA ParamsRestored ==
  ASSUME NEW node \in Node, NEW updates \in Params, Keys(updates) \subseteq Keys(node.params)
  PROVE  LET old == Only(node.params, Keys(updates)) IN
         /\ WithParams(WithParams(node, updates), old) = node
         /\ WithParams(node, old) = node
<1> DEFINE old == Only(node.params, Keys(updates))
<1>1. node.params \in Dict(ParamNames, Values) /\ updates \in Dict(ParamNames, Values)
  BY DEF Node, Params
<1>2. /\ Update(Update(node.params, updates), old) = node.params
      /\ Update(node.params, old) = node.params
  BY <1>1, UpdateUndone
<1> HIDE DEF old
<1>3. ASSUME NEW x \in Node, NEW f, f = node.params, x = [node EXCEPT !.params = x.params]
      PROVE  [x EXCEPT !.params = f] = node
  BY <1>3 DEF Node
<1>4. /\ WithParams(node, updates) \in Node
      /\ WithParams(node, updates).params = Update(node.params, updates)
      /\ WithParams(node, updates) = [node EXCEPT !.params = WithParams(node, updates).params]
  <2>1. Update(node.params, updates) \in Params
    BY <1>1, DictOperators DEF Params
  <2> QED BY <2>1 DEF WithParams, Node
<1>5. WithParams(WithParams(node, updates), old) = node
  BY <1>2, <1>3, <1>4 DEF WithParams
<1>6. WithParams(node, old) = node
  <2>1. node = [node EXCEPT !.params = node.params]
    BY DEF Node
  <2> QED BY <1>2, <2>1 DEF WithParams
<1> QED BY <1>5, <1>6 DEF old

\* Applying the derived inverse gives back the original graph, the nodes that
\* were removed cascaded if they stood at the default position.  This is what
\* revert, undo and redo rest on, and it needs only that the edit could be
\* applied and inverted.
THEOREM InverseRestores ==
  ASSUME NEW g \in Graph, NEW m \in GraphMutation, CanApply(g, m), CanInvert(g, m)
  PROVE  ApplyMutation(ApplyMutation(g, m), InvertMutation(g, m))
           = WithCascaded(g, m.removeNodes)
<1> DEFINE h == ApplyMutation(g, m)
           i == InvertMutation(g, m)
           r == WithCascaded(g, m.removeNodes)
<1>1. /\ h \in Graph /\ i \in GraphMutation
  BY ApplyMutationType, InvertMutationType
<1>2. /\ g.nodes \in [NodeIds -> Node \cup {None}] /\ g.edges \in [EdgeIds -> Edge \cup {None}]
      /\ m.addNodes \in [NodeIds -> Node \cup {None}]
      /\ m.addEdges \in [EdgeIds -> Edge \cup {None}]
      /\ m.setParams \in [NodeIds -> Params \cup {None}]
  BY DEF Graph, GraphMutation, Dict
<1>3. RemovesAndAddsFit(g, m)
  BY DEF CanApply
<1>4. ASSUME NEW e \in EdgeIds PROVE EdgesAfter(h, i)[e] = g.edges[e]
  BY <1>2, <1>3 DEF RemovesAndAddsFit, EdgesAfter, ApplyMutation, InvertMutation,
                    Update, Without, Only, Keys
<1>5. EdgesAfter(h, i) = g.edges
  <2>1. DOMAIN EdgesAfter(h, i) = EdgeIds /\ DOMAIN g.edges = EdgeIds
    BY <1>2 DEF EdgesAfter, ApplyMutation, Update, Without
  <2>2. EdgesAfter(h, i) = [e \in EdgeIds |-> EdgesAfter(h, i)[e]]
    BY <2>1 DEF EdgesAfter, Update, Without
  <2> QED BY <1>2, <1>4, <2>2
<1>6. ASSUME NEW n \in NodeIds PROVE NodesAfter(h, i)[n] = r.nodes[n]
  <2>1. /\ NodesAfterAdds(g, m)[n] = IF m.addNodes[n] # None
                                    THEN [m.addNodes[n] EXCEPT !.placed = TRUE]
                                    ELSE IF n \in m.removeNodes THEN None ELSE g.nodes[n]
        /\ h.nodes[n] = IF m.setParams[n] # None /\ NodesAfterAdds(g, m)[n] # None
                        THEN WithParams(NodesAfterAdds(g, m)[n], m.setParams[n])
                        ELSE NodesAfterAdds(g, m)[n]
    <3>1. m.addNodes[n] \in Node => [m.addNodes[n] EXCEPT !.placed = TRUE] \in Node
      BY DEF Node
    <3>2. Cascaded(m.addNodes)[n] = IF m.addNodes[n] # None
                                    THEN [m.addNodes[n] EXCEPT !.placed = TRUE] ELSE None
      BY DEF Cascaded
    <3>3. (Cascaded(m.addNodes)[n] # None) <=> (m.addNodes[n] # None)
      BY <1>2, <3>1, <3>2, NoneAssumption
    <3>4. NodesAfterAdds(g, m)[n] = IF Cascaded(m.addNodes)[n] # None
                                    THEN Cascaded(m.addNodes)[n]
                                    ELSE IF n \in m.removeNodes THEN None ELSE g.nodes[n]
      BY <1>2 DEF NodesAfterAdds, Update, Without
    <3>5. h.nodes[n] = NodesAfter(g, m)[n]
      BY DEF ApplyMutation
    <3>6. NodesAfter(g, m)[n] = IF m.setParams[n] # None /\ NodesAfterAdds(g, m)[n] # None
                                THEN WithParams(NodesAfterAdds(g, m)[n], m.setParams[n])
                                ELSE NodesAfterAdds(g, m)[n]
      BY <1>2 DEF NodesAfter, Keys
    <3> QED BY <3>2, <3>3, <3>4, <3>5, <3>6
  <2>2. /\ i.setParams[n] = IF m.setParams[n] # None /\ g.nodes[n] # None
                            THEN Only(g.nodes[n].params, Keys(m.setParams[n])) ELSE None
        /\ m.setParams[n] # None => g.nodes[n] # None /\ i.setParams[n] # None
    <3>1. m.setParams[n] # None => g.nodes[n] # None
      BY <1>2 DEF CanInvert, Keys
    <3>2. i.setParams[n] = IF m.setParams[n] # None /\ g.nodes[n] # None
                           THEN Only(g.nodes[n].params, Keys(m.setParams[n])) ELSE None
      BY <1>2 DEF InvertMutation, OldParams, Keys
    <3>3. ASSUME m.setParams[n] # None PROVE i.setParams[n] # None
      <4>1. g.nodes[n] \in Node BY <1>2, <3>1, <3>3
      <4>2. Only(g.nodes[n].params, Keys(m.setParams[n])) \in Params
        BY <4>1, DictOperators DEF Node, Params
      <4> QED BY <3>1, <3>2, <3>3, <4>2, NoneAssumption
    <3> QED BY <3>1, <3>2, <3>3
  <2>3. NodesAfterAdds(h, i)[n] =
          IF n \in m.removeNodes THEN [g.nodes[n] EXCEPT !.placed = TRUE]
          ELSE IF m.addNodes[n] # None THEN None ELSE h.nodes[n]
    <3>1. h.nodes \in [NodeIds -> Node \cup {None}] BY <1>1 DEF Graph, Dict
    <3>2. i.addNodes = Only(g.nodes, m.removeNodes) /\ i.removeNodes = Keys(m.addNodes)
      BY DEF InvertMutation
    <3>3. n \in m.removeNodes => g.nodes[n] # None
      BY <1>3 DEF RemovesAndAddsFit, Keys
    <3>4. [g.nodes[n] EXCEPT !.placed = TRUE] # None \/ g.nodes[n] = None
      <4>1. g.nodes[n] \in Node => [g.nodes[n] EXCEPT !.placed = TRUE] \in Node
        BY DEF Node
      <4> QED BY <1>2, <4>1, NoneAssumption
    <3>5. Cascaded(i.addNodes)[n] = IF n \in m.removeNodes /\ g.nodes[n] # None
                                    THEN [g.nodes[n] EXCEPT !.placed = TRUE] ELSE None
      BY <1>2, <3>2 DEF Cascaded, Only
    <3>6. Without(h.nodes, i.removeNodes)[n] = IF m.addNodes[n] # None THEN None ELSE h.nodes[n]
      BY <1>2, <3>1, <3>2 DEF Without, Keys
    <3>7. NodesAfterAdds(h, i)[n] = IF Cascaded(i.addNodes)[n] # None THEN Cascaded(i.addNodes)[n]
                                    ELSE Without(h.nodes, i.removeNodes)[n]
      BY <3>1 DEF NodesAfterAdds, Update, Without
    <3> QED BY <3>3, <3>4, <3>5, <3>6, <3>7
  <2>4. NodesAfter(h, i)[n] = IF i.setParams[n] # None /\ NodesAfterAdds(h, i)[n] # None
                              THEN WithParams(NodesAfterAdds(h, i)[n], i.setParams[n])
                              ELSE NodesAfterAdds(h, i)[n]
    BY <1>1 DEF NodesAfter, GraphMutation, Dict, Keys
  <2>5. r.nodes[n] = IF n \in m.removeNodes THEN [g.nodes[n] EXCEPT !.placed = TRUE]
                     ELSE g.nodes[n]
    <3>1. Cascaded(Only(g.nodes, m.removeNodes))[n] =
            IF n \in m.removeNodes /\ g.nodes[n] # None
            THEN [g.nodes[n] EXCEPT !.placed = TRUE] ELSE None
      BY <1>2 DEF Cascaded, Only
    <3>2. r.nodes[n] = IF Cascaded(Only(g.nodes, m.removeNodes))[n] # None
                       THEN Cascaded(Only(g.nodes, m.removeNodes))[n] ELSE g.nodes[n]
      BY <1>2 DEF WithCascaded, Update, Graph
    <3>3. n \in m.removeNodes => g.nodes[n] # None
      BY <1>3 DEF RemovesAndAddsFit, Keys
    <3>4. g.nodes[n] \in Node => [g.nodes[n] EXCEPT !.placed = TRUE] \in Node
      BY DEF Node
    <3> QED BY <1>2, <3>1, <3>2, <3>3, <3>4, NoneAssumption
  <2>6. CASE n \in m.removeNodes
    <3> DEFINE back == [g.nodes[n] EXCEPT !.placed = TRUE]
    <3>1. g.nodes[n] \in Node
      BY <1>2, <1>3, <2>6 DEF RemovesAndAddsFit, Keys
    <3>2. back \in Node /\ back.params = g.nodes[n].params
      BY <3>1 DEF Node
    <3>3. CASE m.setParams[n] # None
      <4>1. m.setParams[n] \in Params /\ Keys(m.setParams[n]) \subseteq Keys(back.params)
        BY <1>2, <3>2, <3>3 DEF CanInvert, Keys
      <4>2. WithParams(back, Only(back.params, Keys(m.setParams[n]))) = back
        BY <3>2, <4>1, ParamsRestored
      <4> QED BY <2>2, <2>3, <2>4, <2>5, <2>6, <3>2, <3>3, <4>2, NoneAssumption
    <3>4. CASE m.setParams[n] = None
      BY <2>2, <2>3, <2>4, <2>5, <2>6, <3>4
    <3> QED BY <3>3, <3>4
  <2>7. CASE n \notin m.removeNodes /\ m.addNodes[n] # None
    <3>1. g.nodes[n] = None
      BY <1>2, <1>3, <2>7 DEF RemovesAndAddsFit, Keys
    <3> QED BY <2>3, <2>4, <2>5, <2>7, <3>1
  <2>8. CASE n \notin m.removeNodes /\ m.addNodes[n] = None
    <3>1. CASE m.setParams[n] # None
      <4>1. /\ g.nodes[n] \in Node /\ m.setParams[n] \in Params
            /\ Keys(m.setParams[n]) \subseteq Keys(g.nodes[n].params)
        BY <1>2, <2>2, <3>1 DEF CanInvert, Keys
      <4>2. h.nodes[n] = WithParams(g.nodes[n], m.setParams[n])
        BY <2>1, <2>2, <2>8, <3>1
      <4>3. h.nodes[n] # None
        <5>1. Update(g.nodes[n].params, m.setParams[n]) \in Params
          BY <4>1, DictOperators DEF Node, Params
        <5>2. h.nodes[n] \in Node
          BY <4>1, <4>2, <5>1 DEF WithParams, Node
        <5> QED BY <5>2, NoneAssumption
      <4> QED BY <2>2, <2>3, <2>4, <2>5, <2>8, <3>1, <4>1, <4>2, <4>3, ParamsRestored
    <3>2. CASE m.setParams[n] = None
      BY <2>1, <2>2, <2>3, <2>4, <2>5, <2>8, <3>2
    <3> QED BY <3>1, <3>2
  <2> QED BY <2>6, <2>7, <2>8
<1>7. NodesAfter(h, i) = r.nodes
  <2>1. NodesAfter(h, i) = [n \in NodeIds |-> NodesAfter(h, i)[n]]
    BY DEF NodesAfter
  <2>2. r.nodes = [n \in NodeIds |-> r.nodes[n]]
    BY <1>2 DEF WithCascaded, Update, Graph
  <2> QED BY <1>6, <2>1, <2>2
<1>8. r = [nodes |-> r.nodes, edges |-> g.edges]
  BY DEF WithCascaded, Graph
<1> QED BY <1>5, <1>7, <1>8 DEF ApplyMutation

----------------------------------------------------------------------------
\* The nodes an edit adds are placed, so cascading them again changes nothing.
LEMMA AddedArePlaced ==
  ASSUME NEW g \in Graph, NEW m \in GraphMutation
  PROVE  WithCascaded(ApplyMutation(g, m), Keys(m.addNodes)) = ApplyMutation(g, m)
<1> DEFINE h == ApplyMutation(g, m)
           S == Keys(m.addNodes)
<1>1. h.nodes \in [NodeIds -> Node \cup {None}] /\ h = [nodes |-> h.nodes, edges |-> h.edges]
  BY ApplyMutationType DEF Graph, Dict
<1>2. /\ g.nodes \in [NodeIds -> Node \cup {None}]
      /\ m.addNodes \in [NodeIds -> Node \cup {None}]
      /\ m.setParams \in [NodeIds -> Params \cup {None}]
  BY DEF Graph, GraphMutation, Dict
<1>3. ASSUME NEW n \in S PROVE h.nodes[n] \in Node /\ h.nodes[n].placed
  <2>1. n \in NodeIds /\ m.addNodes[n] \in Node
    BY <1>2, <1>3 DEF Keys
  <2> DEFINE added == [m.addNodes[n] EXCEPT !.placed = TRUE]
  <2>2. added \in Node /\ added.placed /\ added.params \in Params
    BY <2>1 DEF Node
  <2>3. Cascaded(m.addNodes)[n] = added
    BY <1>3, <2>1, NoneAssumption DEF Cascaded
  <2>4. NodesAfterAdds(g, m)[n] = added
    BY <1>2, <2>1, <2>2, <2>3, NoneAssumption DEF NodesAfterAdds, Update, Without
  <2> HIDE DEF added
  <2>5. h.nodes[n] = IF m.setParams[n] # None THEN WithParams(added, m.setParams[n]) ELSE added
    <3>1. h.nodes[n] = NodesAfter(g, m)[n]
      BY DEF ApplyMutation
    <3> QED BY <1>2, <2>1, <2>2, <2>4, <3>1, NoneAssumption DEF NodesAfter, Keys
  <2>6. ASSUME m.setParams[n] # None
        PROVE  /\ WithParams(added, m.setParams[n]) \in Node
               /\ WithParams(added, m.setParams[n]).placed
    <3>1. Update(added.params, m.setParams[n]) \in Params
      BY <1>2, <2>1, <2>2, <2>6, DictOperators DEF Params
    <3> QED BY <2>2, <3>1 DEF WithParams, Node
  <2> QED BY <2>2, <2>5, <2>6
<1> HIDE DEF h, S
<1>4. ASSUME NEW n \in NodeIds, n \in S
      PROVE  [h.nodes[n] EXCEPT !.placed = TRUE] = h.nodes[n]
  BY <1>3, <1>4 DEF Node
<1>5. Update(h.nodes, Cascaded(Only(h.nodes, S))) = h.nodes
  <2>1. ASSUME NEW n \in NodeIds
        PROVE  Cascaded(Only(h.nodes, S))[n] \in {None, h.nodes[n]}
    BY <1>1, <1>4 DEF Cascaded, Only
  <2> QED BY <1>1, <2>1 DEF Update
<1>6. WithCascaded(h, S) = h
  BY <1>1, <1>5 DEF WithCascaded
<1> QED BY <1>6 DEF h, S

\* What is there after an edit: what it added, and what it did not remove.
LEMMA AfterEdit ==
  ASSUME NEW g \in Graph, NEW m \in GraphMutation, NEW n \in NodeIds
  PROVE  LET x == NodesAfterAdds(g, m)[n]
             y == ApplyMutation(g, m).nodes[n] IN
         /\ x \in Node \cup {None} /\ y \in Node \cup {None}
         /\ x # None <=> m.addNodes[n] # None \/ (n \notin m.removeNodes /\ g.nodes[n] # None)
         /\ y # None <=> x # None
         /\ y = IF m.setParams[n] # None /\ x # None THEN WithParams(x, m.setParams[n]) ELSE x
<1> DEFINE x == NodesAfterAdds(g, m)[n]
           y == ApplyMutation(g, m).nodes[n]
<1>1. /\ g.nodes \in [NodeIds -> Node \cup {None}] /\ m.addNodes \in [NodeIds -> Node \cup {None}]
      /\ m.setParams \in [NodeIds -> Params \cup {None}]
  BY DEF Graph, GraphMutation, Dict
<1>2. Cascaded(m.addNodes) \in [NodeIds -> Node \cup {None}]
  BY CascadedType DEF GraphMutation, Dict
<1>3. Cascaded(m.addNodes)[n] # None <=> m.addNodes[n] # None
  <2>1. m.addNodes[n] \in Node => [m.addNodes[n] EXCEPT !.placed = TRUE] \in Node BY DEF Node
  <2> QED BY <1>1, <2>1, NoneAssumption DEF Cascaded
<1>4. x = IF Cascaded(m.addNodes)[n] # None THEN Cascaded(m.addNodes)[n]
          ELSE IF n \in m.removeNodes THEN None ELSE g.nodes[n]
  BY <1>1 DEF NodesAfterAdds, Update, Without
<1>5. /\ x \in Node \cup {None}
      /\ x # None <=> m.addNodes[n] # None \/ (n \notin m.removeNodes /\ g.nodes[n] # None)
  BY <1>1, <1>2, <1>3, <1>4
<1>6. y = IF m.setParams[n] # None /\ x # None THEN WithParams(x, m.setParams[n]) ELSE x
  BY <1>1 DEF ApplyMutation, NodesAfter, Keys
<1> HIDE DEF x, y
<1>7. x \in Node /\ m.setParams[n] \in Params => WithParams(x, m.setParams[n]) \in Node
  <2>1. ASSUME x \in Node, m.setParams[n] \in Params PROVE WithParams(x, m.setParams[n]) \in Node
    <3>1. Update(x.params, m.setParams[n]) \in Params BY <2>1, DictOperators DEF Node, Params
    <3> QED BY <2>1, <3>1 DEF WithParams, Node
  <2> QED BY <2>1
<1>8. y \in Node \cup {None} /\ (y # None <=> x # None)
  BY <1>1, <1>5, <1>6, <1>7, NoneAssumption
<1> QED BY <1>5, <1>6, <1>8 DEF x, y

\* To place nodes changes nothing that the validator or a contract looks at.
LEMMA PlacedIsAsSound ==
  ASSUME NEW g \in Graph, NEW S
  PROVE  /\ Keys(WithCascaded(g, S).nodes) = Keys(g.nodes)
         /\ \A n \in Keys(g.nodes) :
              ContractHolds(WithCascaded(g, S).nodes[n]) <=> ContractHolds(g.nodes[n])
         /\ StructurallyValid(WithCascaded(g, S)) <=> StructurallyValid(g)
<1> DEFINE r == WithCascaded(g, S)
<1>1. g.nodes \in [NodeIds -> Node \cup {None}] BY DEF Graph, Dict
<1>2. r.edges = g.edges /\ DOMAIN r.nodes = NodeIds BY <1>1 DEF WithCascaded, Update, Graph
<1>3. ASSUME NEW n \in NodeIds
      PROVE  /\ r.nodes[n] = None <=> g.nodes[n] = None
             /\ g.nodes[n] # None =>
                  /\ r.nodes[n].type = g.nodes[n].type /\ r.nodes[n].params = g.nodes[n].params
                  /\ r.nodes[n].ins = g.nodes[n].ins /\ r.nodes[n].outs = g.nodes[n].outs
                  /\ r.nodes[n].group = g.nodes[n].group
  <2> DEFINE placed == [g.nodes[n] EXCEPT !.placed = TRUE]
  <2>1. Cascaded(Only(g.nodes, S))[n] = IF n \in S /\ g.nodes[n] # None THEN placed ELSE None
    BY <1>1 DEF Cascaded, Only
  <2>2. r.nodes[n] = IF Cascaded(Only(g.nodes, S))[n] # None THEN Cascaded(Only(g.nodes, S))[n]
                     ELSE g.nodes[n]
    BY <1>1 DEF WithCascaded, Update, Graph
  <2>3. r.nodes[n] \in {placed, g.nodes[n]} /\ (g.nodes[n] = None => r.nodes[n] = None)
    BY <2>1, <2>2
  <2>4. g.nodes[n] # None =>
          /\ placed \in Node /\ g.nodes[n] \in Node
          /\ placed.type = g.nodes[n].type /\ placed.params = g.nodes[n].params
          /\ placed.ins = g.nodes[n].ins /\ placed.outs = g.nodes[n].outs
          /\ placed.group = g.nodes[n].group
    BY <1>1 DEF Node
  <2> HIDE DEF placed, r
  <2> QED BY <2>3, <2>4, NoneAssumption
<1>4. Keys(r.nodes) = Keys(g.nodes) BY <1>1, <1>2, <1>3 DEF Keys
<1>5. \A n \in Keys(g.nodes) : n \in NodeIds /\ g.nodes[n] # None BY <1>1 DEF Keys
<1> HIDE DEF r
<1>6. \A n \in Keys(g.nodes) : ContractHolds(r.nodes[n]) <=> ContractHolds(g.nodes[n])
  BY <1>3, <1>5 DEF ContractHolds
<1>7. StructurallyValid(r) <=> StructurallyValid(g)
  BY <1>2, <1>3, <1>4, <1>5 DEF StructurallyValid
<1> QED BY <1>4, <1>6, <1>7 DEF r

\* An inverse that can be derived applies, and can be inverted in its turn.
LEMMA InverseFits ==
  ASSUME NEW g \in Graph, NEW m \in GraphMutation, StructurallyValid(g), ContractClean(g),
         CanApply(g, m), CanInvert(g, m)
  PROVE  LET h == ApplyMutation(g, m)
             i == InvertMutation(g, m) IN CanApply(h, i) /\ CanInvert(h, i)
<1> DEFINE h == ApplyMutation(g, m)
           i == InvertMutation(g, m)
           r == WithCascaded(g, m.removeNodes)
<1>1. h \in Graph /\ i \in GraphMutation BY ApplyMutationType, InvertMutationType
<1>2. /\ g.nodes \in [NodeIds -> Node \cup {None}] /\ g.edges \in [EdgeIds -> Edge \cup {None}]
      /\ m.addNodes \in [NodeIds -> Node \cup {None}] /\ m.addEdges \in [EdgeIds -> Edge \cup {None}]
      /\ m.setParams \in [NodeIds -> Params \cup {None}]
      /\ h.nodes \in [NodeIds -> Node \cup {None}] /\ h.edges \in [EdgeIds -> Edge \cup {None}]
      /\ i.setParams \in [NodeIds -> Params \cup {None}]
  BY <1>1 DEF Graph, GraphMutation, Dict
<1>3. RemovesAndAddsFit(g, m) /\ ParamUpdatesFit(g, m) BY DEF CanApply
<1>4. /\ i.addNodes = Only(g.nodes, m.removeNodes) /\ i.addEdges = Only(g.edges, m.removeEdges)
      /\ i.removeNodes = Keys(m.addNodes) /\ i.removeEdges = Keys(m.addEdges)
      /\ i.setParams = OldParams(g, m)
  BY DEF InvertMutation
<1>5. \A n \in NodeIds : h.nodes[n] # None <=>
        m.addNodes[n] # None \/ (n \notin m.removeNodes /\ g.nodes[n] # None)
  BY AfterEdit
<1>6. \A e \in EdgeIds : h.edges[e] = IF m.addEdges[e] # None THEN m.addEdges[e]
                                      ELSE IF e \in m.removeEdges THEN None ELSE g.edges[e]
  BY <1>2 DEF ApplyMutation, EdgesAfter, Update, Without
<1>7. i.removeNodes \subseteq Keys(h.nodes) /\ i.removeEdges \subseteq Keys(h.edges)
  BY <1>2, <1>4, <1>5, <1>6 DEF Keys
<1>8. RemovesAndAddsFit(h, i)
  <2>1. Keys(i.addNodes) \cap Keys(h.nodes) \subseteq i.removeNodes
    BY <1>2, <1>4, <1>5 DEF Keys, Only
  <2>2. Keys(i.addEdges) \cap Keys(h.edges) \subseteq i.removeEdges
    BY <1>2, <1>4, <1>6 DEF Keys, Only
  <2> QED BY <1>7, <2>1, <2>2 DEF RemovesAndAddsFit
<1>9. ApplyMutation(h, i) = r BY InverseRestores
<1>10. \A n \in Keys(i.setParams) : n \in NodeIds /\ m.setParams[n] # None /\ g.nodes[n] # None
         /\ i.setParams[n] = Only(g.nodes[n].params, Keys(m.setParams[n]))
  BY <1>2, <1>4 DEF OldParams, Keys
<1>11. ASSUME NEW n \in Keys(i.setParams)
       PROVE  n \in Keys(NodesAfterAdds(h, i)) /\ ContractHolds(NodesAfter(h, i)[n])
  <2>1. n \in NodeIds /\ g.nodes[n] # None BY <1>10, <1>11
  <2>2. i.addNodes[n] = IF n \in m.removeNodes THEN g.nodes[n] ELSE None
    BY <1>2, <1>4, <2>1 DEF Only
  <2>3. n \notin m.removeNodes => m.addNodes[n] = None
    BY <1>2, <1>3, <2>1 DEF RemovesAndAddsFit, Keys
  <2>4. i.addNodes[n] # None \/ (n \notin i.removeNodes /\ h.nodes[n] # None)
    BY <1>2, <1>4, <1>5, <2>1, <2>2, <2>3 DEF Keys
  <2>5. NodesAfterAdds(h, i)[n] # None BY <1>1, <2>1, <2>4, AfterEdit
  <2>6. n \in DOMAIN NodesAfterAdds(h, i) BY <1>2, <2>1 DEF NodesAfterAdds, Update, Without
  <2>7. NodesAfter(h, i)[n] = r.nodes[n] BY <1>9 DEF ApplyMutation
  <2>8. n \in Keys(g.nodes) /\ ContractHolds(g.nodes[n]) BY <1>2, <2>1 DEF Keys, ContractClean
  <2>9. ContractHolds(r.nodes[n]) BY <2>8, PlacedIsAsSound
  <2> QED BY <2>5, <2>6, <2>7, <2>9 DEF Keys
<1>12. StructurallyValid(ApplyMutation(h, i)) BY <1>9, PlacedIsAsSound
<1>13. CanApply(h, i) BY <1>8, <1>11, <1>12 DEF CanApply, ParamUpdatesFit
<1>14. ASSUME NEW n \in Keys(i.setParams)
       PROVE  n \in Keys(h.nodes) /\ Keys(i.setParams[n]) \subseteq Keys(h.nodes[n].params)
  <2> DEFINE x == NodesAfterAdds(g, m)[n]
             u == m.setParams[n]
  <2>1. n \in NodeIds /\ u # None /\ g.nodes[n] # None
        /\ i.setParams[n] = Only(g.nodes[n].params, Keys(u))
    BY <1>10, <1>14
  <2>2. n \in Keys(m.setParams) /\ u \in Params BY <1>2, <2>1 DEF Keys
  <2>3. x # None BY <1>3, <2>2 DEF ParamUpdatesFit, Keys
  <2>4. x \in Node /\ h.nodes[n] # None /\ h.nodes[n] = WithParams(x, u)
    BY <2>1, <2>3, AfterEdit
  <2> HIDE DEF x, u
  <2>5. h.nodes[n].params = Update(x.params, u)
    BY <2>4 DEF WithParams, Node
  <2>6. /\ x.params \in [ParamNames -> Values \cup {None}] /\ u \in [ParamNames -> Values \cup {None}]
        /\ g.nodes[n].params \in [ParamNames -> Values \cup {None}]
    BY <1>2, <2>1, <2>2, <2>4 DEF Node, Params, Dict
  <2>7. Keys(i.setParams[n]) \subseteq Keys(h.nodes[n].params)
    BY <2>1, <2>5, <2>6 DEF Keys, Only, Update
  <2> QED BY <1>2, <2>1, <2>4, <2>7 DEF Keys
<1>15. CanInvert(h, i) BY <1>7, <1>14 DEF CanInvert
<1> QED BY <1>13, <1>15

\* Where the edit left the graph in each phase.
UndoInv ==
  /\ origin \in Graph /\ graph \in Graph /\ mutation \in GraphMutation
  /\ phase \in {"fresh", "edited", "undone", "redone"}
  /\ StructurallyValid(origin) /\ StructurallyValid(graph)
  /\ phase # "fresh" => CanApply(origin, mutation)
  /\ phase = "fresh" => graph = origin
  /\ phase \in {"edited", "redone"} => graph = ApplyMutation(origin, mutation)
  /\ phase = "undone" =>
       /\ CanInvert(origin, mutation)
       /\ CanApply(ApplyMutation(origin, mutation), Undoing)
       /\ graph = ApplyMutation(ApplyMutation(origin, mutation), Undoing)

\* The edit, its inverse and the graph before it stay tied together.
LEMMA UndoInvInductive == Spec => []UndoInv
<1>1. Init => UndoInv
  BY GraphsAssumption DEF Init, UndoInv, NoChange, GraphMutation, Dict, Empty
<1>2. ASSUME UndoInv, Edit PROVE UndoInv'
  <2>1. ASSUME NEW n \in Keys(graph.nodes) PROVE DeleteNodeMutation(graph, n) \in GraphMutation
    BY <1>2, <2>1 DEF UndoInv, DeleteNodeMutation, NoChange, GraphMutation, Graph, Dict, Empty,
                      Keys
  <2>2. PICK m \in GraphMutation : /\ CanApply(graph, m) /\ mutation' = m
                                   /\ graph' = ApplyMutation(graph, m)
    BY <1>2, <2>1, MutationsAssumption DEF Edit
  <2>3. graph' \in Graph /\ StructurallyValid(graph')
    BY <1>2, <2>2, ApplyMutationType DEF UndoInv, CanApply
  <2> QED BY <1>2, <2>2, <2>3 DEF UndoInv, Edit
<1>3. ASSUME UndoInv, Undo PROVE UndoInv'
  <2>1. Undoing' = Undoing BY <1>3 DEF Undo, Undoing
  <2>2. graph' \in Graph /\ StructurallyValid(graph')
    BY <1>3, ApplyMutationType, InvertMutationType DEF UndoInv, Undo, Undoing, CanApply
  <2> QED BY <1>3, <2>1, <2>2 DEF UndoInv, Undo
<1>4. ASSUME UndoInv, Redo PROVE UndoInv'
  <2> DEFINE edited == ApplyMutation(origin, mutation)
             again  == InvertMutation(edited, Undoing)
  <2>1. edited \in Graph /\ Undoing \in GraphMutation
    BY <1>4, ApplyMutationType, InvertMutationType DEF UndoInv, Undoing
  <2>2. ApplyMutation(ApplyMutation(edited, Undoing), again)
          = WithCascaded(edited, Undoing.removeNodes)
    BY <1>4, <2>1, InverseRestores DEF UndoInv, Redo
  <2>3. Undoing.removeNodes = Keys(mutation.addNodes)
    BY DEF Undoing, InvertMutation
  <2>4. ApplyMutation(ApplyMutation(edited, Undoing), again) = edited
    BY <1>4, <2>2, <2>3, AddedArePlaced DEF UndoInv
  <2>5. graph' = edited
    BY <1>4, <2>4 DEF UndoInv, Redo
  <2>6. StructurallyValid(edited)
    BY <1>4 DEF UndoInv, Redo, CanApply
  <2> QED BY <1>4, <2>1, <2>5, <2>6 DEF UndoInv, Redo
<1>5. UndoInv /\ UNCHANGED vars => UndoInv'
  BY DEF UndoInv, Undoing, vars
<1> QED BY <1>1, <1>2, <1>3, <1>4, <1>5, PTL DEF Spec, Next

\* The states of EditUndo are well typed, and the graph always passes the
\* structural validator.
THEOREM EditTypeCorrect == Spec => []TypeOK
<1>1. UndoInv => TypeOK BY DEF UndoInv, TypeOK
<1> QED BY UndoInvInductive, <1>1, PTL

\* Undo gives back the original graph, up to the placing of unplaced nodes.
THEOREM UndoIsExact == Spec => []UndoRestores
<1>1. UndoInv => UndoRestores
  BY InverseRestores DEF UndoInv, UndoRestores, Undoing
<1> QED BY UndoInvInductive, <1>1, PTL

\* Redo gives back the edited graph.
THEOREM RedoIsExact == Spec => []RedoRestores
<1>1. UndoInv => RedoRestores BY DEF UndoInv, RedoRestores
<1> QED BY UndoInvInductive, <1>1, PTL

\* The deletion of a node that is no node's group leaves no edge without an end,
\* whatever its edges are, loops included (mcp.py:930).
LEMMA DeletionApplies ==
  ASSUME NEW g \in Graph, StructurallyValid(g), NEW n \in Keys(g.nodes),
         \A k \in Keys(g.nodes) \ {n} : g.nodes[k].group # n
  PROVE  CanApply(g, DeleteNodeMutation(g, n))
<1> DEFINE m == DeleteNodeMutation(g, n)
           incident == {e \in Keys(g.edges) : n \in {g.edges[e].source, g.edges[e].target}}
           after == ApplyMutation(g, m)
<1>1. /\ m.removeNodes = {n} /\ m.removeEdges = incident /\ m.addNodes = Empty(NodeIds)
      /\ m.addEdges = Empty(EdgeIds) /\ m.setParams = Empty(NodeIds)
  BY DEF DeleteNodeMutation, NoChange
<1>2. /\ Keys(m.addNodes) = {} /\ Keys(m.addEdges) = {} /\ Keys(m.setParams) = {}
  BY <1>1 DEF Keys, Empty
<1>3. RemovesAndAddsFit(g, m) BY <1>1, <1>2 DEF RemovesAndAddsFit
<1>4. ParamUpdatesFit(g, m) BY <1>2 DEF ParamUpdatesFit
<1>5. after.nodes = [k \in NodeIds |-> IF k = n THEN None ELSE g.nodes[k]]
  BY <1>1, <1>2 DEF ApplyMutation, NodesAfter, NodesAfterAdds, Update, Without, Cascaded, Empty, Keys,
                    Graph, Dict
<1>6. after.edges = [e \in EdgeIds |-> IF e \in incident THEN None ELSE g.edges[e]]
  BY <1>1, <1>2 DEF ApplyMutation, EdgesAfter, Update, Without, Empty, Keys, Graph, Dict
<1>7. Keys(after.nodes) = Keys(g.nodes) \ {n}
  BY <1>5 DEF Keys, Graph, Dict
<1>8. Keys(after.edges) = Keys(g.edges) \ incident
  BY <1>6 DEF Keys, Graph, Dict
<1>9. \A k \in Keys(after.nodes) : after.nodes[k] = g.nodes[k]
  BY <1>5, <1>7 DEF Keys, Graph, Dict
<1>10. \A e \in Keys(after.edges) : after.edges[e] = g.edges[e]
  BY <1>6, <1>8 DEF Keys, Graph, Dict
<1> HIDE DEF m, after
<1>11. \A e \in Keys(after.edges) : n \notin {g.edges[e].source, g.edges[e].target}
  BY <1>8
<1>12. StructurallyValid(after)
  BY <1>7, <1>8, <1>9, <1>10, <1>11 DEF StructurallyValid
<1> QED BY <1>3, <1>4, <1>12 DEF CanApply, after, m

\* The deletion of a node leaves the nodes of its group without one.
LEMMA DeletionStops ==
  ASSUME NEW g \in Graph, NEW n \in Keys(g.nodes), NEW k \in Keys(g.nodes) \ {n},
         g.nodes[k].group = n
  PROVE  ~CanApply(g, DeleteNodeMutation(g, n))
<1> DEFINE m == DeleteNodeMutation(g, n)
           after == ApplyMutation(g, m)
<1>1. m.removeNodes = {n} /\ m.addNodes = Empty(NodeIds) /\ m.setParams = Empty(NodeIds)
  BY DEF DeleteNodeMutation, NoChange
<1>2. Keys(m.addNodes) = {} /\ Keys(m.setParams) = {}
  BY <1>1 DEF Keys, Empty
<1>3. after.nodes = [j \in NodeIds |-> IF j = n THEN None ELSE g.nodes[j]]
  BY <1>1, <1>2 DEF ApplyMutation, NodesAfter, NodesAfterAdds, Update, Without, Cascaded, Empty, Keys,
                    Graph, Dict
<1>4. n \notin Keys(after.nodes) /\ k \in Keys(after.nodes) /\ after.nodes[k] = g.nodes[k]
  BY <1>3 DEF Keys, Graph, Dict
<1>5. n # None BY NoneAssumption DEF Keys, Graph, Dict
<1> HIDE DEF m, after
<1>6. ~StructurallyValid(after) BY <1>4, <1>5 DEF StructurallyValid
<1> QED BY <1>6 DEF CanApply, after, m

\* delete_node's mutation is accepted for a node exactly when no other names it
\* as its group (mcp.py:923-933).
THEOREM DeletionAccepted == Spec => []DeletionStopsAtGroups
<1>1. ASSUME UndoInv PROVE DeletionStopsAtGroups
  <2>1. graph \in Graph /\ StructurallyValid(graph) BY <1>1 DEF UndoInv
  <2> QED BY <2>1, DeletionApplies, DeletionStops DEF DeletionStopsAtGroups
<1> QED BY UndoInvInductive, <1>1, PTL

\* An inverse that can be derived applies and can be inverted, of any edit of a
\* graph that kept its contracts: undo and redo can go on for ever.
THEOREM InversesApply == Spec => []InverseApplies
<1>1. UndoInv => InverseApplies
  BY InverseFits DEF UndoInv, InverseApplies, Undoing
<1> QED BY UndoInvInductive, <1>1, PTL

=============================================================================
