---------------------------- MODULE MCSessionStore ----------------------------
(***************************************************************************)
(* SessionStore on a small pipeline: a node a, which comes to feed a node  *)
(* b through the edge e, and mutations of the kinds the store must tell    *)
(* apart: one that always applies, one that adds structure and applies     *)
(* until it has, and one that is refused, for b is missing or its edge     *)
(* would dangle.                                                           *)
(***************************************************************************)
EXTENDS SessionStore, TLC

CONSTANTS a, b, e

MCTypes == {"registered"}
MCAccepts == [t \in MCTypes |-> Params]

\* The parameters: x is v.
MCX(v) == [Empty(ParamNames) EXCEPT !["x"] = v]

MCNode(params) == [type |-> "registered", params |-> params, ins |-> {"in"},
                   outs |-> {"out"}, group |-> None, placed |-> TRUE]
MCEdge == [source |-> a, sourcePort |-> "out", target |-> b, targetPort |-> "in"]

MCAlone == [EmptyGraph EXCEPT !.nodes[a] = MCNode(MCX(0))]
MCGraphs == {MCAlone}

\* A new value for the parameter of node a.
MCSet == [NoChange EXCEPT !.setParams[a] = MCX(1)]
\* Node b and its edge, and the removal of b that forgets the edge.
MCAddPair == [NoChange EXCEPT !.addNodes[b] = MCNode(MCX(None)), !.addEdges[e] = MCEdge]
MCRemoveB == [NoChange EXCEPT !.removeNodes = {b}]

MCMutations == {MCSet, MCAddPair, MCRemoveB}

\* Queues and proposals are interchangeable.
MCSymmetry == Permutations(ProposalIds) \cup Permutations(Queues)
=============================================================================
