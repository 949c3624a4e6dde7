-------------------------- MODULE SessionStoreProofs --------------------------
(***************************************************************************)
(* The safety invariants of SessionStore, for every set of sessions,       *)
(* proposals, queues, graphs and mutations.                                *)
(*                                                                         *)
(* Every invariant but TypeOK speaks of the document of one session at a   *)
(* time, and an action touches the document of one session: SessionStep(t) *)
(* lists what a step may do to the document of session t, the lemma        *)
(* StepsAreSessionSteps reduces every action to it once, and each          *)
(* invariant is then preserved by cases on SessionStep(t).                 *)
(* StreamStep(t, q) does the same for the queue of a subscriber.           *)
(***************************************************************************)
EXTENDS SessionStore, SequenceTheorems, TLAPS

----------------------------------------------------------------------------
\* The operators of GraphMutation keep the types.  (EditUndoProofs opens with the
\* same facts: they hold of any module that extends GraphMutation.)

\* A session created without a graph starts from a valid one.
LEMMA EmptyGraphIsSound == EmptyGraph \in Graph /\ StructurallyValid(EmptyGraph)
  BY DEF EmptyGraph, Graph, Dict, Empty, StructurallyValid, Keys

\* The dict operators return dicts.
LEMMA DictOperators ==
  ASSUME NEW K, NEW V, NEW f \in Dict(K, V)
  PROVE  /\ Empty(K) \in Dict(K, V)
         /\ \A h \in Dict(K, V) : Update(f, h) \in Dict(K, V)
         /\ \A S : Without(f, S) \in Dict(K, V) /\ Only(f, S) \in Dict(K, V)
  BY DEF Dict, Empty, Update, Without, Only

\* Placing the nodes of a dict leaves a dict of nodes.
LEMMA CascadedType ==
  ASSUME NEW nodes \in Dict(NodeIds, Node)
  PROVE  Cascaded(nodes) \in Dict(NodeIds, Node)
  BY DEF Dict, Cascaded, Node

\* apply_mutation returns a graph: its dicts keep their key sets and the types
\* of their values.
THEOREM ApplyMutationType ==
  ASSUME NEW g \in Graph, NEW m \in GraphMutation
  PROVE  ApplyMutation(g, m) \in Graph
<1>1. NodesAfterAdds(g, m) \in Dict(NodeIds, Node)
  <2>1. Without(g.nodes, m.removeNodes) \in Dict(NodeIds, Node)
    BY DictOperators DEF Graph
  <2>2. Cascaded(m.addNodes) \in Dict(NodeIds, Node)
    BY CascadedType DEF GraphMutation
  <2> QED BY <2>1, <2>2, DictOperators DEF NodesAfterAdds
<1>2. EdgesAfter(g, m) \in Dict(EdgeIds, Edge)
  BY DictOperators DEF EdgesAfter, Graph, GraphMutation
<1>3. NodesAfter(g, m) \in Dict(NodeIds, Node)
  <2> DEFINE nodes == NodesAfterAdds(g, m)
  <2>1. ASSUME NEW n \in NodeIds, n \in Keys(m.setParams), nodes[n] # None
        PROVE  WithParams(nodes[n], m.setParams[n]) \in Node
    <3>1. nodes[n] \in Node /\ m.setParams[n] \in Params
      BY <1>1, <2>1 DEF Dict, GraphMutation, Keys
    <3>2. Update(nodes[n].params, m.setParams[n]) \in Params
      BY <3>1, DictOperators DEF Node, Params
    <3> HIDE DEF nodes
    <3> QED BY <3>1, <3>2 DEF WithParams, Node
  <2>2. ASSUME NEW n \in NodeIds PROVE nodes[n] \in Node \cup {None}
    BY <1>1 DEF Dict
  <2> QED BY <2>1, <2>2 DEF NodesAfter, Dict
<1> QED BY <1>2, <1>3 DEF ApplyMutation, Graph

\* invert_mutation, when it returns, returns a mutation.
THEOREM InvertMutationType ==
  ASSUME NEW g \in Graph, NEW m \in GraphMutation
  PROVE  InvertMutation(g, m) \in GraphMutation
<1>1. Only(g.nodes, m.removeNodes) \in Dict(NodeIds, Node)
  BY DictOperators DEF Graph
<1>2. Only(g.edges, m.removeEdges) \in Dict(EdgeIds, Edge)
  BY DictOperators DEF Graph
<1>3. Keys(m.addNodes) \subseteq NodeIds /\ Keys(m.addEdges) \subseteq EdgeIds
  BY DEF GraphMutation, Dict, Keys
<1>4. OldParams(g, m) \in Dict(NodeIds, Params)
  <2>1. ASSUME NEW n \in NodeIds, g.nodes[n] # None, n \in Keys(m.setParams)
        PROVE  Only(g.nodes[n].params, Keys(m.setParams[n])) \in Params
    <3>1. g.nodes[n] \in Node BY <2>1 DEF Graph, Dict
    <3>2. g.nodes[n].params \in Dict(ParamNames, Values) BY <3>1 DEF Node, Params
    <3> QED BY <3>2, DictOperators DEF Params
  <2> QED BY <2>1 DEF OldParams, Dict
<1> QED BY <1>1, <1>2, <1>3, <1>4 DEF InvertMutation, GraphMutation

----------------------------------------------------------------------------
\* What a step may do to the document of session t.

USE GraphsAssumption, MutationsAssumption, BoundAssumption

Same(t) == /\ graph'[t] = graph[t]
           /\ version'[t] = version[t]
           /\ proposals'[t] = proposals[t]
           /\ checkpoints'[t] = checkpoints[t]

Emptied(t) == /\ existence'[t] # "live"
              /\ graph'[t] = EmptyGraph
              /\ version'[t] = 0
              /\ Keys(proposals'[t]) = {}
              /\ checkpoints'[t] = <<>>

Created(t) == /\ ~Live(t)
              /\ graph'[t] \in Graphs \cup {EmptyGraph}
              /\ version'[t] = version[t]
              /\ proposals'[t] = proposals[t]
              /\ checkpoints'[t] = checkpoints[t]

Replaced(t) == /\ graph'[t] \in Graphs
               /\ version'[t] = version[t] + 1
               /\ proposals'[t] = proposals[t]
               /\ checkpoints'[t] = checkpoints[t]

Proposed(t) == \E p \in ProposalIds, m \in Mutations :
  /\ proposals[t][p] = None
  /\ proposals'[t] = [proposals[t] EXCEPT ![p] =
       [mutation |-> m, base |-> version[t], applies |-> CanApply(graph[t], m),
        status |-> "pending"]]
  /\ graph'[t] = graph[t]
  /\ version'[t] = version[t]
  /\ checkpoints'[t] = checkpoints[t]

\* The log grows by one checkpoint for the graph that is replaced.
Logged(t, kind, m) ==
  /\ version'[t] = version[t] + 1
  /\ checkpoints'[t] = Append(checkpoints[t],
       [kind |-> kind, base |-> version[t], mutation |-> m,
        previous |-> graph[t], resulting |-> version[t] + 1])

Edited(t, m) ==
  /\ m \in GraphMutation
  /\ CanApply(graph[t], m)
  /\ graph'[t] = ApplyMutation(graph[t], m)
  /\ Logged(t, "edit", m)

Reverted(t) == \E i \in DOMAIN checkpoints[t] :
  LET c == checkpoints[t][i] IN
  /\ graph'[t] = c.previous
  /\ Logged(t, "revert", InvertMutation(c.previous, c.mutation))
  /\ proposals'[t] = proposals[t]

ResolvedTo(t, p, status) ==
  /\ Pending(t, p)
  /\ proposals'[t] = [proposals[t] EXCEPT ![p].status = status]

SessionStep(t) ==
  \/ Same(t)
  \/ Emptied(t)
  \/ Created(t)
  \/ Replaced(t)
  \/ Proposed(t)
  \/ \E p \in ProposalIds :
       /\ ResolvedTo(t, p, "rejected")
       /\ graph'[t] = graph[t] /\ version'[t] = version[t]
       /\ checkpoints'[t] = checkpoints[t]
  \/ \E p \in ProposalIds :
       /\ ResolvedTo(t, p, "accepted")
       /\ proposals[t][p].base = version[t]
       /\ Edited(t, proposals[t][p].mutation)
  \/ \E m \in Mutations : Edited(t, m) /\ proposals'[t] = proposals[t]
  \/ Reverted(t)

\* Every action does one of these things to each session.
LEMMA StepsAreSessionSteps ==
  ASSUME TypeOK, [Next]_vars, NEW t \in Sessions
  PROVE  SessionStep(t)
<1> USE DEF TypeOK
<1>1. ASSUME UNCHANGED vars PROVE SessionStep(t)
  BY <1>1 DEF vars, SessionStep, Same
<1>2. ASSUME NEW s \in Sessions, NEW g \in Graphs \cup {EmptyGraph}, Create(s, g)
      PROVE  SessionStep(t)
  BY <1>2 DEF Create, SessionStep, Same, Created, Live
<1>3. ASSUME NEW s \in Sessions, Delete(s) PROVE SessionStep(t)
  BY <1>3 DEF Delete, SessionStep, Same, Emptied, Keys, Empty
<1>4. ASSUME NEW s \in Sessions, NEW g \in Graphs, NEW base \in 0..version[s],
             ReplaceGraph(s, g, base)
      PROVE  SessionStep(t)
  BY <1>4 DEF ReplaceGraph, WriteGraph, SessionStep, Same, Replaced
<1>5. ASSUME NEW s \in Sessions, NEW p \in ProposalIds, NEW m \in Mutations,
             NEW base \in 0..version[s], AddProposal(s, p, m, base)
      PROVE  SessionStep(t)
  BY <1>5 DEF AddProposal, Current, SessionStep, Same, Proposed
<1>6. ASSUME NEW s \in Sessions, NEW p \in ProposalIds, AcceptProposal(s, p)
      PROVE  SessionStep(t)
  <2>1. CASE s # t
    BY <1>6, <2>1 DEF AcceptProposal, WriteGraph, Resolve, Record, SessionStep, Same
  <2>2. CASE s = t
    <3>1. proposals[t][p].mutation \in GraphMutation
      BY <1>6, <2>2 DEF AcceptProposal, Pending, Dict, StoredProposal
    <3>2. ResolvedTo(t, p, "accepted") /\ proposals[t][p].base = version[t]
      BY <1>6, <2>2 DEF AcceptProposal, Resolve, Current, ResolvedTo
    <3>3. Edited(t, proposals[t][p].mutation)
      BY <1>6, <2>2, <3>1 DEF AcceptProposal, WriteGraph, Record, Edited, Logged
    <3> QED BY <3>2, <3>3, Zenon DEF SessionStep
  <2> QED BY <2>1, <2>2
<1>7. ASSUME NEW s \in Sessions, NEW p \in ProposalIds, RejectProposal(s, p)
      PROVE  SessionStep(t)
  BY <1>7 DEF RejectProposal, Resolve, SessionStep, Same, ResolvedTo
<1>8. ASSUME NEW s \in Sessions, NEW m \in Mutations, NEW base \in 0..version[s],
             NEW author \in Authors \cup {BadAuthor}, ApplyDirectMutation(s, m, base, author)
      PROVE  SessionStep(t)
  BY <1>8 DEF ApplyDirectMutation, WriteGraph, Record, SessionStep, Same, Edited, Logged
<1>9. ASSUME NEW s \in Sessions, NEW i \in DOMAIN checkpoints[s], RevertCheckpoint(s, i)
      PROVE  SessionStep(t)
  BY <1>9 DEF RevertCheckpoint, WriteGraph, Record, SessionStep, Same, Reverted, Logged
<1>10. ASSUME NEW q \in Queues,
              (\E s \in Sessions : Subscribe(q, s)) \/ Deliver(q) \/ Unsubscribe(q)
       PROVE  SessionStep(t)
  BY <1>10 DEF Subscribe, Deliver, Unsubscribe, document, SessionStep, Same
<1> QED BY <1>1, <1>2, <1>3, <1>4, <1>5, <1>6, <1>7, <1>8, <1>9, <1>10 DEF Next

----------------------------------------------------------------------------
\* Type correctness, and that nothing is kept of a session that is not live.

\* Publishing keeps the streams well typed.
LEMMA PublishType ==
  ASSUME TypeOK, NEW s \in Sessions, NEW event \in Event, Publish(s, event)
  PROVE  /\ subscribers' = subscribers /\ watching' = watching /\ told' = told
         /\ queue' \in [Queues -> Seq(Event)]
  BY DEF TypeOK, Publish

\* So does appending to the log.
LEMMA RecordType ==
  ASSUME TypeOK, NEW s \in Sessions, NEW kind \in {"edit", "revert"},
         NEW m \in GraphMutation, Record(s, kind, m)
  PROVE  checkpoints' \in [Sessions -> Seq(Checkpoint)]
<1>1. [kind |-> kind, base |-> version[s], mutation |-> m, previous |-> graph[s],
       resulting |-> version[s] + 1] \in Checkpoint
  BY DEF TypeOK, Checkpoint
<1> QED BY <1>1 DEF TypeOK, Record

\* An empty store is well typed.
LEMMA InitTypeOK == Init => TypeOK
  BY EmptyGraphIsSound DEF Init, TypeOK, Existence, Dict, Empty, Live, Keys

\* Each action keeps TypeOK, for any bound on versions.
LEMMA NextTypeOK == TypeOK /\ [Next]_vars => TypeOK'
<1> SUFFICES ASSUME TypeOK, [Next]_vars PROVE TypeOK'
  OBVIOUS
<1>1. ASSUME UNCHANGED vars PROVE TypeOK'
  BY <1>1 DEF vars, TypeOK, Live
<1>2. ASSUME NEW s \in Sessions, NEW g \in Graphs \cup {EmptyGraph}, Create(s, g)
      PROVE  TypeOK'
  <2>1. g \in Graph BY EmptyGraphIsSound
  <2> QED BY <1>2, <2>1 DEF Create, TypeOK, Live, Existence, streams
<1>3. ASSUME NEW s \in Sessions, Delete(s) PROVE TypeOK'
  <2>1. Empty(ProposalIds) \in Dict(ProposalIds, StoredProposal)
    BY DEF Empty, Dict
  <2>2. Keys(Empty(ProposalIds)) = {}
    BY DEF Empty, Keys
  <2> QED BY <1>3, <2>1, <2>2, EmptyGraphIsSound DEF Delete, TypeOK, Live, Existence
<1>4. ASSUME NEW s \in Sessions, NEW g \in Graphs, NEW base \in 0..version[s],
             ReplaceGraph(s, g, base)
      PROVE  TypeOK'
  <2>1. GraphEvent("graph_replaced", version[s] + 1) \in Event
    BY DEF GraphEvent, Event, EventType, TypeOK
  <2>2. graph' \in [Sessions -> Graph] /\ version' \in [Sessions -> 0..MaxVersion]
    BY <1>4 DEF ReplaceGraph, WriteGraph, TypeOK
  <2> QED BY <1>4, <2>1, <2>2, PublishType DEF ReplaceGraph, WriteGraph, TypeOK, Live
<1>5. ASSUME NEW s \in Sessions, NEW p \in ProposalIds, NEW m \in Mutations,
             NEW base \in 0..version[s], AddProposal(s, p, m, base)
      PROVE  TypeOK'
  <2>1. ProposalEvent("proposal_added", p, 0) \in Event
    BY DEF ProposalEvent, Event, EventType
  <2>2. [mutation |-> m, base |-> base, applies |-> CanApply(graph[s], m),
         status |-> "pending"] \in StoredProposal
    <3>1. CanApply(graph[s], m) \in BOOLEAN
      BY DEF CanApply
    <3>2. base \in Nat BY DEF TypeOK
    <3> QED BY <3>1, <3>2 DEF StoredProposal, ProposalStatus
  <2>3. proposals' \in [Sessions -> Dict(ProposalIds, StoredProposal)]
    BY <1>5, <2>2 DEF AddProposal, TypeOK, Dict
  <2> QED BY <1>5, <2>1, <2>3, PublishType DEF AddProposal, TypeOK, Live
<1>6. ASSUME NEW s \in Sessions, NEW p \in ProposalIds, NEW status \in ProposalStatus,
             Pending(s, p), Resolve(s, p, status)
      PROVE  proposals' \in [Sessions -> Dict(ProposalIds, StoredProposal)]
  <2>1. proposals[s][p] \in StoredProposal
    BY <1>6 DEF TypeOK, Dict, Pending
  <2>2. [proposals[s][p] EXCEPT !.status = status] \in StoredProposal
    BY <2>1 DEF StoredProposal
  <2> QED BY <1>6, <2>2 DEF Resolve, TypeOK, Dict
<1>7. ASSUME NEW s \in Sessions, NEW p \in ProposalIds, AcceptProposal(s, p)
      PROVE  TypeOK'
  <2>1. proposals[s][p].mutation \in GraphMutation
    BY <1>7 DEF AcceptProposal, Pending, TypeOK, Dict, StoredProposal
  <2>2. graph' \in [Sessions -> Graph] /\ version' \in [Sessions -> 0..MaxVersion]
    BY <1>7, <2>1, ApplyMutationType DEF AcceptProposal, WriteGraph, TypeOK
  <2>3. proposals' \in [Sessions -> Dict(ProposalIds, StoredProposal)]
    BY <1>6, <1>7 DEF AcceptProposal, ProposalStatus
  <2>4. checkpoints' \in [Sessions -> Seq(Checkpoint)]
    BY <1>7, <2>1, RecordType DEF AcceptProposal
  <2>5. ProposalEvent("proposal_accepted", p, version[s] + 1) \in Event
    BY DEF ProposalEvent, Event, EventType, TypeOK
  <2>6. /\ subscribers' = subscribers /\ watching' = watching /\ told' = told
        /\ queue' \in [Queues -> Seq(Event)]
    BY <1>7, <2>5, PublishType DEF AcceptProposal
  <2>7. \A r \in Sessions \ {s} : /\ version'[r] = version[r] /\ graph'[r] = graph[r]
                                  /\ proposals'[r] = proposals[r]
                                  /\ checkpoints'[r] = checkpoints[r]
    BY <1>7 DEF AcceptProposal, WriteGraph, Resolve, Record, TypeOK
  <2> QED BY <1>7, <2>2, <2>3, <2>4, <2>6, <2>7 DEF AcceptProposal, TypeOK, Live
<1>8. ASSUME NEW s \in Sessions, NEW p \in ProposalIds, RejectProposal(s, p)
      PROVE  TypeOK'
  <2>1. proposals' \in [Sessions -> Dict(ProposalIds, StoredProposal)]
    BY <1>6, <1>8 DEF RejectProposal, ProposalStatus
  <2>2. ProposalEvent("proposal_rejected", p, 0) \in Event
    BY DEF ProposalEvent, Event, EventType
  <2>3. \A r \in Sessions \ {s} : proposals'[r] = proposals[r]
    BY <1>8 DEF RejectProposal, Resolve, TypeOK
  <2> QED BY <1>8, <2>1, <2>2, <2>3, PublishType DEF RejectProposal, TypeOK, Live
<1>9. ASSUME NEW s \in Sessions, NEW m \in Mutations, NEW base \in 0..version[s],
             NEW author \in Authors \cup {BadAuthor}, ApplyDirectMutation(s, m, base, author)
      PROVE  TypeOK'
  <2>1. m \in GraphMutation OBVIOUS
  <2>2. graph' \in [Sessions -> Graph] /\ version' \in [Sessions -> 0..MaxVersion]
    BY <1>9, <2>1, ApplyMutationType DEF ApplyDirectMutation, WriteGraph, TypeOK
  <2>3. checkpoints' \in [Sessions -> Seq(Checkpoint)]
    BY <1>9, <2>1, RecordType DEF ApplyDirectMutation
  <2>4. GraphEvent("graph_changed", version[s] + 1) \in Event
    BY DEF GraphEvent, Event, EventType, TypeOK
  <2>5. /\ subscribers' = subscribers /\ watching' = watching /\ told' = told
        /\ queue' \in [Queues -> Seq(Event)]
    BY <1>9, <2>4, PublishType DEF ApplyDirectMutation
  <2>6. \A r \in Sessions \ {s} : /\ version'[r] = version[r] /\ graph'[r] = graph[r]
                                  /\ checkpoints'[r] = checkpoints[r]
    BY <1>9 DEF ApplyDirectMutation, WriteGraph, Record, TypeOK
  <2> QED BY <1>9, <2>2, <2>3, <2>5, <2>6 DEF ApplyDirectMutation, TypeOK, Live
<1>10. ASSUME NEW s \in Sessions, NEW i \in DOMAIN checkpoints[s], RevertCheckpoint(s, i)
       PROVE  TypeOK'
  <2> DEFINE c == checkpoints[s][i]
  <2>1. c \in Checkpoint
    BY DEF TypeOK
  <2>2. c.previous \in Graph /\ c.mutation \in GraphMutation
    BY <2>1 DEF Checkpoint
  <2>3. graph' \in [Sessions -> Graph] /\ version' \in [Sessions -> 0..MaxVersion]
    BY <1>10, <2>2 DEF RevertCheckpoint, WriteGraph, TypeOK
  <2>4. checkpoints' \in [Sessions -> Seq(Checkpoint)]
    BY <1>10, <2>2, InvertMutationType, RecordType DEF RevertCheckpoint
  <2>5. GraphEvent("graph_reverted", version[s] + 1) \in Event
    BY DEF GraphEvent, Event, EventType, TypeOK
  <2>6. /\ subscribers' = subscribers /\ watching' = watching /\ told' = told
        /\ queue' \in [Queues -> Seq(Event)]
    BY <1>10, <2>5, PublishType DEF RevertCheckpoint
  <2>7. \A r \in Sessions \ {s} : /\ version'[r] = version[r] /\ graph'[r] = graph[r]
                                  /\ checkpoints'[r] = checkpoints[r]
    BY <1>10 DEF RevertCheckpoint, WriteGraph, Record, TypeOK
  <2> QED BY <1>10, <2>3, <2>4, <2>6, <2>7 DEF RevertCheckpoint, TypeOK, Live
<1>11. ASSUME NEW q \in Queues, NEW s \in Sessions, Subscribe(q, s) PROVE TypeOK'
  <2>1. \A r \in Sessions : q \notin subscribers[r]
    BY <1>11, SessionAssumption DEF Subscribe, TypeOK
  <2>2. \A r \in Sessions : \A k \in subscribers'[r] : Live(r) /\ watching'[k] = r
    BY <1>11, <2>1 DEF Subscribe, TypeOK
  <2> QED BY <1>11, <2>2 DEF Subscribe, document, TypeOK, Live
<1>12. ASSUME NEW q \in Queues, Deliver(q) PROVE TypeOK'
  <2>1. /\ Head(queue[q]) \in Event /\ Tail(queue[q]) \in Seq(Event)
    BY <1>12, HeadTailProperties DEF Deliver, TypeOK
  <2>2. Head(queue[q]).version \in Nat
    BY <2>1 DEF Event
  <2> QED BY <1>12, <2>1, <2>2 DEF Deliver, document, TypeOK, Live
<1>13. ASSUME NEW q \in Queues, Unsubscribe(q) PROVE TypeOK'
  BY <1>13 DEF Unsubscribe, document, TypeOK, Live
<1> QED BY <1>1, <1>2, <1>3, <1>4, <1>5, <1>7, <1>8, <1>9, <1>10, <1>11, <1>12, <1>13 DEF Next

\* The session store keeps its types, and keeps nothing of a deleted session.
THEOREM TypeCorrect == Spec => []TypeOK
  BY InitTypeOK, NextTypeOK, PTL DEF Spec

----------------------------------------------------------------------------
\* The graphs and the log.

\* apply_mutation's result, and every snapshot, is structurally valid.
LEMMA InitSound == Init => GraphsAreSound
  BY EmptyGraphIsSound DEF Init, GraphsAreSound

\* The log of session t before and after a step that grows it.
LEMMA LoggedLog ==
  ASSUME TypeOK, NEW t \in Sessions, NEW kind, NEW m, Logged(t, kind, m)
  PROVE  \E n \in Nat :
           /\ DOMAIN checkpoints[t] = 1..n
           /\ DOMAIN checkpoints'[t] = 1..(n + 1)
           /\ \A i \in 1..n : checkpoints'[t][i] = checkpoints[t][i]
           /\ checkpoints'[t][n + 1] =
                [kind |-> kind, base |-> version[t], mutation |-> m,
                 previous |-> graph[t], resulting |-> version[t] + 1]
<1>1. checkpoints[t] \in Seq(Checkpoint)
  BY DEF TypeOK
<1>2. WITNESS Len(checkpoints[t]) \in Nat
<1> QED BY <1>1 DEF Logged

\* Every write of a graph writes a valid one: what apply_mutation returns, a
\* replacement that was validated, or a snapshot.
LEMMA NextSound == TypeOK /\ GraphsAreSound /\ [Next]_vars => GraphsAreSound'
<1> SUFFICES ASSUME TypeOK, GraphsAreSound, [Next]_vars, NEW t \in Sessions
             PROVE  /\ StructurallyValid(graph'[t])
                    /\ \A i \in DOMAIN checkpoints'[t] :
                         StructurallyValid(checkpoints'[t][i].previous)
  BY DEF GraphsAreSound
<1> DEFINE Sound(g) == StructurallyValid(g)
           Snapshots(cs) == \A i \in DOMAIN cs : Sound(cs[i].previous)
<1>1. Sound(graph[t]) /\ Snapshots(checkpoints[t])
  BY DEF GraphsAreSound
<1>2. SessionStep(t)
  BY StepsAreSessionSteps
<1> SUFFICES Sound(graph'[t]) /\ Snapshots(checkpoints'[t])
  OBVIOUS
<1> HIDE DEF Sound
<1>3. \A g \in Graphs \cup {EmptyGraph} : Sound(g)
  BY EmptyGraphIsSound DEF Sound
<1>4. ASSUME Same(t) \/ Created(t) \/ Replaced(t) \/ Proposed(t) \/ Emptied(t)
      PROVE  Sound(graph'[t]) /\ Snapshots(checkpoints'[t])
  <2>1. CASE Same(t) BY <1>1, <2>1 DEF Same
  <2>2. CASE Created(t) BY <1>1, <1>3, <2>2 DEF Created
  <2>3. CASE Replaced(t) BY <1>1, <1>3, <2>3 DEF Replaced
  <2>4. CASE Proposed(t) BY <1>1, <2>4 DEF Proposed
  <2>5. CASE Emptied(t) BY <1>3, <2>5 DEF Emptied
  <2> QED BY <1>4, <2>1, <2>2, <2>3, <2>4, <2>5
<1>5. ASSUME NEW kind, NEW m, Logged(t, kind, m) PROVE Snapshots(checkpoints'[t])
  <2>1. PICK n \in Nat : /\ DOMAIN checkpoints[t] = 1..n
                         /\ DOMAIN checkpoints'[t] = 1..(n + 1)
                         /\ \A i \in 1..n : checkpoints'[t][i] = checkpoints[t][i]
                         /\ checkpoints'[t][n + 1] =
                              [kind |-> kind, base |-> version[t], mutation |-> m,
                               previous |-> graph[t], resulting |-> version[t] + 1]
    BY <1>5, LoggedLog
  <2>2. \A i \in 1..(n + 1) : i \in 1..n \/ i = n + 1
    OBVIOUS
  <2> QED BY <1>1, <2>1, <2>2
<1>6. ASSUME NEW m, Edited(t, m) PROVE Sound(graph'[t]) /\ Snapshots(checkpoints'[t])
  BY <1>5, <1>6 DEF Edited, CanApply, Sound
<1>7. ASSUME Reverted(t) PROVE Sound(graph'[t]) /\ Snapshots(checkpoints'[t])
  BY <1>1, <1>5, <1>7 DEF Reverted
<1> QED BY <1>1, <1>2, <1>4, <1>6, <1>7 DEF SessionStep

\* No edit, replacement or revert leaves a session with a graph, or with a
\* snapshot to go back to, that the structural validator would refuse.
THEOREM SoundGraphs == Spec => []GraphsAreSound
<1>1. Init => TypeOK /\ GraphsAreSound
  BY InitTypeOK, InitSound
<1>2. TypeOK /\ GraphsAreSound /\ [Next]_vars => TypeOK' /\ GraphsAreSound'
  BY NextTypeOK, NextSound
<1> QED BY <1>1, <1>2, PTL DEF Spec

\* The log of an empty session replays, and so does one whose version moves on
\* without a checkpoint.
LEMMA NextLogReplays == TypeOK /\ LogReplays /\ [Next]_vars => LogReplays'
<1> SUFFICES ASSUME TypeOK, LogReplays, [Next]_vars, NEW t \in Sessions
             PROVE  Replays(checkpoints'[t], version'[t], graph'[t])
  BY DEF LogReplays
<1> DEFINE cs == checkpoints[t]
           v  == version[t]
<1>1. Replays(cs, v, graph[t])
  BY DEF LogReplays
<1>2. v \in Nat /\ cs \in Seq(Checkpoint)
  BY DEF TypeOK
<1>3. \A i \in DOMAIN cs : cs[i].base \in Nat /\ cs[i].resulting \in Nat
  <2> HIDE DEF cs
  <2>1. \A i \in DOMAIN cs : cs[i] \in Checkpoint BY <1>2
  <2> QED BY <2>1 DEF Checkpoint
<1>4. SessionStep(t)
  BY StepsAreSessionSteps
<1>5. CASE Same(t) \/ Proposed(t) BY <1>1, <1>5 DEF Same, Proposed
<1>6. CASE Emptied(t) BY <1>6 DEF Emptied, Replays
<1>7. CASE Created(t)
  BY <1>7 DEF Created, TypeOK, Replays
<1>8. CASE Replaced(t)
  BY <1>1, <1>2, <1>3, <1>8 DEF Replaced, Replays
<1>9. ASSUME NEW kind, NEW m, Logged(t, kind, m),
             kind = "edit" => graph'[t] = ApplyMutation(graph[t], m),
             kind = "revert" => \E k \in DOMAIN cs :
               /\ graph'[t] = cs[k].previous
               /\ m = InvertMutation(cs[k].previous, cs[k].mutation)
      PROVE  Replays(checkpoints'[t], version'[t], graph'[t])
  <2> DEFINE cs2 == checkpoints'[t]
  <2>1. PICK n \in Nat :
          /\ DOMAIN cs = 1..n
          /\ DOMAIN cs2 = 1..(n + 1)
          /\ \A i \in 1..n : cs2[i] = cs[i]
          /\ cs2[n + 1] = [kind |-> kind, base |-> v, mutation |-> m,
                           previous |-> graph[t], resulting |-> v + 1]
    BY <1>9, LoggedLog
  <2>2. version'[t] = v + 1
    BY <1>9 DEF Logged
  <2>3. LedTo(cs2, n + 1, graph'[t])
    BY <1>9, <2>1 DEF LedTo
  <2>4. \A i \in 1..n : \A g : LedTo(cs, i, g) => LedTo(cs2, i, g)
    BY <2>1 DEF LedTo
  <2> SUFFICES ASSUME NEW i \in 1..(n + 1)
               PROVE  /\ cs2[i].resulting = cs2[i].base + 1
                      /\ cs2[i].resulting <= v + 1
                      /\ \A j \in 1..(n + 1) : i < j => cs2[i].resulting <= cs2[j].base
                      /\ \A j \in 1..(n + 1) : cs2[i].resulting = cs2[j].base
                                             => LedTo(cs2, i, cs2[j].previous)
                      /\ cs2[i].resulting = v + 1 => LedTo(cs2, i, graph'[t])
    BY <2>1, <2>2 DEF Replays
  <2>5. \A j \in 1..(n + 1) : j \in 1..n \/ j = n + 1
    OBVIOUS
  <2>6. \A j \in 1..n : cs2[j].base < v
    BY <1>1, <1>2, <1>3, <2>1 DEF Replays
  <2> HIDE DEF cs2, cs, v
  <2>7. CASE i = n + 1
    BY <1>2, <2>1, <2>3, <2>5, <2>6, <2>7
  <2>8. CASE i \in 1..n
    <3>1. /\ cs2[i].resulting = cs2[i].base + 1
          /\ cs2[i].resulting <= v
      BY <1>1, <1>2, <1>3, <2>1, <2>8 DEF Replays
    <3>2. ASSUME NEW j \in 1..(n + 1), i < j PROVE cs2[i].resulting <= cs2[j].base
      <4>1. CASE j \in 1..n
        BY <1>1, <2>1, <2>8, <3>2, <4>1 DEF Replays
      <4>2. CASE j = n + 1
        BY <2>1, <3>1, <4>2
      <4> QED BY <2>5, <4>1, <4>2
    <3>3. ASSUME NEW j \in 1..(n + 1), cs2[i].resulting = cs2[j].base
          PROVE  LedTo(cs2, i, cs2[j].previous)
      <4>1. CASE j \in 1..n
        BY <1>1, <2>1, <2>4, <2>8, <3>3, <4>1 DEF Replays
      <4>2. CASE j = n + 1
        BY <1>1, <2>1, <2>4, <2>8, <3>3, <4>2 DEF Replays
      <4> QED BY <2>5, <4>1, <4>2
    <3> QED BY <1>2, <1>3, <2>1, <2>8, <3>1, <3>2, <3>3
  <2> QED BY <2>5, <2>7, <2>8
<1>10. ASSUME NEW m, Edited(t, m) PROVE Replays(checkpoints'[t], version'[t], graph'[t])
  BY <1>9, <1>10 DEF Edited
<1>11. ASSUME Reverted(t) PROVE Replays(checkpoints'[t], version'[t], graph'[t])
  <2>1. PICK k \in DOMAIN cs :
          /\ graph'[t] = cs[k].previous
          /\ Logged(t, "revert", InvertMutation(cs[k].previous, cs[k].mutation))
    BY <1>11 DEF Reverted
  <2> QED BY <1>9, <2>1
<1>12. ASSUME graph'[t] = graph[t], version'[t] = v, checkpoints'[t] = cs
       PROVE  Replays(checkpoints'[t], version'[t], graph'[t])
  BY <1>1, <1>12
<1> QED BY <1>4, <1>5, <1>6, <1>7, <1>8, <1>10, <1>11, <1>12 DEF SessionStep

\* An empty log replays.
LEMMA InitLogReplays == Init => LogReplays
  BY DEF Init, LogReplays, Replays

\* What happened between two checkpoints, and between the last one and now, is
\* what the log says: going back to a snapshot is going back to a graph the
\* session had, whichever edits, replacements and reverts came since.
THEOREM LogsReplay == Spec => []LogReplays
<1>1. Init => TypeOK /\ LogReplays
  BY InitTypeOK, InitLogReplays
<1>2. TypeOK /\ LogReplays /\ [Next]_vars => TypeOK' /\ LogReplays'
  BY NextTypeOK, NextLogReplays
<1> QED BY <1>1, <1>2, PTL DEF Spec

----------------------------------------------------------------------------
\* The proposals.

\* Resolving p changes the status of p and nothing else of the dict.
LEMMA ResolvedDict ==
  ASSUME TypeOK, NEW t \in Sessions, NEW p \in ProposalIds, NEW status \in ProposalStatus,
         ResolvedTo(t, p, status)
  PROVE  /\ proposals[t][p] \in StoredProposal /\ proposals[t][p].status = "pending"
         /\ Keys(proposals'[t]) = Keys(proposals[t]) /\ p \in Keys(proposals[t])
         /\ \A r \in Keys(proposals[t]) \ {p} : proposals'[t][r] = proposals[t][r]
         /\ proposals'[t][p].mutation = proposals[t][p].mutation
         /\ proposals'[t][p].base = proposals[t][p].base
         /\ proposals'[t][p].applies = proposals[t][p].applies
         /\ proposals'[t][p].status = status
<1>1. proposals[t] \in [ProposalIds -> StoredProposal \cup {None}]
  BY DEF TypeOK, Dict
<1>2. proposals[t][p] \in StoredProposal /\ proposals[t][p].status = "pending"
  BY <1>1 DEF ResolvedTo, Pending
<1>3. [proposals[t][p] EXCEPT !.status = status] \in StoredProposal
  BY <1>2 DEF StoredProposal
<1>4. /\ DOMAIN proposals'[t] = DOMAIN proposals[t]
      /\ \A r \in ProposalIds \ {p} : proposals'[t][r] = proposals[t][r]
      /\ proposals'[t][p] = [proposals[t][p] EXCEPT !.status = status]
  BY <1>1 DEF ResolvedTo
<1>5. Keys(proposals'[t]) = Keys(proposals[t]) /\ p \in Keys(proposals[t])
  BY <1>1, <1>2, <1>3, <1>4, ProposalAssumption DEF Keys
<1>6. \A r \in Keys(proposals[t]) \ {p} : proposals'[t][r] = proposals[t][r]
  BY <1>1, <1>4 DEF Keys
<1> QED BY <1>2, <1>4, <1>5, <1>6 DEF StoredProposal

\* The log a step leaves holds every checkpoint of the log before it, unless
\* the session is gone.
LEMMA LogGrows ==
  ASSUME TypeOK, NEW t \in Sessions, SessionStep(t), ~Emptied(t)
  PROVE  \A i \in DOMAIN checkpoints[t] :
           i \in DOMAIN checkpoints'[t] /\ checkpoints'[t][i] = checkpoints[t][i]
<1>1. ASSUME NEW kind, NEW m, Logged(t, kind, m)
      PROVE  \A i \in DOMAIN checkpoints[t] :
               i \in DOMAIN checkpoints'[t] /\ checkpoints'[t][i] = checkpoints[t][i]
  <2>1. PICK n \in Nat : /\ DOMAIN checkpoints[t] = 1..n
                         /\ DOMAIN checkpoints'[t] = 1..(n + 1)
                         /\ \A i \in 1..n : checkpoints'[t][i] = checkpoints[t][i]
    BY <1>1, LoggedLog
  <2> QED BY <2>1
<1>2. (\E kind, m : Logged(t, kind, m)) \/ checkpoints'[t] = checkpoints[t]
  <2>1. CASE Reverted(t)
    BY <2>1 DEF Reverted
  <2>2. CASE ~Reverted(t)
    BY <2>2 DEF SessionStep, Same, Created, Replaced, Proposed, Edited
  <2> QED BY <2>1, <2>2
<1> QED BY <1>1, <1>2

\* An accepted proposal enters the log in the step that accepts it, and the log is
\* only appended to.
LEMMA NextInTheLog ==
  TypeOK /\ LogReplays /\ AcceptedProposalsAreInTheLog /\ [Next]_vars
    => AcceptedProposalsAreInTheLog'
<1> SUFFICES ASSUME TypeOK, LogReplays, AcceptedProposalsAreInTheLog, [Next]_vars,
                    NEW t \in Sessions
             PROVE  InTheLog(proposals'[t], checkpoints'[t], version'[t])
  BY DEF AcceptedProposalsAreInTheLog
<1> DEFINE ps == proposals[t]
           cs == checkpoints[t]
           v  == version[t]
           Logs(p, c) == \E i \in DOMAIN c : /\ c[i].kind = "edit"
                                             /\ c[i].base = ps[p].base
                                             /\ c[i].mutation = ps[p].mutation
<1>1. InTheLog(ps, cs, v) /\ Replays(cs, v, graph[t])
  BY DEF AcceptedProposalsAreInTheLog, LogReplays
<1>2. v \in Nat /\ ps \in [ProposalIds -> StoredProposal \cup {None}]
  BY DEF TypeOK, Dict
<1>3. \A p \in Keys(ps) : p \in ProposalIds /\ ps[p].base \in Nat
  BY <1>2 DEF Keys, StoredProposal
<1>4. SessionStep(t)
  BY StepsAreSessionSteps
<1>5. CASE Emptied(t)
  BY <1>5 DEF Emptied, InTheLog
<1> SUFFICES ASSUME ~Emptied(t)
             PROVE  InTheLog(proposals'[t], checkpoints'[t], version'[t])
  BY <1>5
<1>6. \A p \in Keys(ps) : Logs(p, cs) => Logs(p, checkpoints'[t])
  BY <1>4, LogGrows
<1>7. ASSUME proposals'[t] = ps, version'[t] \in {v, v + 1}
      PROVE  InTheLog(proposals'[t], checkpoints'[t], version'[t])
  BY <1>1, <1>2, <1>3, <1>6, <1>7 DEF InTheLog
<1>8. ASSUME Proposed(t) PROVE InTheLog(proposals'[t], checkpoints'[t], version'[t])
  <2>1. PICK p \in ProposalIds, m \in Mutations :
          /\ ps[p] = None
          /\ proposals'[t] = [ps EXCEPT ![p] =
               [mutation |-> m, base |-> v, applies |-> CanApply(graph[t], m),
                status |-> "pending"]]
          /\ version'[t] = v /\ checkpoints'[t] = cs
    BY <1>8 DEF Proposed
  <2>2. /\ Keys(proposals'[t]) \subseteq Keys(ps) \cup {p} /\ p \notin Keys(ps)
        /\ \A r \in Keys(ps) : proposals'[t][r] = ps[r]
        /\ proposals'[t][p].base = v /\ proposals'[t][p].status = "pending"
    BY <1>2, <2>1 DEF Keys
  <2> QED BY <1>1, <1>2, <2>1, <2>2 DEF InTheLog
<1>9. ASSUME NEW p \in ProposalIds, ResolvedTo(t, p, "rejected"),
             version'[t] = v, checkpoints'[t] = cs
      PROVE  InTheLog(proposals'[t], checkpoints'[t], version'[t])
  <2>1. /\ Keys(proposals'[t]) = Keys(ps) /\ p \in Keys(ps)
        /\ \A r \in Keys(ps) \ {p} : proposals'[t][r] = ps[r]
        /\ proposals'[t][p].base = ps[p].base /\ proposals'[t][p].status = "rejected"
    BY <1>9, ResolvedDict DEF ProposalStatus
  <2> QED BY <1>1, <1>9, <2>1 DEF InTheLog
<1>10. ASSUME NEW p \in ProposalIds, ResolvedTo(t, p, "accepted"), ps[p].base = v,
              Edited(t, ps[p].mutation)
       PROVE  InTheLog(proposals'[t], checkpoints'[t], version'[t])
  <2>1. /\ Keys(proposals'[t]) = Keys(ps) /\ p \in Keys(ps) /\ ps[p].status = "pending"
        /\ \A r \in Keys(ps) \ {p} : proposals'[t][r] = ps[r]
        /\ proposals'[t][p].base = v /\ proposals'[t][p].mutation = ps[p].mutation
    BY <1>10, ResolvedDict DEF ProposalStatus
  <2>2. Logs(p, checkpoints'[t])
    <3>1. PICK n \in Nat :
            /\ DOMAIN checkpoints'[t] = 1..(n + 1)
            /\ checkpoints'[t][n + 1] =
                 [kind |-> "edit", base |-> v, mutation |-> ps[p].mutation,
                  previous |-> graph[t], resulting |-> v + 1]
      BY <1>10, LoggedLog DEF Edited
    <3>2. n + 1 \in DOMAIN checkpoints'[t]
      BY <3>1
    <3> QED BY <1>10, <3>1, <3>2
  <2>3. version'[t] = v + 1
    BY <1>10 DEF Edited, Logged
  <2>4. ASSUME NEW r \in Keys(ps) \ {p}, ps[r].status = "accepted" PROVE ps[r].base # v
    <3>1. PICK i \in DOMAIN cs : cs[i].base = ps[r].base
      BY <1>1, <2>4 DEF InTheLog
    <3>2. cs[i].base + 1 <= v
      BY <1>1 DEF Replays
    <3> QED BY <1>2, <1>3, <2>4, <3>1, <3>2
  <2>5. ASSUME NEW r \in Keys(ps)
        PROVE  /\ proposals'[t][r].base = ps[r].base
               /\ proposals'[t][r].base <= v + 1
               /\ proposals'[t][r].mutation = ps[r].mutation
               /\ proposals'[t][r].status = "accepted" => Logs(r, checkpoints'[t])
    BY <1>1, <1>2, <1>3, <1>6, <1>10, <2>1, <2>2 DEF InTheLog
  <2>6. ASSUME NEW r \in Keys(ps), NEW q \in Keys(ps) \ {r},
               proposals'[t][r].status = "accepted", proposals'[t][q].status = "accepted"
        PROVE  ps[r].base # ps[q].base
    BY <1>1, <1>10, <2>1, <2>4, <2>6 DEF InTheLog
  <2> QED BY <2>1, <2>3, <2>5, <2>6 DEF InTheLog
<1>11. CASE Same(t) \/ Created(t) \/ Replaced(t) \/ Reverted(t)
            \/ \E m \in Mutations : Edited(t, m) /\ proposals'[t] = ps
  BY <1>7, <1>11 DEF Same, Created, Replaced, Reverted, Edited, Logged
<1> QED BY <1>4, <1>8, <1>9, <1>10, <1>11 DEF SessionStep

\* A proposal is applied exactly when it was accepted, on the version it was
\* computed against, and then only it: no race of accepts, edits, reverts and
\* replacements puts two changes on one version.
THEOREM AcceptedAreLogged == Spec => []AcceptedProposalsAreInTheLog
<1> DEFINE Inv == TypeOK /\ LogReplays /\ AcceptedProposalsAreInTheLog
<1>1. Init => Inv
  BY InitTypeOK, InitLogReplays DEF Init, AcceptedProposalsAreInTheLog, InTheLog, Keys, Empty
<1>2. Inv /\ [Next]_vars => Inv'
  BY NextTypeOK, NextLogReplays, NextInTheLog
<1> QED BY <1>1, <1>2, PTL DEF Spec

\* A proposal on the current version was diagnosed against the current graph.
LEMMA NextVerdicts ==
  TypeOK /\ AcceptedProposalsAreInTheLog /\ DiagnosticsStayTrue /\ [Next]_vars
    => DiagnosticsStayTrue'
<1> SUFFICES ASSUME TypeOK, AcceptedProposalsAreInTheLog, DiagnosticsStayTrue, [Next]_vars,
                    NEW t \in Sessions
             PROVE  TrueVerdicts(proposals'[t], version'[t], graph'[t])
  BY DEF DiagnosticsStayTrue
<1> DEFINE ps == proposals[t]
           v  == version[t]
<1>1. TrueVerdicts(ps, v, graph[t]) /\ \A p \in Keys(ps) : ps[p].base <= v
  BY DEF DiagnosticsStayTrue, AcceptedProposalsAreInTheLog, InTheLog
<1>2. v \in Nat /\ ps \in [ProposalIds -> StoredProposal \cup {None}]
  BY DEF TypeOK, Dict
<1>3. \A p \in Keys(ps) : p \in ProposalIds /\ ps[p].base \in Nat
  BY <1>2 DEF Keys, StoredProposal
<1>4. SessionStep(t)
  BY StepsAreSessionSteps
<1>5. CASE Same(t) BY <1>1, <1>5 DEF Same
<1>6. CASE Emptied(t) BY <1>6 DEF Emptied, TrueVerdicts
<1>7. CASE Created(t) BY <1>7 DEF Created, TypeOK, TrueVerdicts
<1>8. ASSUME version'[t] = v + 1, proposals'[t] = ps
      PROVE  TrueVerdicts(proposals'[t], version'[t], graph'[t])
  BY <1>1, <1>2, <1>3, <1>8 DEF TrueVerdicts
<1>9. ASSUME Proposed(t) PROVE TrueVerdicts(proposals'[t], version'[t], graph'[t])
  <2>1. PICK p \in ProposalIds, m \in Mutations :
          /\ ps[p] = None
          /\ proposals'[t] = [ps EXCEPT ![p] =
               [mutation |-> m, base |-> v, applies |-> CanApply(graph[t], m),
                status |-> "pending"]]
          /\ version'[t] = v /\ graph'[t] = graph[t]
    BY <1>9 DEF Proposed
  <2>2. /\ Keys(proposals'[t]) \subseteq Keys(ps) \cup {p}
        /\ \A r \in Keys(ps) : proposals'[t][r] = ps[r]
        /\ proposals'[t][p].applies = CanApply(graph[t], m)
        /\ proposals'[t][p].mutation = m
    BY <1>2, <2>1 DEF Keys
  <2> QED BY <1>1, <2>1, <2>2 DEF TrueVerdicts
<1>10. ASSUME NEW p \in ProposalIds, NEW status \in {"accepted", "rejected"},
              ResolvedTo(t, p, status), version'[t] \in {v, v + 1},
              version'[t] = v => graph'[t] = graph[t]
       PROVE  TrueVerdicts(proposals'[t], version'[t], graph'[t])
  <2>1. /\ Keys(proposals'[t]) = Keys(ps)
        /\ \A r \in Keys(ps) \ {p} : proposals'[t][r] = ps[r]
        /\ proposals'[t][p].status # "pending"
    BY <1>10, ResolvedDict DEF ProposalStatus
  <2> QED BY <1>1, <1>2, <1>3, <1>10, <2>1 DEF TrueVerdicts
<1>11. ASSUME NEW p \in ProposalIds, ResolvedTo(t, p, "rejected"),
              graph'[t] = graph[t], version'[t] = v
       PROVE  TrueVerdicts(proposals'[t], version'[t], graph'[t])
  BY <1>10, <1>11
<1>12. ASSUME NEW p \in ProposalIds, NEW m, ResolvedTo(t, p, "accepted"), Edited(t, m)
       PROVE  TrueVerdicts(proposals'[t], version'[t], graph'[t])
  <2>1. version'[t] = v + 1
    BY <1>12 DEF Edited, Logged
  <2> QED BY <1>2, <1>10, <1>12, <2>1
<1>13. CASE Replaced(t) \/ Reverted(t) \/ \E m \in Mutations : Edited(t, m) /\ proposals'[t] = ps
  BY <1>8, <1>13 DEF Replaced, Reverted, Edited, Logged
<1> QED BY <1>4, <1>5, <1>6, <1>7, <1>9, <1>11, <1>12, <1>13 DEF SessionStep

\* The verdict shown with a pending proposal is the one accepting it will meet:
\* whatever happens in between either leaves the graph alone or makes the
\* proposal stale.
THEOREM VerdictsStayTrue == Spec => []DiagnosticsStayTrue
<1> DEFINE Inv == /\ TypeOK /\ LogReplays
                  /\ AcceptedProposalsAreInTheLog /\ DiagnosticsStayTrue
<1>1. Init => Inv
  BY InitTypeOK, InitLogReplays
     DEF Init, AcceptedProposalsAreInTheLog, InTheLog, DiagnosticsStayTrue, TrueVerdicts,
         Keys, Empty
<1>2. Inv /\ [Next]_vars => Inv'
  BY NextTypeOK, NextLogReplays, NextInTheLog, NextVerdicts
<1> QED BY <1>1, <1>2, PTL DEF Spec

----------------------------------------------------------------------------
\* What a step may do to the records of a session that lives on.
LEMMA StepKeepsRecords ==
  ASSUME TypeOK, [Next]_vars, NEW t \in Sessions, Live(t), Live(t)'
  PROVE  /\ Len(checkpoints[t]) <= Len(checkpoints'[t])
         /\ \A i \in DOMAIN checkpoints[t] : checkpoints'[t][i] = checkpoints[t][i]
         /\ \A p \in Keys(proposals[t]) :
              /\ p \in Keys(proposals'[t])
              /\ proposals'[t][p].mutation = proposals[t][p].mutation
              /\ proposals'[t][p].base = proposals[t][p].base
              /\ proposals[t][p].status # "pending" =>
                   proposals'[t][p].status = proposals[t][p].status
<1> DEFINE ps == proposals[t]
<1>1. SessionStep(t) /\ ~Emptied(t)
  BY StepsAreSessionSteps DEF Emptied, Live
<1>2. \A i \in DOMAIN checkpoints[t] :
        i \in DOMAIN checkpoints'[t] /\ checkpoints'[t][i] = checkpoints[t][i]
  BY <1>1, LogGrows
<1>3. Len(checkpoints[t]) <= Len(checkpoints'[t])
  <2>1. checkpoints[t] \in Seq(Checkpoint) /\ checkpoints'[t] \in Seq(Checkpoint)
    BY NextTypeOK DEF TypeOK
  <2>2. CASE checkpoints[t] = <<>> BY <2>1, <2>2
  <2>3. CASE checkpoints[t] # <<>>
    <3>1. Len(checkpoints[t]) \in DOMAIN checkpoints[t]
      BY <2>1, <2>3
    <3> QED BY <1>2, <2>1, <3>1
  <2> QED BY <2>2, <2>3
<1>4. ps \in [ProposalIds -> StoredProposal \cup {None}]
  BY DEF TypeOK, Dict
<1>5. ASSUME NEW p \in Keys(ps)
      PROVE  /\ p \in Keys(proposals'[t])
             /\ proposals'[t][p].mutation = ps[p].mutation
             /\ proposals'[t][p].base = ps[p].base
             /\ ps[p].status # "pending" => proposals'[t][p].status = ps[p].status
  <2>1. CASE proposals'[t] = ps
    BY <2>1
  <2>2. CASE Proposed(t)
    <3>1. PICK k \in ProposalIds : ps[k] = None /\ \E x : proposals'[t] = [ps EXCEPT ![k] = x]
      BY <2>2 DEF Proposed
    <3> QED BY <1>4, <1>5, <3>1 DEF Keys
  <2>3. ASSUME NEW k \in ProposalIds, NEW status \in {"accepted", "rejected"},
               ResolvedTo(t, k, status)
        PROVE  /\ p \in Keys(proposals'[t])
               /\ proposals'[t][p].mutation = ps[p].mutation
               /\ proposals'[t][p].base = ps[p].base
               /\ ps[p].status # "pending" => proposals'[t][p].status = ps[p].status
    BY <1>5, <2>3, ResolvedDict DEF ProposalStatus
  <2> QED BY <1>1, <2>1, <2>2, <2>3 DEF SessionStep, Same, Created, Replaced, Reverted
<1> QED BY <1>2, <1>3, <1>5

\* The log only grows and resolved proposals stay resolved.
THEOREM RecordsKept == Spec => RecordsAreKept
<1>1. TypeOK /\ [Next]_vars =>
        [\A s \in Sessions : Live(s) /\ Live(s)' =>
           /\ Len(checkpoints[s]) <= Len(checkpoints'[s])
           /\ \A i \in DOMAIN checkpoints[s] : checkpoints'[s][i] = checkpoints[s][i]
           /\ \A p \in Keys(proposals[s]) :
                /\ p \in Keys(proposals'[s])
                /\ proposals'[s][p].mutation = proposals[s][p].mutation
                /\ proposals'[s][p].base = proposals[s][p].base
                /\ proposals[s][p].status # "pending" =>
                     proposals'[s][p].status = proposals[s][p].status]_vars
  BY StepKeepsRecords
<1> QED BY TypeCorrect, <1>1, PTL DEF Spec, RecordsAreKept

----------------------------------------------------------------------------
\* What a step may do to the queue of a subscriber.

\* A queue that is closed is empty, and so is one that is opened.
Quiet == \A q \in Queues : watching[q] = None => queue[q] = <<>>

\* What EventsAreTrue says of one event.
TrueEvent(s, event) ==
  /\ event.type = "proposal_accepted" =>
       event.proposal \in Keys(proposals[s]) /\ proposals[s][event.proposal].status = "accepted"
  /\ event.type = "proposal_rejected" =>
       event.proposal \in Keys(proposals[s]) /\ proposals[s][event.proposal].status = "rejected"
  /\ event.type \in {"graph_changed", "graph_reverted", "proposal_accepted"} =>
       \E k \in DOMAIN checkpoints[s] : checkpoints[s][k].resulting = event.version

Undisturbed(t, q) == /\ q \in subscribers[t]
                     /\ version'[t] = version[t]
                     /\ queue'[q] = queue[q] /\ told'[q] = told[q]

\* A version is bumped with an event that carries it.
Pushed(t, q) == \E event \in Event :
  /\ q \in subscribers[t]
  /\ queue'[q] = Append(queue[q], event) /\ told'[q] = told[q]
  /\ \/ event.version = 0 /\ version'[t] = version[t]
     \/ event.version = version[t] + 1 /\ version'[t] = version[t] + 1
  /\ TrueEvent(t, event)'

Read(t, q) == /\ q \in subscribers[t] /\ version'[t] = version[t]
              /\ queue[q] # <<>> /\ queue'[q] = Tail(queue[q])
              /\ told'[q] = IF Head(queue[q]).version > 0 THEN Head(queue[q]).version ELSE told[q]

Opened(t, q) == /\ queue'[q] = <<>>
                /\ told'[q] = version[t] /\ version'[t] = version[t]

StreamStep(t, q) == Undisturbed(t, q) \/ Pushed(t, q) \/ Read(t, q) \/ Opened(t, q)

\* A session that publishes pushes to its subscribers, another one leaves them be.
LEMMA PublishSteps ==
  ASSUME TypeOK, NEW s \in Sessions, NEW event \in Event, Publish(s, event),
         NEW t \in Sessions, NEW q \in subscribers'[t],
         \/ event.version = 0 /\ version' = version
         \/ event.version = version[s] + 1 /\ version' = [version EXCEPT ![s] = @ + 1],
         TrueEvent(s, event)'
  PROVE  StreamStep(t, q)
<1>1. /\ q \in subscribers[t] /\ q \in Queues /\ told'[q] = told[q]
      /\ queue'[q] = IF q \in subscribers[s] THEN Append(queue[q], event) ELSE queue[q]
  BY DEF TypeOK, Publish
<1>2. CASE s = t BY <1>1, <1>2 DEF TypeOK, StreamStep, Pushed
<1>3. CASE s # t
  <2>1. q \notin subscribers[s] BY <1>1, <1>3 DEF TypeOK
  <2>2. version'[t] = version[t] BY <1>3 DEF TypeOK
  <2> QED BY <1>1, <2>1, <2>2 DEF StreamStep, Undisturbed
<1> QED BY <1>2, <1>3

\* The checkpoint an event tells of is there when it is published.
LEMMA RecordedIsThere ==
  ASSUME TypeOK, NEW s \in Sessions, NEW kind, NEW m, Record(s, kind, m)
  PROVE  \E k \in DOMAIN checkpoints'[s] : checkpoints'[s][k].resulting = version[s] + 1
<1> DEFINE c == [kind |-> kind, base |-> version[s], mutation |-> m, previous |-> graph[s],
                 resulting |-> version[s] + 1]
<1>1. checkpoints'[s] = Append(checkpoints[s], c) /\ checkpoints[s] \in Seq(Checkpoint)
  BY DEF TypeOK, Record
<1>2. c.resulting = version[s] + 1 OBVIOUS
<1> HIDE DEF c
<1>3. PICK n \in Nat : n = Len(checkpoints[s]) + 1 BY <1>1
<1>4. n \in DOMAIN checkpoints'[s] /\ checkpoints'[s][n] = c BY <1>1, <1>3
<1> QED BY <1>2, <1>4

LEMMA StepsAreStreamSteps ==
  ASSUME TypeOK, Quiet, [Next]_vars, NEW t \in Sessions, NEW q \in subscribers'[t]
  PROVE  StreamStep(t, q)
<1> USE DEF TypeOK
<1>1. ASSUME UNCHANGED vars PROVE StreamStep(t, q)
  BY <1>1 DEF vars, StreamStep, Undisturbed
<1>2. ASSUME NEW s \in Sessions, NEW g \in Graphs \cup {EmptyGraph}, Create(s, g)
      PROVE  StreamStep(t, q)
  BY <1>2 DEF Create, streams, StreamStep, Undisturbed
<1>3. ASSUME NEW s \in Sessions, Delete(s) PROVE StreamStep(t, q)
  BY <1>3 DEF Delete, StreamStep, Undisturbed
<1>4. ASSUME NEW s \in Sessions, NEW g \in Graphs, NEW base \in 0..version[s],
             ReplaceGraph(s, g, base)
      PROVE  StreamStep(t, q)
  <2>1. PICK event \in Event :
          /\ event = GraphEvent("graph_replaced", version[s] + 1)
          /\ event.version = version[s] + 1 /\ event.type = "graph_replaced"
    <3>1. GraphEvent("graph_replaced", version[s] + 1) \in Event BY DEF GraphEvent, ProposalEvent, Event, EventType
    <3> QED BY <3>1 DEF GraphEvent, ProposalEvent
  <2>2. Publish(s, event) /\ version' = [version EXCEPT ![s] = @ + 1]
    BY <2>1, <1>4 DEF ReplaceGraph, WriteGraph
  <2>3. TrueEvent(s, event)' BY <2>1 DEF TrueEvent
  <2> QED BY <2>1, <2>2, <2>3, PublishSteps
<1>5. ASSUME NEW s \in Sessions, NEW p \in ProposalIds, NEW m \in Mutations,
             NEW base \in 0..version[s], AddProposal(s, p, m, base)
      PROVE  StreamStep(t, q)
  <2>1. PICK event \in Event :
          /\ event = ProposalEvent("proposal_added", p, 0)
          /\ event.version = 0 /\ event.type = "proposal_added"
    <3>1. ProposalEvent("proposal_added", p, 0) \in Event BY DEF GraphEvent, ProposalEvent, Event, EventType
    <3> QED BY <3>1 DEF GraphEvent, ProposalEvent
  <2>2. Publish(s, event) /\ version' = version
    BY <2>1, <1>5 DEF AddProposal
  <2>3. TrueEvent(s, event)' BY <2>1 DEF TrueEvent
  <2> QED BY <2>1, <2>2, <2>3, PublishSteps
<1>6. ASSUME NEW s \in Sessions, NEW p \in ProposalIds, AcceptProposal(s, p)
      PROVE  StreamStep(t, q)
  <2>1. PICK event \in Event :
          /\ event = ProposalEvent("proposal_accepted", p, version[s] + 1)
          /\ event.version = version[s] + 1 /\ event.type = "proposal_accepted"
             /\ event.proposal = p
    <3>1. ProposalEvent("proposal_accepted", p, version[s] + 1) \in Event BY DEF GraphEvent, ProposalEvent, Event, EventType
    <3> QED BY <3>1 DEF GraphEvent, ProposalEvent
  <2>2. Publish(s, event) /\ version' = [version EXCEPT ![s] = @ + 1]
    BY <2>1, <1>6 DEF AcceptProposal, WriteGraph
  <2>3. ResolvedTo(s, p, "accepted")
    BY <1>6 DEF AcceptProposal, Resolve, ResolvedTo
  <2>4. p \in Keys(proposals'[s]) /\ proposals'[s][p].status = "accepted"
    BY <2>3, ResolvedDict DEF ProposalStatus
  <2>5. \E k \in DOMAIN checkpoints'[s] : checkpoints'[s][k].resulting = version[s] + 1
    BY <1>6, RecordedIsThere DEF AcceptProposal
  <2>6. TrueEvent(s, event)' BY <2>1, <2>4, <2>5 DEF TrueEvent
  <2> QED BY <2>1, <2>2, <2>6, PublishSteps
<1>7. ASSUME NEW s \in Sessions, NEW p \in ProposalIds, RejectProposal(s, p)
      PROVE  StreamStep(t, q)
  <2>1. PICK event \in Event :
          /\ event = ProposalEvent("proposal_rejected", p, 0)
          /\ event.version = 0 /\ event.type = "proposal_rejected"
             /\ event.proposal = p
    <3>1. ProposalEvent("proposal_rejected", p, 0) \in Event BY DEF GraphEvent, ProposalEvent, Event, EventType
    <3> QED BY <3>1 DEF GraphEvent, ProposalEvent
  <2>2. Publish(s, event) /\ version' = version
    BY <2>1, <1>7 DEF RejectProposal
  <2>3. ResolvedTo(s, p, "rejected")
    BY <1>7 DEF RejectProposal, Resolve, ResolvedTo
  <2>4. p \in Keys(proposals'[s]) /\ proposals'[s][p].status = "rejected"
    BY <2>3, ResolvedDict DEF ProposalStatus
  <2>5. TrueEvent(s, event)' BY <2>1, <2>4 DEF TrueEvent
  <2> QED BY <2>1, <2>2, <2>5, PublishSteps
<1>8. ASSUME NEW s \in Sessions, NEW m \in Mutations, NEW base \in 0..version[s],
             NEW author \in Authors \cup {BadAuthor}, ApplyDirectMutation(s, m, base, author)
      PROVE  StreamStep(t, q)
  <2>1. PICK event \in Event :
          /\ event = GraphEvent("graph_changed", version[s] + 1)
          /\ event.version = version[s] + 1 /\ event.type = "graph_changed"
    <3>1. GraphEvent("graph_changed", version[s] + 1) \in Event BY DEF GraphEvent, ProposalEvent, Event, EventType
    <3> QED BY <3>1 DEF GraphEvent, ProposalEvent
  <2>2. Publish(s, event) /\ version' = [version EXCEPT ![s] = @ + 1]
    BY <2>1, <1>8 DEF ApplyDirectMutation, WriteGraph
  <2>3. \E k \in DOMAIN checkpoints'[s] : checkpoints'[s][k].resulting = version[s] + 1
    BY <1>8, RecordedIsThere DEF ApplyDirectMutation
  <2>4. TrueEvent(s, event)' BY <2>1, <2>3 DEF TrueEvent
  <2> QED BY <2>1, <2>2, <2>4, PublishSteps
<1>9. ASSUME NEW s \in Sessions, NEW i \in DOMAIN checkpoints[s], RevertCheckpoint(s, i)
      PROVE  StreamStep(t, q)
  <2>1. PICK event \in Event :
          /\ event = GraphEvent("graph_reverted", version[s] + 1)
          /\ event.version = version[s] + 1 /\ event.type = "graph_reverted"
    <3>1. GraphEvent("graph_reverted", version[s] + 1) \in Event BY DEF GraphEvent, ProposalEvent, Event, EventType
    <3> QED BY <3>1 DEF GraphEvent, ProposalEvent
  <2>2. Publish(s, event) /\ version' = [version EXCEPT ![s] = @ + 1]
    BY <2>1, <1>9 DEF RevertCheckpoint, WriteGraph
  <2>3. \E k \in DOMAIN checkpoints'[s] : checkpoints'[s][k].resulting = version[s] + 1
    BY <1>9, RecordedIsThere DEF RevertCheckpoint
  <2>4. TrueEvent(s, event)' BY <2>1, <2>3 DEF TrueEvent
  <2> QED BY <2>1, <2>2, <2>4, PublishSteps
<1>10. ASSUME NEW r \in Queues, NEW s \in Sessions, Subscribe(r, s) PROVE StreamStep(t, q)
  <2>1. CASE q \in subscribers[t]
    <3>1. q # r BY <1>10, <2>1, SessionAssumption DEF Subscribe
    <3> QED BY <1>10, <2>1, <3>1 DEF Subscribe, document, StreamStep, Undisturbed
  <2>2. CASE q \notin subscribers[t]
    <3>1. q = r /\ s = t BY <1>10, <2>2 DEF Subscribe
    <3> QED BY <1>10, <3>1 DEF Subscribe, document, Quiet, StreamStep, Opened
  <2> QED BY <2>1, <2>2
<1>11. ASSUME NEW r \in Queues, Deliver(r) PROVE StreamStep(t, q)
  <2>1. CASE q = r BY <1>11, <2>1 DEF Deliver, document, StreamStep, Read
  <2>2. CASE q # r BY <1>11, <2>2 DEF Deliver, document, StreamStep, Undisturbed
  <2> QED BY <2>1, <2>2
<1>12. ASSUME NEW r \in Queues, Unsubscribe(r) PROVE StreamStep(t, q)
  <2>1. q \in subscribers[t] \ {r} BY <1>12 DEF Unsubscribe
  <2> QED BY <1>12, <2>1 DEF Unsubscribe, document, StreamStep, Undisturbed
<1> QED BY <1>1, <1>2, <1>3, <1>4, <1>5, <1>6, <1>7, <1>8, <1>9, <1>10, <1>11, <1>12 DEF Next

\* A closed queue holds nothing.
LEMMA NextQuiet == TypeOK /\ Quiet /\ [Next]_vars => Quiet'
<1> SUFFICES ASSUME TypeOK, Quiet, [Next]_vars PROVE Quiet'
  OBVIOUS
<1>1. ASSUME NEW s \in Sessions, NEW event, Publish(s, event) PROVE Quiet'
  <2>1. \A q \in subscribers[s] : watching[q] # None BY SessionAssumption DEF TypeOK
  <2> QED BY <1>1, <2>1 DEF Quiet, Publish
<1>2. ASSUME UNCHANGED <<watching, queue>> PROVE Quiet'
  BY <1>2 DEF Quiet
<1>3. ASSUME NEW s \in Sessions PROVE
        /\ \A g : Create(s, g) => Quiet'
        /\ Delete(s) => Quiet'
        /\ \A g, base : ReplaceGraph(s, g, base) => Quiet'
        /\ \A p, m, base : AddProposal(s, p, m, base) => Quiet'
        /\ \A p : AcceptProposal(s, p) => Quiet'
        /\ \A p : RejectProposal(s, p) => Quiet'
        /\ \A m, base, author : ApplyDirectMutation(s, m, base, author) => Quiet'
        /\ \A i : RevertCheckpoint(s, i) => Quiet'
  BY <1>1, <1>2 DEF Create, Delete, ReplaceGraph, AddProposal, AcceptProposal, RejectProposal,
                    ApplyDirectMutation, RevertCheckpoint, streams
<1>4. ASSUME NEW q \in Queues, NEW s \in Sessions, Subscribe(q, s) PROVE Quiet'
  BY <1>4, SessionAssumption DEF Subscribe, Quiet, TypeOK
<1>5. ASSUME NEW q \in Queues, Deliver(q) PROVE Quiet'
  BY <1>5 DEF Deliver, Quiet, TypeOK
<1>6. ASSUME NEW q \in Queues, Unsubscribe(q) PROVE Quiet'
  BY <1>6 DEF Unsubscribe, Quiet, TypeOK
<1>7. CASE UNCHANGED vars BY <1>2, <1>7 DEF vars
<1> QED BY <1>3, <1>4, <1>5, <1>6, <1>7 DEF Next

\* The events on a queue between two versions.
Gapless(events, from, to) ==
  /\ from <= to
  /\ \A i \in DOMAIN events : events[i].version > 0 => events[i].version \in (from + 1)..to
  /\ \A v \in (from + 1)..to : \E i \in DOMAIN events : events[i].version = v
  /\ \A i, j \in DOMAIN events :
       i < j /\ events[i].version > 0 /\ events[j].version > 0 => events[i].version < events[j].version

LEMMA GaplessPushed ==
  ASSUME NEW events \in Seq(Event), NEW from \in Nat, NEW to \in Nat, Gapless(events, from, to),
         NEW event \in Event
  PROVE  /\ event.version = 0 => Gapless(Append(events, event), from, to)
         /\ event.version = to + 1 => Gapless(Append(events, event), from, to + 1)
<1> DEFINE more == Append(events, event)
           n == Len(events)
<1>a. n \in Nat /\ DOMAIN events = 1..n
  OBVIOUS
<1>b. /\ DOMAIN more = 1..(n + 1) /\ more[n + 1] = event
      /\ \A i \in 1..n : more[i] = events[i]
  BY <1>a
<1>c. \A i \in DOMAIN events : events[i] \in Event
  BY <1>a
<1>d. \A i \in DOMAIN events : events[i].version \in Nat
  BY <1>c DEF Event
<1>1. /\ n \in Nat /\ DOMAIN events = 1..n /\ DOMAIN more = 1..(n + 1)
      /\ more[n + 1] = event /\ \A i \in DOMAIN events : more[i] = events[i]
      /\ \A i \in DOMAIN events : events[i].version \in Nat
  BY <1>a, <1>b, <1>d
<1> HIDE DEF more, n
<1>2. ASSUME event.version = 0 PROVE Gapless(more, from, to)
  BY <1>1, <1>2 DEF Gapless
<1>3. ASSUME event.version = to + 1 PROVE Gapless(more, from, to + 1)
  <2>1. \A i \in DOMAIN more : more[i].version > 0 => more[i].version \in (from + 1)..(to + 1)
    BY <1>1, <1>3 DEF Gapless
  <2>2. ASSUME NEW v \in (from + 1)..(to + 1) PROVE \E i \in DOMAIN more : more[i].version = v
    <3>1. CASE v = to + 1
      <4>1. n + 1 \in DOMAIN more /\ more[n + 1].version = v BY <1>1, <1>3, <3>1
      <4> QED BY <4>1
    <3>2. CASE v # to + 1
      <4>1. PICK i \in DOMAIN events : events[i].version = v BY <3>2 DEF Gapless
      <4>2. i \in DOMAIN more /\ more[i].version = v BY <1>1, <4>1
      <4> QED BY <4>2
    <3> QED BY <3>1, <3>2
  <2>3. ASSUME NEW i \in DOMAIN more, NEW j \in DOMAIN more, i < j,
               more[i].version > 0, more[j].version > 0
        PROVE  more[i].version < more[j].version
    <3>1. i \in DOMAIN events BY <1>1, <2>3
    <3>2. CASE j \in DOMAIN events BY <1>1, <2>3, <3>1, <3>2 DEF Gapless
    <3>3. CASE j \notin DOMAIN events
      <4>1. j = n + 1 BY <1>1, <3>3
      <4>2. events[i].version <= to BY <1>1, <2>3, <3>1 DEF Gapless
      <4> QED BY <1>1, <1>3, <3>1, <4>1, <4>2
    <3> QED BY <3>2, <3>3
  <2>4. from <= to + 1 BY DEF Gapless
  <2> QED BY <2>1, <2>2, <2>3, <2>4, Zenon DEF Gapless
<1> QED BY <1>2, <1>3 DEF more

LEMMA GaplessRead ==
  ASSUME NEW events \in Seq(Event), events # <<>>, NEW from \in Nat, NEW to \in Nat,
         Gapless(events, from, to)
  PROVE  Gapless(Tail(events), IF Head(events).version > 0 THEN Head(events).version ELSE from, to)
<1> DEFINE rest == Tail(events)
           n == Len(events)
           since == IF Head(events).version > 0 THEN Head(events).version ELSE from
<1>a. n \in Nat \ {0} /\ DOMAIN events = 1..n /\ Head(events) = events[1]
  OBVIOUS
<1>b. DOMAIN rest = 1..(n - 1) /\ \A i \in 1..(n - 1) : rest[i] = events[i + 1]
  BY <1>a
<1>c. \A i \in DOMAIN events : events[i] \in Event
  BY <1>a
<1>d. \A i \in DOMAIN events : events[i].version \in Nat
  BY <1>c DEF Event
<1>1. /\ n \in Nat \ {0} /\ DOMAIN events = 1..n /\ DOMAIN rest = 1..(n - 1)
      /\ Head(events) = events[1] /\ \A i \in DOMAIN rest : rest[i] = events[i + 1]
      /\ \A i \in DOMAIN events : events[i].version \in Nat
  BY <1>a, <1>b, <1>d
<1> HIDE DEF rest, n
<1>2. since <= to /\ since \in Nat /\ since >= from BY <1>1 DEF Gapless
<1>3. ASSUME NEW i \in DOMAIN rest, rest[i].version > 0
      PROVE  rest[i].version \in (since + 1)..to
  <2>1. i + 1 \in DOMAIN events /\ 1 \in DOMAIN events /\ 1 < i + 1 /\ rest[i] = events[i + 1]
    BY <1>1
  <2>2. events[i + 1].version \in (from + 1)..to BY <1>3, <2>1 DEF Gapless
  <2>3. events[1].version > 0 => events[1].version < events[i + 1].version
    BY <1>3, <2>1 DEF Gapless
  <2> QED BY <1>1, <2>1, <2>2, <2>3
<1>4. ASSUME NEW v \in (since + 1)..to PROVE \E i \in DOMAIN rest : rest[i].version = v
  <2>1. v \in (from + 1)..to BY <1>2
  <2>2. PICK i \in DOMAIN events : events[i].version = v BY <2>1 DEF Gapless
  <2>3. i # 1 BY <1>1, <1>2, <2>2
  <2>4. i - 1 \in DOMAIN rest /\ rest[i - 1] = events[i] BY <1>1, <2>3
  <2> QED BY <2>2, <2>4
<1>5. ASSUME NEW i \in DOMAIN rest, NEW j \in DOMAIN rest, i < j,
             rest[i].version > 0, rest[j].version > 0
      PROVE  rest[i].version < rest[j].version
  <2>1. i + 1 \in DOMAIN events /\ j + 1 \in DOMAIN events /\ i + 1 < j + 1 BY <1>1, <1>5
  <2> QED BY <1>1, <1>5, <2>1 DEF Gapless
<1> HIDE DEF since
<1>6. Gapless(rest, since, to) BY <1>2, <1>3, <1>4, <1>5 DEF Gapless
<1> QED BY <1>6 DEF since, rest

LEMMA StreamsAreGapless ==
  StreamIsGapless <=>
    \A s \in Sessions : \A q \in subscribers[s] : Gapless(queue[q], told[q], version[s])
BY DEF StreamIsGapless, Gapless

LEMMA NextStreamIsGapless ==
  TypeOK /\ Quiet /\ StreamIsGapless /\ [Next]_vars => StreamIsGapless'
<1> SUFFICES ASSUME TypeOK, Quiet, StreamIsGapless, [Next]_vars,
                    NEW s \in Sessions, NEW q \in subscribers'[s]
             PROVE  Gapless(queue'[q], told'[q], version'[s])
  <2>1. StreamIsGapless' <=>
          \A s \in Sessions : \A q \in subscribers'[s] : Gapless(queue'[q], told'[q], version'[s])
    BY DEF StreamIsGapless, Gapless
  <2> QED BY <2>1
<1>1. StreamStep(s, q) BY StepsAreStreamSteps
<1>2. /\ q \in Queues /\ version[s] \in Nat /\ told[q] \in Nat /\ queue[q] \in Seq(Event)
  <2>1. TypeOK' BY NextTypeOK
  <2> QED BY <2>1 DEF TypeOK
<1>3. q \in subscribers[s] => Gapless(queue[q], told[q], version[s])
  BY StreamsAreGapless
<1>4. CASE Undisturbed(s, q) BY <1>3, <1>4 DEF Undisturbed
<1>5. CASE Pushed(s, q)
  <2>1. PICK event \in Event :
          /\ q \in subscribers[s]
          /\ queue'[q] = Append(queue[q], event) /\ told'[q] = told[q]
          /\ \/ event.version = 0 /\ version'[s] = version[s]
             \/ event.version = version[s] + 1 /\ version'[s] = version[s] + 1
    BY <1>5 DEF Pushed
  <2> QED BY <1>2, <1>3, <2>1, GaplessPushed
<1>6. CASE Read(s, q) BY <1>2, <1>3, <1>6, GaplessRead DEF Read
<1>7. CASE Opened(s, q) BY <1>2, <1>7 DEF Opened, Gapless
<1> QED BY <1>1, <1>4, <1>5, <1>6, <1>7 DEF StreamStep

\* A subscriber misses no version, and sees none twice or out of order.
THEOREM StreamGapless == Spec => []StreamIsGapless
<1>1. Init => Quiet /\ StreamIsGapless BY DEF Init, Quiet, StreamIsGapless
<1>2. TypeOK /\ Quiet /\ StreamIsGapless /\ [Next]_vars => (Quiet /\ StreamIsGapless)'
  BY NextQuiet, NextStreamIsGapless
<1> QED BY TypeCorrect, <1>1, <1>2, PTL DEF Spec

\* An event stays true for as long as the queue it is on has its session.
LEMMA TrueEventStays ==
  ASSUME TypeOK, [Next]_vars, NEW s \in Sessions, Live(s), Live(s)', NEW event,
         TrueEvent(s, event)
  PROVE  TrueEvent(s, event)'
<1>1. /\ \A i \in DOMAIN checkpoints[s] : checkpoints'[s][i] = checkpoints[s][i]
      /\ Len(checkpoints[s]) <= Len(checkpoints'[s])
      /\ \A p \in Keys(proposals[s]) :
           /\ p \in Keys(proposals'[s])
           /\ proposals[s][p].status # "pending" =>
                proposals'[s][p].status = proposals[s][p].status
  BY StepKeepsRecords
<1>2. \A i \in DOMAIN checkpoints[s] : i \in DOMAIN checkpoints'[s]
  <2>1. checkpoints[s] \in Seq(Checkpoint) /\ checkpoints'[s] \in Seq(Checkpoint)
    BY NextTypeOK DEF TypeOK
  <2> QED BY <1>1, <2>1
<1> QED BY <1>1, <1>2 DEF TrueEvent

LEMMA NextEventsAreTrue ==
  TypeOK /\ Quiet /\ EventsAreTrue /\ [Next]_vars => EventsAreTrue'
<1> SUFFICES ASSUME TypeOK, Quiet, EventsAreTrue, [Next]_vars,
                    NEW s \in Sessions, NEW q \in subscribers'[s], NEW i \in DOMAIN queue'[q],
                    NEW event, event = queue'[q][i]
             PROVE  TrueEvent(s, event)'
  BY DEF EventsAreTrue, TrueEvent
<1>1. StreamStep(s, q) BY StepsAreStreamSteps
<1>2. Live(s)' BY NextTypeOK DEF TypeOK
<1>3. q \in subscribers[s] =>
        /\ q \in Queues /\ Live(s) /\ queue[q] \in Seq(Event)
        /\ \A j \in DOMAIN queue[q] : TrueEvent(s, queue[q][j])
  BY DEF TypeOK, EventsAreTrue, TrueEvent
<1>4. ASSUME NEW j \in DOMAIN queue[q], q \in subscribers[s], event = queue[q][j]
      PROVE  TrueEvent(s, event)'
  BY <1>2, <1>3, <1>4, TrueEventStays
<1>5. CASE Undisturbed(s, q) BY <1>4, <1>5 DEF Undisturbed
<1>6. CASE Pushed(s, q)
  <2>1. PICK new \in Event : /\ q \in subscribers[s]
                             /\ queue'[q] = Append(queue[q], new)
                             /\ TrueEvent(s, new)'
    BY <1>6 DEF Pushed
  <2>2. CASE i \in DOMAIN queue[q] BY <1>3, <1>4, <2>1, <2>2
  <2>3. CASE i \notin DOMAIN queue[q]
    <3>1. event = new BY <1>3, <2>1, <2>3
    <3> QED BY <2>1, <3>1
  <2> QED BY <2>2, <2>3
<1>7. CASE Read(s, q)
  <2>1. i + 1 \in DOMAIN queue[q] /\ event = queue[q][i + 1]
    BY <1>3, <1>7 DEF Read
  <2> QED BY <1>4, <1>7, <2>1 DEF Read
<1>8. CASE Opened(s, q) BY <1>8 DEF Opened
<1> QED BY <1>1, <1>5, <1>6, <1>7, <1>8 DEF StreamStep

\* A subscriber never reads of a change it cannot read back.
THEOREM EventsTrue == Spec => []EventsAreTrue
<1>1. Init => Quiet /\ EventsAreTrue BY DEF Init, Quiet, EventsAreTrue
<1>2. TypeOK /\ Quiet /\ EventsAreTrue /\ [Next]_vars => (Quiet /\ EventsAreTrue)'
  BY NextQuiet, NextEventsAreTrue
<1> QED BY TypeCorrect, <1>1, <1>2, PTL DEF Spec

=============================================================================
