----------------------------- MODULE SessionStore -----------------------------
(***************************************************************************)
(* The shared document of the collaboration layer: collab/session.py.      *)
(*                                                                         *)
(* SessionStore keeps graph sessions in memory.  A session pairs a graph   *)
(* with a version, the proposals made on it and the checkpoints of its     *)
(* edits; watchers subscribe queues to its events.  Every method takes the *)
(* one lock of the store for its whole body, so a method is one action     *)
(* here; SharedDocument.tla opens the lock and interleaves its statements. *)
(*                                                                         *)
(* A request carries the version it was computed against, any version from *)
(* 0 to now, because requests are delayed at will.  A call that raises     *)
(* (unknown session or proposal, stale version, resolved proposal,         *)
(* mutation that does not apply) changes nothing and is no step.           *)
(*                                                                         *)
(* Reviews, gates, tours, attempts and chat live beside the document in    *)
(* the same session and are modelled in modules of their own.              *)
(***************************************************************************)
EXTENDS GraphMutation, Sequences, FiniteSets

CONSTANTS
  Sessions,     \* session ids; a uuid is never used again after deletion
  ProposalIds,  \* ids proposals are given when they are stored
  Queues,       \* subscriber queues, each a stream some client reads
  Graphs,       \* the graphs clients create sessions with or PUT
  Mutations,    \* the mutations clients send
  Authors,      \* valid authors of a direct edit
  BadAuthor,    \* an author Checkpoint validation refuses
  MaxVersion    \* bound on the version of a session

ASSUME SessionAssumption == None \notin Sessions \cup ProposalIds
ASSUME AuthorAssumption == BadAuthor \notin Authors
ASSUME GraphsAssumption == \A g \in Graphs : g \in Graph /\ StructurallyValid(g)
ASSUME MutationsAssumption == Mutations \subseteq GraphMutation
ASSUME BoundAssumption == MaxVersion \in Nat

VARIABLES
  existence,    \* of each session: "absent", "live" or "deleted"
  graph,        \* its current graph
  version,      \* the number of graphs it has had before this one
  proposals,    \* its dict of stored proposals by id
  checkpoints,  \* Checkpoint records in the order of the dict they are put in
  subscribers,  \* the queues _publish pushes an event of the session to
  watching,     \* the session whose stream a queue was opened for
  queue,        \* events pushed and not yet handed to the client
  told          \* what the reader of the queue knows the version to be

vars == <<existence, graph, version, proposals, checkpoints,
          subscribers, watching, queue, told>>

document == <<existence, graph, version, proposals, checkpoints>>
streams == <<subscribers, watching, queue, told>>

----------------------------------------------------------------------------
Existence == {"absent", "live", "deleted"}
ProposalStatus == {"pending", "accepted", "rejected"}

\* A GraphMutation's base_version is kept beside it.  applies: whether the
\* diagnostics of validate-on-propose are free of a mutation_error.
StoredProposal == [mutation : GraphMutation, base : Nat, applies : BOOLEAN,
                   status : ProposalStatus]

Checkpoint == [kind : {"edit", "revert"}, base : Nat, mutation : GraphMutation,
               previous : Graph, resulting : Nat]

\* The fields of an event that tell events apart; version is 0 in an event
\* that carries none.
EventType == {"graph_replaced", "graph_changed", "graph_reverted",
              "proposal_added", "proposal_accepted", "proposal_rejected"}
Event == [type : EventType, version : Nat, proposal : ProposalIds \cup {None}]

ASSUME ProposalAssumption == None \notin StoredProposal

Live(s) == existence[s] = "live"

GraphEvent(type, v) == [type |-> type, version |-> v, proposal |-> None]
ProposalEvent(type, p, v) == [type |-> type, version |-> v, proposal |-> p]

\* _publish: push the event to every live subscriber of the session.
Publish(s, event) ==
  /\ queue' = [q \in Queues |->
                 IF q \in subscribers[s] THEN Append(queue[q], event) ELSE queue[q]]
  /\ UNCHANGED <<subscribers, watching, told>>

\* Variant: a request that names any version up to now is current.
NotFromTheFuture(s, base) == base <= version[s]

\* The staleness check of every conditional write.
Current(s, base) == base = version[s]

\* Variant: the version is not bumped.
WriteGraphUnversioned(s, g) ==
  /\ version[s] < MaxVersion
  /\ graph' = [graph EXCEPT ![s] = g]
  /\ UNCHANGED version

\* Install g as the next version of the graph.
WriteGraph(s, g) ==
  /\ version[s] < MaxVersion
  /\ graph' = [graph EXCEPT ![s] = g]
  /\ version' = [version EXCEPT ![s] = @ + 1]

\* Variant: the snapshot is taken after the new graph is in place.
RecordLate(s, kind, m) ==
  checkpoints' = [checkpoints EXCEPT ![s] =
    Append(@, [kind |-> kind, base |-> version[s], mutation |-> m,
               previous |-> graph'[s], resulting |-> version[s] + 1])]

\* Record the checkpoint of the write under way, with the graph it replaces.
Record(s, kind, m) ==
  checkpoints' = [checkpoints EXCEPT ![s] =
    Append(@, [kind |-> kind, base |-> version[s], mutation |-> m,
               previous |-> graph[s], resulting |-> version[s] + 1])]

----------------------------------------------------------------------------
Init ==
  /\ existence = [s \in Sessions |-> "absent"]
  /\ graph = [s \in Sessions |-> EmptyGraph]
  /\ version = [s \in Sessions |-> 0]
  /\ proposals = [s \in Sessions |-> Empty(ProposalIds)]
  /\ checkpoints = [s \in Sessions |-> <<>>]
  /\ subscribers = [s \in Sessions |-> {}]
  /\ watching = [q \in Queues |-> None]
  /\ queue = [q \in Queues |-> <<>>]
  /\ told = [q \in Queues |-> 0]

Create(s, g) ==
  /\ existence[s] = "absent"
  /\ existence' = [existence EXCEPT ![s] = "live"]
  /\ graph' = [graph EXCEPT ![s] = g]
  /\ UNCHANGED <<version, proposals, checkpoints, streams>>

\* Variant: the subscriber list is left behind.
DeleteKeepingSubscribers(s) ==
  /\ Live(s)
  /\ existence' = [existence EXCEPT ![s] = "deleted"]
  /\ graph' = [graph EXCEPT ![s] = EmptyGraph]
  /\ version' = [version EXCEPT ![s] = 0]
  /\ proposals' = [proposals EXCEPT ![s] = Empty(ProposalIds)]
  /\ checkpoints' = [checkpoints EXCEPT ![s] = <<>>]
  /\ UNCHANGED streams

\* The session and its subscriber list go; the queues stay with their readers,
\* and nothing is published.
Delete(s) ==
  /\ Live(s)
  /\ existence' = [existence EXCEPT ![s] = "deleted"]
  /\ graph' = [graph EXCEPT ![s] = EmptyGraph]
  /\ version' = [version EXCEPT ![s] = 0]
  /\ proposals' = [proposals EXCEPT ![s] = Empty(ProposalIds)]
  /\ checkpoints' = [checkpoints EXCEPT ![s] = <<>>]
  /\ subscribers' = [subscribers EXCEPT ![s] = {}]
  /\ UNCHANGED <<watching, queue, told>>

\* A client opens the session's event stream; told starts at the version the
\* session has at that moment.
Subscribe(q, s) ==
  /\ watching[q] = None
  /\ Live(s)
  /\ subscribers' = [subscribers EXCEPT ![s] = @ \cup {q}]
  /\ watching' = [watching EXCEPT ![q] = s]
  /\ told' = [told EXCEPT ![q] = version[s]]
  /\ UNCHANGED <<document, queue>>

\* The stream's reader takes the next event off its queue.
Deliver(q) ==
  /\ queue[q] # <<>>
  /\ queue' = [queue EXCEPT ![q] = Tail(@)]
  /\ told' = [told EXCEPT ![q] =
                IF Head(queue[q]).version > 0 THEN Head(queue[q]).version ELSE @]
  /\ UNCHANGED <<document, subscribers, watching>>

\* The client went away.  A no-op on the list when the session was deleted.
Unsubscribe(q) ==
  /\ watching[q] # None
  /\ subscribers' = [s \in Sessions |-> subscribers[s] \ {q}]
  /\ watching' = [watching EXCEPT ![q] = None]
  /\ queue' = [queue EXCEPT ![q] = <<>>]
  /\ told' = [told EXCEPT ![q] = 0]
  /\ UNCHANGED document

\* PUT /sessions/{id}/graph: no checkpoint is recorded.
ReplaceGraph(s, g, base) ==
  /\ Live(s)
  /\ Current(s, base)
  /\ WriteGraph(s, g)
  /\ Publish(s, GraphEvent("graph_replaced", version[s] + 1))
  /\ UNCHANGED <<existence, proposals, checkpoints>>

\* A proposal is stored whether or not its mutation applies.
AddProposal(s, p, m, base) ==
  /\ Live(s)
  /\ proposals[s][p] = None
  /\ Current(s, base)
  /\ proposals' = [proposals EXCEPT ![s][p] =
       [mutation |-> m, base |-> base, applies |-> CanApply(graph[s], m),
        status |-> "pending"]]
  /\ Publish(s, ProposalEvent("proposal_added", p, 0))
  /\ UNCHANGED <<existence, graph, version, checkpoints>>

\* Variant: the one-shot check refuses only accepted proposals.
NotAccepted(s, p) ==
  proposals[s][p] # None /\ proposals[s][p].status # "accepted"

Pending(s, p) ==
  proposals[s][p] # None /\ proposals[s][p].status = "pending"

Resolve(s, p, status) ==
  proposals' = [proposals EXCEPT ![s][p].status = status]

AcceptProposal(s, p) ==
  /\ Live(s)
  /\ Pending(s, p)
  /\ Current(s, proposals[s][p].base)
  /\ CanApply(graph[s], proposals[s][p].mutation)
  /\ WriteGraph(s, ApplyMutation(graph[s], proposals[s][p].mutation))
  /\ Resolve(s, p, "accepted")
  /\ Record(s, "edit", proposals[s][p].mutation)
  /\ Publish(s, ProposalEvent("proposal_accepted", p, version[s] + 1))
  /\ UNCHANGED existence

RejectProposal(s, p) ==
  /\ Live(s)
  /\ Pending(s, p)
  /\ Resolve(s, p, "rejected")
  /\ Publish(s, ProposalEvent("proposal_rejected", p, 0))
  /\ UNCHANGED <<existence, graph, version, checkpoints>>

\* Variant: the checkpoint is built, and its author refused, after the graph
\* is in place.
ApplyDirectBuildingLate(s, m, base, author) ==
  /\ Live(s)
  /\ Current(s, base)
  /\ CanApply(graph[s], m)
  /\ WriteGraph(s, ApplyMutation(graph[s], m))
  /\ IF author \in Authors
     THEN Record(s, "edit", m) /\ Publish(s, GraphEvent("graph_changed", version[s] + 1))
     ELSE UNCHANGED <<checkpoints, streams>>
  /\ UNCHANGED <<existence, proposals>>

\* An agent's edit, applied at once.  The checkpoint is built, and its author
\* refused, before anything is changed.
ApplyDirectMutation(s, m, base, author) ==
  /\ Live(s)
  /\ Current(s, base)
  /\ CanApply(graph[s], m)
  /\ author \in Authors
  /\ WriteGraph(s, ApplyMutation(graph[s], m))
  /\ Record(s, "edit", m)
  /\ Publish(s, GraphEvent("graph_changed", version[s] + 1))
  /\ UNCHANGED <<existence, proposals>>

\* Put back the snapshot of the i-th checkpoint; the inverse of its mutation is
\* derived first and only recorded.  There is no staleness check.
RevertCheckpoint(s, i) ==
  LET c == checkpoints[s][i] IN
  /\ Live(s)
  /\ i \in DOMAIN checkpoints[s]
  /\ CanInvert(c.previous, c.mutation)
  /\ WriteGraph(s, c.previous)
  /\ Record(s, "revert", InvertMutation(c.previous, c.mutation))
  /\ Publish(s, GraphEvent("graph_reverted", version[s] + 1))
  /\ UNCHANGED <<existence, proposals>>

----------------------------------------------------------------------------
Next ==
  \/ \E s \in Sessions :
       \/ \E g \in Graphs \cup {EmptyGraph} : Create(s, g)
       \/ Delete(s)
       \/ \E g \in Graphs, base \in 0..version[s] : ReplaceGraph(s, g, base)
       \/ \E p \in ProposalIds, m \in Mutations, base \in 0..version[s] :
            AddProposal(s, p, m, base)
       \/ \E p \in ProposalIds : AcceptProposal(s, p)
       \/ \E p \in ProposalIds : RejectProposal(s, p)
       \/ \E m \in Mutations, base \in 0..version[s], author \in Authors \cup {BadAuthor} :
            ApplyDirectMutation(s, m, base, author)
       \/ \E i \in DOMAIN checkpoints[s] : RevertCheckpoint(s, i)
  \/ \E q \in Queues :
       \/ \E s \in Sessions : Subscribe(q, s)
       \/ Deliver(q)
       \/ Unsubscribe(q)

Spec == Init /\ [][Next]_vars

----------------------------------------------------------------------------
\* The types, and what is kept of a session that is not live: nothing, so a
\* queue is pushed events only of the live session it was opened for.
TypeOK ==
  /\ existence \in [Sessions -> Existence]
  /\ graph \in [Sessions -> Graph]
  /\ version \in [Sessions -> 0..MaxVersion]
  /\ proposals \in [Sessions -> Dict(ProposalIds, StoredProposal)]
  /\ checkpoints \in [Sessions -> Seq(Checkpoint)]
  /\ subscribers \in [Sessions -> SUBSET Queues]
  /\ watching \in [Queues -> Sessions \cup {None}]
  /\ queue \in [Queues -> Seq(Event)]
  /\ told \in [Queues -> Nat]
  /\ \A s \in Sessions : \A q \in subscribers[s] : Live(s) /\ watching[q] = s
  /\ \A s \in Sessions : ~Live(s) =>
       /\ version[s] = 0 /\ checkpoints[s] = <<>> /\ Keys(proposals[s]) = {}
       /\ graph[s] = EmptyGraph

\* Every graph a session holds, now or as a snapshot to go back to, passes the
\* structural validator: no edit, replacement or revert leaves a dangling edge
\* or group (the reason apply_mutation rebuilds the Graph, mutation.py:204).
GraphsAreSound ==
  \A s \in Sessions :
    /\ StructurallyValid(graph[s])
    /\ \A i \in DOMAIN checkpoints[s] : StructurallyValid(checkpoints[s][i].previous)

\* What the i-th checkpoint of the log cs says of the graph it led to: an edit
\* applied its mutation, a revert went back to an earlier snapshot.
LedTo(cs, i, g) ==
  /\ cs[i].kind = "edit" => g = ApplyMutation(cs[i].previous, cs[i].mutation)
  /\ cs[i].kind = "revert" =>
       \E k \in 1..(i - 1) :
         /\ g = cs[k].previous
         /\ cs[i].mutation = InvertMutation(cs[k].previous, cs[k].mutation)

\* The checkpoint log replays: checkpoints are in version order, each spans
\* exactly one version that is not another's, and what a checkpoint led to is
\* the snapshot of the next one, or the current graph, when no replacement
\* came between.  So reverting is exact, and an edit and the log that is to
\* undo it can never part (session.py:375-390, 457-474, 521-535).
Replays(cs, v, g) ==
  \A i \in DOMAIN cs :
    /\ cs[i].resulting = cs[i].base + 1
    /\ cs[i].resulting <= v
    /\ \A j \in DOMAIN cs : i < j => cs[i].resulting <= cs[j].base
    /\ \A j \in DOMAIN cs : cs[i].resulting = cs[j].base => LedTo(cs, i, cs[j].previous)
    /\ cs[i].resulting = v => LedTo(cs, i, g)

LogReplays == \A s \in Sessions : Replays(checkpoints[s], version[s], graph[s])

\* A proposal is applied if and only if it was accepted on the version it was
\* computed against: its edit is in the log at its own base version, and two
\* proposals computed against one version are never both accepted, nor one of
\* them after a replacement, an edit or a revert of that version.
InTheLog(ps, cs, v) ==
  \A p \in Keys(ps) :
    /\ ps[p].base <= v
    /\ ps[p].status = "accepted" =>
         /\ \E i \in DOMAIN cs : /\ cs[i].kind = "edit"
                                 /\ cs[i].base = ps[p].base
                                 /\ cs[i].mutation = ps[p].mutation
         /\ \A r \in Keys(ps) \ {p} :
              ps[r].status = "accepted" => ps[r].base # ps[p].base

AcceptedProposalsAreInTheLog ==
  \A s \in Sessions : InTheLog(proposals[s], checkpoints[s], version[s])

\* The verdict shown with a proposal stays true for as long as it can be
\* accepted: a pending proposal on the current version applies now exactly when
\* its diagnostics, computed when it was proposed, said so.  Accepting one that
\* was shown as applicable cannot raise MutationError (session.py:324, 377).
TrueVerdicts(ps, v, g) ==
  \A p \in Keys(ps) :
    ps[p].status = "pending" /\ ps[p].base = v => (ps[p].applies <=> CanApply(g, ps[p].mutation))

DiagnosticsStayTrue ==
  \A s \in Sessions : TrueVerdicts(proposals[s], version[s], graph[s])

\* A subscriber misses no version and sees none twice or out of order: the
\* version-carrying events on its queue are exactly those from the version it
\* was told last to the session's current one, in order.  It holds across every
\* interleaving of writers and of subscribers coming and going.
StreamIsGapless ==
  \A s \in Sessions : \A q \in subscribers[s] :
    LET Carries(i) == queue[q][i].version > 0 IN
    /\ told[q] <= version[s]
    /\ \A i \in DOMAIN queue[q] :
         Carries(i) => queue[q][i].version \in (told[q] + 1)..version[s]
    /\ \A v \in (told[q] + 1)..version[s] :
         \E i \in DOMAIN queue[q] : queue[q][i].version = v
    /\ \A i, j \in DOMAIN queue[q] :
         i < j /\ Carries(i) /\ Carries(j) => queue[q][i].version < queue[q][j].version

\* An event is published inside the lock, so a subscriber never reads of a
\* change it cannot yet read back (session.py:267-270): a verdict on the queue
\* is the proposal's status for good, and an edit or a revert on the queue has
\* its checkpoint.
EventsAreTrue ==
  \A s \in Sessions : \A q \in subscribers[s] : \A i \in DOMAIN queue[q] :
    LET event == queue[q][i] IN
    /\ event.type = "proposal_accepted" =>
         event.proposal \in Keys(proposals[s])
           /\ proposals[s][event.proposal].status = "accepted"
    /\ event.type = "proposal_rejected" =>
         event.proposal \in Keys(proposals[s])
           /\ proposals[s][event.proposal].status = "rejected"
    /\ event.type \in {"graph_changed", "graph_reverted", "proposal_accepted"} =>
         \E k \in DOMAIN checkpoints[s] : checkpoints[s][k].resulting = event.version

\* Nothing a session has recorded is rewritten while it lives: the log only
\* grows at its end, and a proposal keeps its mutation, its base version and,
\* once resolved, its status (ProposalAlreadyResolvedError, session.py:88-99).
RecordsAreKept ==
  [][\A s \in Sessions : Live(s) /\ Live(s)' =>
       /\ Len(checkpoints[s]) <= Len(checkpoints'[s])
       /\ \A i \in DOMAIN checkpoints[s] : checkpoints'[s][i] = checkpoints[s][i]
       /\ \A p \in Keys(proposals[s]) :
            /\ p \in Keys(proposals'[s])
            /\ proposals'[s][p].mutation = proposals[s][p].mutation
            /\ proposals'[s][p].base = proposals[s][p].base
            /\ proposals[s][p].status # "pending" =>
                 proposals'[s][p].status = proposals[s][p].status]_vars

=============================================================================
