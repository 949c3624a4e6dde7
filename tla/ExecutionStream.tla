--------------------------- MODULE ExecutionStream ---------------------------
(***************************************************************************)
(* Runs of a functional graph: the node by node walk of server/service.py  *)
(* with the on-disk cache of node outputs (server/cache.py) and the store  *)
(* of last outputs (server/artifacts.py), which all runs share.  Every     *)
(* request is served by a thread of its own and carries its own graph.     *)
(*                                                                         *)
(* What a node computes is a term: its configuration, what feeds it, and,  *)
(* for a node that is not cacheable, the run it ran in (it may read a      *)
(* clock, a database, a model).  A cache key is a term as well: the hash   *)
(* of a node folds in its configuration and, for each feed, the name of    *)
(* the IN port and the hash of the node behind it.  It does not say from   *)
(* which OUT port the feed comes: Unsaid stands there.                     *)
(*                                                                         *)
(* Left out: progress counters and timings, payload formatting, the run    *)
(* record (RunStore), graph-level parameters (resolved in the graph), and  *)
(* which entries an eviction takes (any).                                  *)
(***************************************************************************)
EXTENDS Naturals, Sequences, FiniteSets

CONSTANTS
  Runs,              \* requests, one thread each
  NodeIds,           \* node ids, in their order
  InPorts, OutPorts, \* port names
  Unsaid,            \* what a cache key says of the OUT port of a feed
  Configs,           \* node type and resolved parameters
  Cacheable,         \* the configurations whose definition is cacheable
  Outs,              \* the OUT ports a configuration has outputs for
  Requests,          \* the graphs clients send, each with a scope
  None               \* no entry, no hash

\* One source of an IN port.
Feed == [port : InPorts, src : NodeIds, out : OutPorts]

\* The nodes of a graph, and its wiring map: the sources of the IN ports of
\* each node in port order, those of one port in the order of their node ids.
\* A node lists its own ports: needs are the required ones among its IN ports,
\* many those it declares Cardinality.MANY.
Graph == [cfg : UNION {[N -> Configs] : N \in SUBSET NodeIds},
          feeds : [NodeIds -> Seq(Feed)],
          needs : [NodeIds -> SUBSET InPorts], many : [NodeIds -> SUBSET InPorts]]

\* A body of POST /execute: the graph and at most one scope key (_split_request).
Request == [graph : Graph, key : {"all", "run_to", "run_from", "run_only"},
            targets : SUBSET NodeIds]

ASSUME NodeAssumption == NodeIds \subseteq Nat /\ IsFiniteSet(NodeIds)
ASSUME RequestsAssumption == Requests \subseteq Request /\ None \notin Requests
ASSUME NoneAssumption == None \notin NodeIds /\ None \notin Runs

VARIABLES
  cache,      \* ExecutionCache: outputs by hash
  artifacts,  \* ArtifactStore: last outputs by node id
  stage,      \* where the thread of a run is
  request, only, \* what it was asked to run, and the nodes in scope
  popped,     \* the nodes the topological order has passed
  cur,        \* the node in hand
  bound,      \* what is bound to its IN ports so far, with the hashes behind it
  status, result, hash \* node_status, node_results, node_hashes

walk == <<request, only>>
vars == <<cache, artifacts, stage, walk, popped, cur, bound, status, result, hash>>

Nodes(g) == DOMAIN g.cfg
Sources(g, n) == {g.feeds[n][i].src : i \in DOMAIN g.feeds[n]}
FedPorts(g, n) == {g.feeds[n][i].port : i \in DOMAIN g.feeds[n]}

\* A function with one value more, or with another value there.
Put(f, k, v) == [x \in DOMAIN f \cup {k} |-> IF x = k THEN v ELSE f[x]]
Drop(f, S) == [x \in DOMAIN f \ S |-> f[x]]
NoEntries == [x \in {} |-> None]

-----------------------------------------------------------------------------
\* The sets a request is expanded to.

\* _ancestors: the targets and all that transitively feeds them.
Ancestors(g, targets) ==
  {n \in Nodes(g) : \A S \in SUBSET Nodes(g) :
     targets \subseteq S /\ (\A m \in S : Sources(g, m) \subseteq S) => n \in S}

\* _descendants: the targets and all that they transitively feed.
Descendants(g, targets) ==
  {n \in Nodes(g) : \A S \in SUBSET Nodes(g) :
     targets \subseteq S /\ (\A m \in Nodes(g) : Sources(g, m) \cap S # {} => m \in S)
       => n \in S}

\* _SCOPES.
InScope(q) == CASE q.key = "all" -> Nodes(q.graph)
                [] q.key = "run_to" -> Ancestors(q.graph, q.targets)
                [] q.key = "run_from" -> Descendants(q.graph, q.targets)
                [] q.key = "run_only" -> q.targets

\* topological_sort raises CycleError, build_wiring_map CardinalityError.
Acyclic(g) == \A S \in SUBSET Nodes(g) : S # {} => \E n \in S : Sources(g, n) \cap S = {}
WellWired(g) == \A n \in Nodes(g) : \A i, j \in DOMAIN g.feeds[n] :
                  g.feeds[n][i].port = g.feeds[n][j].port /\ i # j
                    => g.feeds[n][i].port \in g.many[n]

\* An edge joins nodes of the graph (Graph._validate_structure).
Closed(g) == \A n \in Nodes(g) : Sources(g, n) \subseteq Nodes(g)

\* The graph-level checks, all made before the first node: unknown targets,
\* cardinality, cycles, and a required IN port of a node in scope that nothing
\* feeds (UnboundInputError).
Accepts(q) == LET g == q.graph IN
              /\ q.targets \subseteq Nodes(g)
              /\ Closed(g) /\ WellWired(g) /\ Acyclic(g)
              /\ \A n \in InScope(q) : g.needs[n] \subseteq FedPorts(g, n)

-----------------------------------------------------------------------------
\* What a node computes, and the key under which it is cached.

Term(cfg, feeds, in) == [cfg |-> cfg, feeds |-> feeds, in |-> in]

\* The inputs bound to a node, and what its hash says of them.
Inputs(b) == [i \in DOMAIN b |-> [port |-> b[i].port, of |-> b[i].of, out |-> b[i].out]]
Tagged(b) == [i \in DOMAIN b |-> [port |-> b[i].port, of |-> b[i].key, out |-> Unsaid]]

\* definition.execute: a function of its configuration and inputs when the
\* definition is cacheable, of the moment as well when it is not.
Output(r, cfg, b) == Term(cfg, Inputs(b), IF cfg \in Cacheable THEN None ELSE r)

\* Variant: a node whose ancestor has no hash gets one of its own.
HashOfKnown(cfg, b) ==
  LET known == SelectSeq(b, LAMBDA f : f.key # None)
  IN  IF cfg \in Cacheable THEN Term(cfg, Tagged(known), None) ELSE None

\* _node_hash, for a cacheable node all of whose upstream hashes are defined.
NodeHash(cfg, b) == IF cfg \in Cacheable /\ \A i \in DOMAIN b : b[i].key # None
                    THEN Term(cfg, Tagged(b), None)
                    ELSE None

\* What a put leaves in a store.  It writes the entry in place and then evicts
\* down to the cap, but never the last entry; or the output cannot be pickled,
\* and a truncated file stays that reads as a miss; or the file cannot even be
\* opened.  The caller suppresses every exception.
Outcomes(f, k, v) == {Drop(Put(f, k, v), S) : S \in SUBSET (DOMAIN f \cup {k}) \ {DOMAIN f \cup {k}}}
                     \cup {Drop(f, {k}), f}

-----------------------------------------------------------------------------
Init == /\ cache = NoEntries /\ artifacts = NoEntries
        /\ stage = [r \in Runs |-> "idle"]
        /\ request = [r \in Runs |-> None]
        /\ only = [r \in Runs |-> {}]
        /\ popped = [r \in Runs |-> {}]
        /\ cur = [r \in Runs |-> None]
        /\ bound = [r \in Runs |-> <<>>]
        /\ status = [r \in Runs |-> NoEntries]
        /\ result = [r \in Runs |-> NoEntries]
        /\ hash = [r \in Runs |-> NoEntries]

Goto(r, s) == stage' = [stage EXCEPT ![r] = s]

\* execute_graph or execute_graph_stream up to the walk.
Start(r, q) ==
  /\ stage[r] = "idle"
  /\ request' = [request EXCEPT ![r] = q]
  /\ IF Accepts(q)
     THEN only' = [only EXCEPT ![r] = InScope(q)] /\ Goto(r, "next")
     ELSE Goto(r, "rejected") /\ UNCHANGED only
  /\ UNCHANGED <<cache, artifacts, popped, cur, bound, status, result, hash>>

GraphOf(r) == request[r].graph

\* Variant: nodes in the order of their ids.
FirstId(g, done) == CHOOSE n \in Nodes(g) \ done : \A m \in Nodes(g) \ done : n <= m

\* Kahn's algorithm with a heap: the least id among the nodes whose sources have
\* all been passed.
FirstReady(g, done) ==
  LET ready == {n \in Nodes(g) \ done : Sources(g, n) \subseteq done}
  IN  CHOOSE n \in ready : \A m \in ready : n <= m

\* The next node of the topological order, passed over when it is out of scope.
Advance(r) ==
  /\ stage[r] = "next" /\ popped[r] # Nodes(GraphOf(r))
  /\ LET n == FirstReady(GraphOf(r), popped[r]) IN
     /\ popped' = [popped EXCEPT ![r] = @ \cup {n}]
     /\ IF n \in only[r]
        THEN /\ cur' = [cur EXCEPT ![r] = n]
             /\ bound' = [bound EXCEPT ![r] = <<>>]
             /\ Goto(r, "bind")
        ELSE UNCHANGED <<cur, bound, stage>>
  /\ UNCHANGED <<cache, artifacts, walk, status, result, hash>>

Finish(r) == /\ stage[r] = "next" /\ popped[r] = Nodes(GraphOf(r))
             /\ Goto(r, "done")
             /\ UNCHANGED <<cache, artifacts, walk, popped, cur, bound, status, result, hash>>

Feeds(r) == GraphOf(r).feeds[cur[r]]
Config(r) == GraphOf(r).cfg[cur[r]]

\* The nodes of a run that have outputs.
Done(r) == {n \in DOMAIN status[r] : status[r][n] \in {"ok", "cached"}}

\* _resolve_upstream_value: the result of this run; for a node the run has not
\* walked, the artifact of an earlier one if it has that port; else _MISSING.
HasValue(r, f) == \/ f.src \in Done(r)
                  \/ /\ f.src \notin DOMAIN status[r] /\ f.src \in DOMAIN artifacts
                     /\ f.out \in Outs[artifacts[f.src].cfg]
Resolve(r, f) == IF f.src \in Done(r) THEN result[r][f.src] ELSE artifacts[f.src]

\* Its node has run, but has no output for that port: nothing compares the ports a
\* client lists for a node with those of its definition.
LacksPort(r, f) == f.src \in Done(r) /\ f.out \notin Outs[result[r][f.src].cfg]

\* One more source is bound, or has no value and the node is skipped, or the
\* port lookup raises: that is outside the try of the node and ends the walk.
Bind(r) ==
  /\ stage[r] = "bind" /\ Len(bound[r]) < Len(Feeds(r))
  /\ LET f == Feeds(r)[Len(bound[r]) + 1]
     IN  IF LacksPort(r, f)
         THEN Goto(r, "broken") /\ UNCHANGED <<bound, status>>
         ELSE IF HasValue(r, f)
         THEN /\ bound' = [bound EXCEPT ![r] = Append(@,
                   [port |-> f.port, of |-> Resolve(r, f), out |-> f.out,
                    key |-> IF f.src \in DOMAIN hash[r] THEN hash[r][f.src] ELSE None])]
              /\ UNCHANGED <<stage, status>>
         ELSE /\ status' = [status EXCEPT ![r] = Put(@, cur[r], "skipped")]
              /\ Goto(r, "next")
              /\ UNCHANGED bound
  /\ UNCHANGED <<cache, artifacts, walk, popped, cur, result, hash>>

Settle(r, st, v, h) == /\ status' = [status EXCEPT ![r] = Put(@, cur[r], st)]
                       /\ result' = [result EXCEPT ![r] = Put(@, cur[r], v)]
                       /\ hash' = [hash EXCEPT ![r] = Put(@, cur[r], h)]

\* The start event; then the cache is asked when the node has a hash.
Lookup(r) ==
  /\ stage[r] = "bind" /\ Len(bound[r]) = Len(Feeds(r))
  /\ LET h == NodeHash(Config(r), bound[r]) IN
     IF h # None /\ h \in DOMAIN cache
     THEN Settle(r, "cached", cache[h], h) /\ Goto(r, "save")
     ELSE Goto(r, "execute") /\ UNCHANGED <<status, result, hash>>
  /\ UNCHANGED <<cache, artifacts, walk, popped, cur, bound>>

\* The definition returns its outputs.
Execute(r) ==
  /\ stage[r] = "execute"
  /\ LET h == NodeHash(Config(r), bound[r]) IN
     /\ Settle(r, "ok", Output(r, Config(r), bound[r]), h)
     /\ Goto(r, IF h # None THEN "put" ELSE "save")
  /\ UNCHANGED <<cache, artifacts, walk, popped, cur, bound>>

\* Variant: the exception ends the walk.
RaiseOut(r) == /\ stage[r] = "execute"
               /\ status' = [status EXCEPT ![r] = Put(@, cur[r], "error")]
               /\ hash' = [hash EXCEPT ![r] = Put(@, cur[r], None)]
               /\ Goto(r, "done")
               /\ UNCHANGED <<cache, artifacts, walk, popped, cur, bound, result>>

\* It raises: the error event, and the walk goes on.
Raise(r) == /\ stage[r] = "execute"
            /\ status' = [status EXCEPT ![r] = Put(@, cur[r], "error")]
            /\ hash' = [hash EXCEPT ![r] = Put(@, cur[r], None)]
            /\ Goto(r, "next")
            /\ UNCHANGED <<cache, artifacts, walk, popped, cur, bound, result>>

CachePut(r) == /\ stage[r] = "put"
               /\ cache' \in Outcomes(cache, hash[r][cur[r]], result[r][cur[r]])
               /\ Goto(r, "save")
               /\ UNCHANGED <<artifacts, walk, popped, cur, bound, status, result, hash>>

\* Every success is kept under its node id; the ok event.
SaveArtifact(r) == /\ stage[r] = "save"
                   /\ artifacts' \in Outcomes(artifacts, cur[r], result[r][cur[r]])
                   /\ Goto(r, "next")
                   /\ UNCHANGED <<cache, walk, popped, cur, bound, status, result, hash>>

\* POST /cache/clear.
Clear == /\ cache # NoEntries /\ cache' = NoEntries
         /\ UNCHANGED <<artifacts, stage, walk, popped, cur, bound, status, result, hash>>

Step(r) == \/ Advance(r) \/ Finish(r) \/ Bind(r) \/ Lookup(r)
           \/ Execute(r) \/ Raise(r) \/ CachePut(r) \/ SaveArtifact(r)

Next == \/ \E r \in Runs : (\E q \in Requests : Start(r, q)) \/ Step(r)
        \/ Clear

Spec == Init /\ [][Next]_vars

\* The thread that serves a request keeps running.
FairSpec == Spec /\ \A r \in Runs : WF_vars(Step(r))

-----------------------------------------------------------------------------
\* The scopes that hold every ancestor of every node in them.
StandsAlone(r) == request[r] # None /\ request[r].key \in {"all", "run_to"}

\* Each thread is at one node of its scope at most, and reports on the nodes of
\* its scope that the order has passed and on no other (service.py:590-715).
TypeOK ==
  /\ stage \in [Runs -> {"idle", "rejected", "next", "bind", "execute", "put", "save",
                        "broken", "done"}]
  /\ request \in [Runs -> Requests \cup {None}]
  /\ only \in [Runs -> SUBSET NodeIds] /\ popped \in [Runs -> SUBSET NodeIds]
  /\ DOMAIN artifacts \subseteq NodeIds
  /\ \A r \in Runs :
       /\ stage[r] # "idle" => request[r] \in Requests
       /\ stage[r] \in {"bind", "execute", "put", "save"} => cur[r] \in only[r] \cap popped[r]
       /\ stage[r] \in {"bind", "execute"} => Len(bound[r]) <= Len(Feeds(r))
       /\ only[r] \cap popped[r] =
            DOMAIN status[r] \cup (IF stage[r] \in {"bind", "execute", "broken"} THEN {cur[r]} ELSE {})
       /\ DOMAIN result[r] = Done(r) /\ DOMAIN hash[r] \subseteq DOMAIN status[r]

\* A key names an output: nodes of equal hash, of whatever graphs and runs, have
\* come to the same, and so has what lies in the cache under it (_node_hash,
\* service.py:407-440, and the None rule of service.py:670-671).  True as long as
\* no two nodes of one key read other OUT ports.
KeyNamesOutput ==
  \A r, s \in Runs : \A n \in DOMAIN hash[r], m \in DOMAIN hash[s] :
    hash[r][n] # None =>
      /\ hash[s][m] = hash[r][n] => result[s][m] = result[r][n]
      /\ hash[r][n] \in DOMAIN cache => cache[hash[r][n]] = result[r][n]

\* A node served from the cache has the outputs it would compute now, from the
\* outputs its sources have in this run and through the ports its edges now
\* name (service.py:672-676).
CachedIsFresh ==
  \A r \in Runs : \A n \in DOMAIN status[r] : status[r][n] = "cached" =>
    LET feeds == GraphOf(r).feeds[n] IN
    /\ Sources(GraphOf(r), n) \subseteq Done(r)
    /\ result[r][n] = Term(GraphOf(r).cfg[n],
         [i \in DOMAIN feeds |-> [port |-> feeds[i].port, of |-> result[r][feeds[i].src],
                                  out |-> feeds[i].out]], None)

\* A run of the whole graph, or up to a node, stands on itself: no artifact of
\* another run, whatever other runs store meanwhile, gets into its outputs
\* (service.py:493-504; the order of codegen/traversal.py and _ancestors).
RunStandsOnItself ==
  \A r \in Runs : StandsAlone(r) =>
    \A n \in Done(r) : \A i \in DOMAIN result[r][n].feeds :
      LET f == GraphOf(r).feeds[n][i] IN
      f.src \in Done(r) /\ result[r][n].feeds[i].of = result[r][f.src]

\* In such a run a node is skipped only behind an error: one of its own sources
\* failed or was skipped in this run, so "has not been run yet" is never the
\* reason (service.py:507-519).
SkipsHaveACause ==
  \A r \in Runs : StandsAlone(r) =>
    \A n \in DOMAIN status[r] : status[r][n] = "skipped" =>
      \E m \in Sources(GraphOf(r), n) \cap DOMAIN status[r] :
        status[r][m] \in {"error", "skipped"}

\* A run that has ended has reported on every node of its scope, also behind
\* errors, skips and stores that fail (service.py:667-715).
EndsComplete == \A r \in Runs : stage[r] = "done" => DOMAIN status[r] = only[r]

\* A run as the evaluation of a graph, seen through what it has reported. Hidden
\* are runs refused before the walk, and those that need values of other runs.
SourcesIn(q, n) == Sources(q.graph, n)
ValueIn(q, n, values, r) ==
  LET feeds == q.graph.feeds[n]
      cfg == q.graph.cfg[n]
  IN  Term(cfg, [i \in DOMAIN feeds |-> [port |-> feeds[i].port, of |-> values[feeds[i].src],
                                         out |-> feeds[i].out]],
           IF cfg \in Cacheable THEN None ELSE r)

Accepted(r) == StandsAlone(r) /\ stage[r] # "rejected"
Reported(r) == IF Accepted(r) THEN DOMAIN status[r] ELSE {}

Evaluation == INSTANCE GraphEvaluation WITH
  asked <- [r \in Runs |-> IF Accepted(r) THEN request[r] ELSE None],
  open <- [r \in Runs |-> IF Accepted(r) THEN only[r] \ DOMAIN status[r] ELSE {}],
  value <- [r \in Runs |-> [n \in Reported(r) \cap Done(r) |-> result[r][n]]],
  failed <- [r \in Runs |-> [n \in Reported(r) \ Done(r) |-> status[r][n]]],
  ended <- {r \in Runs : Accepted(r) /\ stage[r] = "done"},
  Scope <- InScope, Sources <- SourcesIn, Value <- ValueIn

\* Whatever the cache holds, other requests store, is cleared or evicted, a run
\* that is accepted and stands alone is an evaluation of its graph: none of that
\* shows in what its nodes come to, nor in which of them fail or are skipped
\* (execute_graph_stream and _execute_node, service.py).
ImplementsEvaluation == Evaluation!Spec

\* Every run that is not refused ends, with one status for each node in scope,
\* whatever raises on the way and whichever store fails (service.py:667-715);
\* only a graph with an edge from a port its source has no output for may end it
\* early (service.py:496-504).
PortsAreThere(g) == \A n \in Nodes(g) : \A i \in DOMAIN g.feeds[n] :
                      g.feeds[n][i].out \in Outs[g.cfg[g.feeds[n][i].src]]
RunsComplete ==
  \A r \in Runs : stage[r] = "next" ~>
    \/ stage[r] = "done" /\ DOMAIN status[r] = only[r]
    \/ stage[r] = "broken" /\ ~PortsAreThere(GraphOf(r))

=============================================================================
