-------------------------- MODULE MCExecutionStream --------------------------
(***************************************************************************)
(* Instances of ExecutionStream: node 3 is a source that feeds node 1, and *)
(* node 2 joins what it is given.  The order of the ids is not an order in *)
(* which they can run.                                                     *)
(***************************************************************************)
EXTENDS ExecutionStream, TLC

CONSTANTS load1, load2, ask, fit, join, \* configurations; load1, load2: one node, edited
          left, right, p, q

MCConfigs == {load1, load2, ask, fit, join}
MCCacheable == MCConfigs \ {ask}
MCOuts == [c \in MCConfigs |-> IF c \in {load1, load2} THEN OutPorts ELSE IF c = ask THEN {q} ELSE {p}]

Wire(src, out) == [port |-> left, src |-> src, out |-> out]

\* The nodes of a graph and what feeds each: fit needs its left port, a join
\* takes many there.
Wired(cfg, feeds1, feeds2) ==
  [cfg |-> cfg,
   feeds |-> (1 :> feeds1) @@ (2 :> feeds2) @@ (3 :> <<>>),
   needs |-> [n \in NodeIds |-> IF n = 1 THEN {left} ELSE {}],
   many |-> [n \in NodeIds |-> IF n = 2 THEN {left} ELSE {}]]

\* The source, the OUT port of it that fit reads, and what the join is given.
Pipeline(source, out, joined) ==
  Wired((1 :> fit) @@ (2 :> join) @@ (3 :> source), <<Wire(3, out)>>, joined)

Fitted(source, feeds1) == Wired((1 :> fit) @@ (3 :> source), feeds1, <<>>)

Body(graph, key, targets) == [graph |-> graph, key |-> key, targets |-> targets]

\* A pipeline in full; after an edit of its source, the part up to its middle, and
\* the part after the source, with a second wire from another port of it; one whose
\* source is not cacheable, and its end alone; one with a required port that
\* nothing feeds, one with a wire from a port that is not there.
MCRequests ==
  LET edited == Pipeline(load2, q, <<Wire(1, p), Wire(3, p)>>)
      asking == Pipeline(ask, q, <<Wire(1, p)>>)
  IN  {Body(Pipeline(load1, q, <<Wire(1, p)>>), "all", {}),
       Body(edited, "run_to", {1}), Body(edited, "run_from", {1}),
       Body(asking, "run_to", {2}), Body(asking, "run_only", {2}),
       Body(Fitted(load1, <<>>), "all", {}), Body(Fitted(ask, <<Wire(3, p)>>), "all", {})}

\* What the cache keys of these bodies say of each node, and that nodes of one key
\* read the same OUT ports here, as KeysTellPorts of ExecutionStreamProofs has it.
KeysOf(g) ==
  LET key[n \in Nodes(g)] ==
        IF g.cfg[n] \in Cacheable /\ \A m \in Sources(g, n) : key[m] # None
        THEN <<g.cfg[n], [i \in DOMAIN g.feeds[n] |-> <<g.feeds[n][i].port, key[g.feeds[n][i].src]>>]>>
        ELSE None
  IN  key

ASSUME MCKeysTellPorts ==
  \A g, h \in {body.graph : body \in MCRequests} : \A n \in Nodes(g), m \in Nodes(h) :
    KeysOf(g)[n] # None /\ KeysOf(g)[n] = KeysOf(h)[m] =>
      \A i \in DOMAIN g.feeds[n] : g.feeds[n][i].out = h.feeds[m][i].out

\* A node with two IN ports, fed from the two OUT ports of its source, and the
\* same with the two wires swapped.
Split(onLeft, onRight) ==
  Fitted(load1, <<Wire(3, onLeft), [port |-> right, src |-> 3, out |-> onRight]>>)
SwappedRequests == {Body(Split(p, q), "all", {}), Body(Split(q, p), "all", {})}

=============================================================================
