--------------------------- MODULE GraphEvaluation ---------------------------
(***************************************************************************)
(* What POST /execute promises of a run of a whole graph, or of one up to  *)
(* some nodes: an evaluation (execute_graph and execute_graph_stream,      *)
(* server/service.py).                                                     *)
(*                                                                         *)
(* Each node in scope is settled once, after all that feed it.  It has the *)
(* value of its own inputs, or it fails, or it is skipped for want of one  *)
(* that was to come from a node that failed or was skipped.  Nothing else  *)
(* goes in: there is no cache here, no artifact of another run, and no     *)
(* order but that of the wires.                                            *)
(***************************************************************************)
CONSTANTS
  Runs, Requests,
  None,               \* no request
  Scope(_),           \* the nodes that a request asks for
  Sources(_, _),      \* the nodes that feed a node of a request
  Value(_, _, _, _)   \* what a node of a request comes to in a run, from the values there are

VARIABLES
  asked,   \* the request that a run evaluates
  open,    \* its nodes that are not settled yet
  value,   \* the values of its nodes
  failed,  \* why its nodes without one have none
  ended    \* the runs that have ended

vars == <<asked, open, value, failed, ended>>

Init == /\ asked = [r \in Runs |-> None]
        /\ open = [r \in Runs |-> {}]
        /\ value = [r \in Runs |-> [n \in {} |-> None]]
        /\ failed = [r \in Runs |-> [n \in {} |-> None]]
        /\ ended = {}

Ask(r, q) == /\ asked[r] = None
             /\ asked' = [asked EXCEPT ![r] = q]
             /\ open' = [open EXCEPT ![r] = Scope(q)]
             /\ UNCHANGED <<value, failed, ended>>

Settle(r, n) == /\ n \in open[r]
                /\ open' = [open EXCEPT ![r] = @ \ {n}]

\* All that feeds the node has a value.
Ready(r, n) == Sources(asked[r], n) \subseteq DOMAIN value[r]

Evaluate(r, n) ==
  /\ Settle(r, n) /\ Ready(r, n)
  /\ value' = [value EXCEPT ![r] = [m \in DOMAIN @ \cup {n} |->
                                      IF m = n THEN Value(asked[r], n, @, r) ELSE @[m]]]
  /\ UNCHANGED <<asked, failed, ended>>

\* All that feeds the node is settled, and some of it has no value.
Wanting(r, n) == /\ Sources(asked[r], n) \subseteq DOMAIN value[r] \cup DOMAIN failed[r]
                 /\ Sources(asked[r], n) \cap DOMAIN failed[r] # {}

\* It raises, which it only does when it is tried, or is not tried.
Fail(r, n, why) ==
  /\ Settle(r, n)
  /\ \/ why = "error" /\ Ready(r, n)
     \/ why = "skipped" /\ Wanting(r, n)
  /\ failed' = [failed EXCEPT ![r] = [m \in DOMAIN @ \cup {n} |-> IF m = n THEN why ELSE @[m]]]
  /\ UNCHANGED <<asked, value, ended>>

End(r) == /\ asked[r] # None /\ open[r] = {}
          /\ ended' = ended \cup {r}
          /\ UNCHANGED <<asked, open, value, failed>>

Next == \E r \in Runs : \/ \E q \in Requests : Ask(r, q)
                        \/ \E n \in open[r] : \/ Evaluate(r, n)
                                              \/ \E why \in {"error", "skipped"} : Fail(r, n, why)
                        \/ End(r)

Spec == Init /\ [][Next]_vars

=============================================================================
