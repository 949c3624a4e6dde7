---------------------------- MODULE ExecuteSession ----------------------------
(***************************************************************************)
(* Runs of a session's graph: POST /sessions/{id}/execute and /compile     *)
(* (server/service.py), the gates that hold them up (collab/session.py,    *)
(* collab/gates.py) and the budget gate (collab/budget_gate.py).           *)
(*                                                                         *)
(* Sessions are memory: the methods of their store are atomic, under its   *)
(* lock, but a thread keeps the session object it was given, reads graph   *)
(* and gates from it without the lock, and goes on with it when the        *)
(* session has been deleted.  The graph may be edited at any moment, so    *)
(* its estimate is below or above the ceiling as it happens to be.  Left   *)
(* out: the run itself (ExecutionStream) and its record (RunStore), the    *)
(* decisions noted on a gate (nothing reads them), creating sessions.      *)
(***************************************************************************)
EXTENDS Naturals, Sequences, FiniteSets

CONSTANTS
  Threads,   \* the server's worker threads
  Sessions,  \* sessions, all of them there at the start
  GateIds,   \* ids of gates, drawn by the server or sent by a client
  None

ASSUME NoneAssumption == None \notin GateIds \cup Threads

VARIABLES
  alive,     \* the sessions that are in the store
  gates,     \* the gates of a session, in the order in which they were opened
  consumed,  \* _consumed_approvals
  spender,   \* the thread that holds _consumed_lock
  stage,     \* where each thread is in a request
  req,       \* what it knows of it
  started    \* ghost: how many runs above the ceiling each approval paid for

vars == <<alive, gates, consumed, spender, stage, req, started>>

Phases == {"budget_check", "other"}
Statuses == {"open", "closed", "skipped"}
Gate == [id : GateIds, phase : Phases, status : Statuses]

\* The session object, the place in its gates and how many there were, and the
\* approval it has come upon; as ghosts, of the gates that were open when it was
\* asked for those that still are, and of the approvals that stood when it began
\* to look for one those that have not been reopened.
Req == [session : Sessions, cursor : Nat, size : Nat, paidBy : GateIds \cup {None},
        standing : SUBSET GateIds, offered : SUBSET GateIds]

GateSet(s) == {gates[s][i] : i \in DOMAIN gates[s]}
Taken(s) == {g.id : g \in GateSet(s)}
OpenGates(s) == {g.id : g \in {h \in GateSet(s) : h.status = "open"}}

\* A gate that pays for a run: a budget gate that was closed and whose id has not
\* been spent, in this session or in another with a gate of that id.
IsApproval(g) == g.phase = "budget_check" /\ g.status = "closed" /\ g.id \notin consumed
Approvals(s) == {g.id : g \in {h \in GateSet(s) : IsApproval(h)}}

Init == /\ alive = Sessions
        /\ gates = [s \in Sessions |-> <<>>]
        /\ consumed = {} /\ spender = None
        /\ stage = [t \in Threads |-> "idle"] /\ req = [t \in Threads |-> None]
        /\ started = [g \in GateIds |-> 0]

Goto(t, s) == stage' = [stage EXCEPT ![t] = s]
End(t) == Goto(t, "idle") /\ req' = [req EXCEPT ![t] = None]
Busy == {t \in Threads : stage[t] # "idle"}
S(t) == req[t].session

-----------------------------------------------------------------------------
\* What clients do to sessions and gates.

DeleteSession(s) == /\ s \in alive /\ alive' = alive \ {s}
                    /\ UNCHANGED <<gates, consumed, spender, stage, req, started>>

\* The gate is stored under its id, over the one of that id.
Store(s, g) ==
  gates' = [gates EXCEPT ![s] =
    IF g.id \in Taken(s) THEN [i \in DOMAIN @ |-> IF @[i].id = g.id THEN g ELSE @[i]]
                         ELSE Append(@, g)]

\* The threads in a request for session s.
At(s) == {t \in Busy : S(t) = s}

\* POST /sessions/{id}/gates, with a new id or one the client sends, which a gate
\* of this session or of another may have: open_gate forces the status to OPEN.
CreateGate(s, id, phase) ==
  /\ s \in alive
  /\ Store(s, [id |-> id, phase |-> phase, status |-> "open"])
  /\ req' = [t \in Threads |-> IF t \in At(s) THEN [req[t] EXCEPT !.offered = @ \ {id}] ELSE req[t]]
  /\ UNCHANGED <<alive, consumed, spender, stage, started>>

\* close_gate and skip_gate, of a gate that is OPEN.
ResolveGate(s, id, status) ==
  /\ s \in alive /\ id \in OpenGates(s)
  /\ gates' = [gates EXCEPT ![s] =
       [i \in DOMAIN @ |-> IF @[i].id = id THEN [@[i] EXCEPT !.status = status] ELSE @[i]]]
  /\ req' = [t \in Threads |-> IF t \in At(s) THEN [req[t] EXCEPT !.standing = @ \ {id}] ELSE req[t]]
  /\ UNCHANGED <<alive, consumed, spender, stage, started>>

-----------------------------------------------------------------------------
\* A request.

\* execute_session, compile_session: store.get.
Request(t, s, kind) ==
  /\ stage[t] = "idle" /\ s \in alive
  /\ Goto(t, kind)
  /\ req' = [req EXCEPT ![t] = [session |-> s, cursor |-> 1, size |-> 0, paidBy |-> None,
                                standing |-> OpenGates(s), offered |-> {}]]
  /\ UNCHANGED <<alive, gates, consumed, spender, started>>

Past == [execute |-> "estimate", compile |-> "emit"]

\* Variant: only budget gates are looked at.
AssertNoBudgetGates(t) ==
  /\ stage[t] \in DOMAIN Past
  /\ IF S(t) \in alive /\ ~\E g \in GateSet(S(t)) : g.status = "open" /\ g.phase = "budget_check"
     THEN Goto(t, Past[stage[t]]) /\ UNCHANGED req
     ELSE End(t)
  /\ UNCHANGED <<alive, gates, consumed, spender, started>>

\* assert_no_open_gates: UnknownSessionError or OpenGatesError, or nothing.
AssertNoOpenGates(t) ==
  /\ stage[t] \in DOMAIN Past
  /\ IF S(t) \in alive /\ OpenGates(S(t)) = {}
     THEN Goto(t, Past[stage[t]]) /\ UNCHANGED req
     ELSE End(t)
  /\ UNCHANGED <<alive, gates, consumed, spender, started>>

\* What is left of compile_session.
Emit(t) == /\ stage[t] = "emit" /\ End(t)
           /\ UNCHANGED <<alive, gates, consumed, spender, started>>

\* model_dump and estimate_run_cost: within the ceiling or above it.
Estimate(t) == /\ stage[t] = "estimate"
               /\ \E s \in {"run", "look"} : Goto(t, s)
               /\ UNCHANGED <<alive, gates, consumed, spender, req, started>>

\* Variant: the loop is entered without _consumed_lock.
LookUnlocked(t) ==
  /\ stage[t] = "look" /\ S(t) \in alive
  /\ UNCHANGED spender /\ Goto(t, "scan")
  /\ req' = [req EXCEPT ![t].cursor = 1, ![t].size = Len(gates[S(t)]), ![t].offered = Approvals(S(t))]
  /\ UNCHANGED <<alive, gates, consumed, started>>

\* _consume_approval: store.get once more, the lock, and the gates one by one.
Look(t) ==
  /\ stage[t] = "look" /\ S(t) \in alive
  /\ spender = None /\ spender' = t /\ Goto(t, "scan")
  /\ req' = [req EXCEPT ![t].cursor = 1, ![t].size = Len(gates[S(t)]), ![t].offered = Approvals(S(t))]
  /\ UNCHANGED <<alive, gates, consumed, started>>

\* The session has gone: UnknownSessionError.
LookInVain(t) == /\ stage[t] = "look" /\ S(t) \notin alive /\ End(t)
                 /\ UNCHANGED <<alive, gates, consumed, spender, started>>

Unlock(t) == spender' = IF spender = t THEN None ELSE spender
Resized(t) == Len(gates[S(t)]) # req[t].size
AtEnd(t) == req[t].cursor > req[t].size
Current(t) == gates[S(t)][req[t].cursor]

\* Variant: the search ends at the first budget gate.
NoneAtFirst(t) ==
  /\ stage[t] = "scan" /\ ~Resized(t)
  /\ ~AtEnd(t) => ~IsApproval(Current(t)) /\ Current(t).phase = "budget_check"
  /\ Goto(t, "ask") /\ Unlock(t)
  /\ UNCHANGED <<alive, gates, consumed, req, started>>

\* There is no approval.
NoneFound(t) ==
  /\ stage[t] = "scan" /\ ~Resized(t) /\ AtEnd(t)
  /\ Goto(t, "ask") /\ Unlock(t)
  /\ UNCHANGED <<alive, gates, consumed, req, started>>

\* The gate in hand is an approval, or is passed over.
Scan(t) ==
  /\ stage[t] = "scan" /\ ~Resized(t) /\ ~AtEnd(t)
  /\ IF IsApproval(Current(t))
     THEN Goto(t, "spend") /\ req' = [req EXCEPT ![t].paidBy = Current(t).id]
     ELSE req' = [req EXCEPT ![t].cursor = @ + 1] /\ UNCHANGED stage
  /\ UNCHANGED <<alive, gates, consumed, spender, started>>

\* Variant: the lock is kept.
ScanRaisesLocked(t) == /\ stage[t] = "scan" /\ Resized(t) /\ End(t)
                       /\ UNCHANGED <<alive, gates, consumed, spender, started>>

\* A gate was added meanwhile: "dictionary changed size during iteration".
ScanRaises(t) == /\ stage[t] = "scan" /\ Resized(t) /\ End(t) /\ Unlock(t)
                 /\ UNCHANGED <<alive, gates, consumed, started>>

Spend(t) == /\ stage[t] = "spend"
            /\ consumed' = consumed \cup {req[t].paidBy}
            /\ started' = [started EXCEPT ![req[t].paidBy] = @ + 1]
            /\ Goto(t, "run") /\ Unlock(t)
            /\ UNCHANGED <<alive, gates, req>>

\* check_budget_and_open_gate: a budget gate with an id of its own asks for one.
Ask(t) ==
  /\ stage[t] = "ask"
  /\ IF S(t) \in alive
     THEN \E id \in GateIds \ UNION {Taken(s) : s \in Sessions} :
            Store(S(t), [id |-> id, phase |-> "budget_check", status |-> "open"])
     ELSE UNCHANGED gates
  /\ End(t)
  /\ UNCHANGED <<alive, consumed, spender, started>>

\* execute_graph and the run_completed event, or an exception of theirs.
Run(t) == /\ stage[t] = "run" /\ End(t)
          /\ UNCHANGED <<alive, gates, consumed, spender, started>>

-----------------------------------------------------------------------------
Step(t) == \/ AssertNoOpenGates(t) \/ Emit(t) \/ Estimate(t) \/ Look(t) \/ LookInVain(t)
           \/ NoneFound(t) \/ Scan(t) \/ ScanRaises(t) \/ Spend(t) \/ Ask(t) \/ Run(t)

Client(s) == \/ DeleteSession(s)
             \/ \E id \in GateIds : \/ \E phase \in Phases : CreateGate(s, id, phase)
                                    \/ \E status \in {"closed", "skipped"} : ResolveGate(s, id, status)

Next == \/ \E s \in Sessions : Client(s)
        \/ \E t \in Threads : \/ \E s \in Sessions : \E kind \in DOMAIN Past : Request(t, s, kind)
                              \/ Step(t)

Spec == Init /\ [][Next]_vars

-----------------------------------------------------------------------------
Scanning == {"scan", "spend"}

\* No two gates of a session have an id in common, and a thread iterates the gates
\* of its session with the lock of the approvals in its hand.
TypeOK ==
  /\ alive \subseteq Sessions /\ consumed \subseteq GateIds
  /\ gates \in [Sessions -> Seq(Gate)]
  /\ \A s \in Sessions : \A i, j \in DOMAIN gates[s] : gates[s][i].id = gates[s][j].id => i = j
  /\ stage \in [Threads -> {"idle", "execute", "compile", "emit", "estimate", "look", "scan",
                            "spend", "ask", "run"}]
  /\ DOMAIN req = Threads /\ DOMAIN started = GateIds
  /\ \A t \in Threads :
       /\ IF stage[t] = "idle" THEN req[t] = None ELSE req[t] \in Req
       /\ stage[t] \in Scanning <=> spender = t
       /\ stage[t] \in Scanning => req[t].cursor > 0 /\ req[t].size <= Len(gates[S(t)])

\* Every run above the ceiling has an approval of its own: two requests never
\* spend the same one, however their scans interleave (budget_gate.py:32-41, 102).
ApprovalPaysOnce == \A id \in GateIds : started[id] <= 1

\* No run and no compile gets past a gate that was open when it was asked for
\* and has been open ever since (session.py:819-835, service.py:1056, 1080).  A
\* gate opened after the check does not stop it.
StandingGatesBlock ==
  \A t \in Busy : stage[t] \notin {"execute", "compile"} => req[t].standing = {}

\* "Close this gate to approve execution": a request asks for another approval
\* only when every one that was there as it began to look has been reopened
\* meanwhile (budget_gate.py:97-121).
ApprovalIsHonoured == \A t \in Threads : stage[t] = "ask" => req[t].offered = {}

=============================================================================
