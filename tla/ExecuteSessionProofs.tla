------------------------- MODULE ExecuteSessionProofs -------------------------
(***************************************************************************)
(* For any number of threads, sessions and gates: an approval pays for one *)
(* run, a gate that stands stops whoever came after it was opened, and an  *)
(* approval that is there is found.                                        *)
(***************************************************************************)
EXTENDS ExecuteSession, TLAPS

\* The gates: records, no two of which in a session have an id in common.
GatesOK == /\ gates \in [Sessions -> Seq(Gate)]
           /\ \A s \in Sessions : \A i, j \in DOMAIN gates[s] :
                gates[s][i].id = gates[s][j].id => i = j

\* An approval at place i or after it.
Ahead(id, t) == \E i \in DOMAIN gates[S(t)] : /\ i >= req[t].cursor
                                              /\ gates[S(t)][i].id = id
                                              /\ IsApproval(gates[S(t)][i])

\* A thread knows of the gates that stand, and of the approvals it has yet to
\* come to; it iterates and spends with the lock in its hand.
ThreadInv(t) ==
  /\ stage[t] \in {"idle", "execute", "compile", "emit", "estimate", "look", "scan",
                   "spend", "ask", "run"}
  /\ IF stage[t] = "idle" THEN req[t] = None ELSE req[t] \in Req
  /\ stage[t] \in Scanning <=> spender = t
  /\ stage[t] \in Scanning => req[t].cursor > 0 /\ req[t].size <= Len(gates[S(t)])
  /\ stage[t] = "spend" => req[t].paidBy \in GateIds \ consumed
  /\ stage[t] \in {"execute", "compile"} => req[t].standing \subseteq OpenGates(S(t))
  /\ stage[t] \notin {"execute", "compile", "idle"} => req[t].standing = {}
  /\ stage[t] = "scan" => \A id \in req[t].offered : Ahead(id, t)
  /\ stage[t] = "ask" => req[t].offered = {}

\* Each approval that was spent has paid for one run, any other for none.
Accounts == started = [id \in GateIds |-> IF id \in consumed THEN 1 ELSE 0]

IInv == /\ alive \subseteq Sessions /\ consumed \subseteq GateIds
        /\ stage = [t \in Threads |-> stage[t]] /\ DOMAIN req = Threads
        /\ GatesOK /\ Accounts
        /\ \A t \in Threads : ThreadInv(t)

LEMMA InitIInv == Init => IInv
  BY NoneAssumption DEF Init, IInv, GatesOK, Accounts, ThreadInv, Scanning

\* What was there is there still: gates grow at the end, and the gate of another
\* id than g's, or of another session than s, stays as it is.
LEMMA StoreKeeps ==
  ASSUME GatesOK, NEW s \in Sessions, NEW g \in Gate, Store(s, g)
  PROVE  /\ GatesOK'
         /\ \A u \in Sessions : /\ Len(gates'[u]) >= Len(gates[u])
                                /\ \A i \in DOMAIN gates[u] :
                                     /\ i \in DOMAIN gates'[u]
                                     /\ gates'[u][i] = gates[u][i] \/ (gates[u][i].id = g.id /\ u = s)
         /\ \A i \in DOMAIN gates[s] : gates[s][i].id = g.id => gates'[s][i] = g
<1> USE DEF GatesOK
<1>1. \A u \in Sessions : gates[u] \in Seq(Gate) /\ DOMAIN gates[u] = 1 .. Len(gates[u])
  OBVIOUS
<1>2. \A u \in Sessions \ {s} : gates'[u] = gates[u] BY DEF Store
<1>3. \A u \in Sessions : \A i \in DOMAIN gates[u] : gates[u][i] \in Gate
  BY <1>1
<1>4. CASE g.id \in Taken(s)
  <2> DEFINE new == [i \in DOMAIN gates[s] |-> IF gates[s][i].id = g.id THEN g ELSE gates[s][i]]
  <2>1. gates' = [gates EXCEPT ![s] = new] BY <1>4 DEF Store
  <2>2. new \in Seq(Gate) /\ Len(new) = Len(gates[s]) BY <1>1, <1>3
  <2>3. gates'[s] = new /\ gates' \in [Sessions -> Seq(Gate)]
    BY <2>1, <2>2
  <2>4. \A i \in DOMAIN gates[s] : new[i].id = gates[s][i].id OBVIOUS
  <2>5. DOMAIN new = DOMAIN gates[s] OBVIOUS
  <2> HIDE DEF new
  <2>6. \A u \in Sessions : DOMAIN gates'[u] = DOMAIN gates[u]
                            /\ \A i \in DOMAIN gates[u] : gates'[u][i].id = gates[u][i].id
    BY <1>2, <2>3, <2>4, <2>5
  <2>7. GatesOK' BY <2>3, <2>6
  <2>8. \A i \in DOMAIN gates[s] : IF gates[s][i].id = g.id THEN gates'[s][i] = g
                                   ELSE gates'[s][i] = gates[s][i]
    BY <2>3 DEF new
  <2>9. \A u \in Sessions : Len(gates'[u]) = Len(gates[u])
    BY <1>2, <2>2, <2>3
  <2>10. ASSUME NEW u \in Sessions
         PROVE  /\ Len(gates'[u]) >= Len(gates[u])
                /\ \A i \in DOMAIN gates[u] :
                     /\ i \in DOMAIN gates'[u]
                     /\ gates'[u][i] = gates[u][i] \/ (gates[u][i].id = g.id /\ u = s)
    <3>1. Len(gates'[u]) >= Len(gates[u]) BY <1>1, <2>9
    <3>2. \A i \in DOMAIN gates[u] : i \in DOMAIN gates'[u] BY <2>6
    <3>3. \A i \in DOMAIN gates[u] : gates'[u][i] = gates[u][i] \/ (gates[u][i].id = g.id /\ u = s)
      BY <1>2, <2>8
    <3> QED BY <3>1, <3>2, <3>3
  <2>11. \A i \in DOMAIN gates[s] : gates[s][i].id = g.id => gates'[s][i] = g
    BY <2>8
  <2> QED BY ONLY <2>7, <2>10, <2>11
<1>5. CASE g.id \notin Taken(s)
  <2>1. gates' = [gates EXCEPT ![s] = Append(gates[s], g)] BY <1>5 DEF Store
  <2>2. gates'[s] = Append(gates[s], g) /\ gates' \in [Sessions -> Seq(Gate)]
    BY <2>1, <1>1
  <2>3. /\ Len(gates'[s]) = Len(gates[s]) + 1
        /\ \A i \in DOMAIN gates[s] : gates'[s][i] = gates[s][i]
        /\ gates'[s][Len(gates[s]) + 1] = g
        /\ DOMAIN gates'[s] = DOMAIN gates[s] \cup {Len(gates[s]) + 1}
    BY <2>2, <1>1
  <2>4. \A i \in DOMAIN gates[s] : gates[s][i].id # g.id
    BY <1>5 DEF Taken, GateSet
  <2>5. ASSUME NEW u \in Sessions, NEW i \in DOMAIN gates'[u], NEW j \in DOMAIN gates'[u],
               gates'[u][i].id = gates'[u][j].id
        PROVE  i = j
    <3>1. CASE u # s
      <4>1. gates'[u] = gates[u] BY <1>2, <3>1
      <4> QED BY <4>1, <2>5
    <3>2. CASE u = s
      <4>1. ASSUME NEW k \in DOMAIN gates'[s] PROVE gates'[s][k].id = g.id <=> k = Len(gates[s]) + 1
        BY <1>1, <2>3, <2>4
      <4>2. \A k \in DOMAIN gates'[s] : k # Len(gates[s]) + 1 =>
              k \in DOMAIN gates[s] /\ gates'[s][k] = gates[s][k]
        BY <2>3
      <4> QED BY <3>2, <4>1, <4>2, <2>5
    <3> QED BY <3>1, <3>2
  <2>6. GatesOK' BY <2>2, <2>5
  <2>7. ASSUME NEW u \in Sessions
        PROVE  /\ Len(gates'[u]) >= Len(gates[u])
               /\ \A i \in DOMAIN gates[u] :
                    /\ i \in DOMAIN gates'[u]
                    /\ gates'[u][i] = gates[u][i] \/ (gates[u][i].id = g.id /\ u = s)
    <3>1. CASE u = s BY <3>1, <1>1, <2>3
    <3>2. CASE u # s BY <3>2, <1>1, <1>2
    <3> QED BY <3>1, <3>2
  <2>8. \A i \in DOMAIN gates[s] : gates[s][i].id = g.id => gates'[s][i] = g
    BY <2>4
  <2> QED BY <2>6, <2>7, <2>8
<1> QED BY <1>4, <1>5

\* The same of a gate that is closed or skipped.
LEMMA ResolveKeeps ==
  ASSUME GatesOK, NEW s \in Sessions, NEW id \in GateIds, NEW status \in {"closed", "skipped"},
         ResolveGate(s, id, status)
  PROVE  /\ GatesOK'
         /\ \A u \in Sessions : /\ Len(gates'[u]) >= Len(gates[u])
                                /\ \A i \in DOMAIN gates[u] :
                                     /\ i \in DOMAIN gates'[u]
                                     /\ gates'[u][i] = gates[u][i] \/ (gates[u][i].id = id /\ u = s)
<1> USE DEF GatesOK
<1>1. \A u \in Sessions : gates[u] \in Seq(Gate) /\ DOMAIN gates[u] = 1 .. Len(gates[u])
  OBVIOUS
<1>2. \A u \in Sessions \ {s} : gates'[u] = gates[u] BY DEF ResolveGate
<1>3. \A i \in DOMAIN gates[s] : gates[s][i] \in Gate BY <1>1
<1> DEFINE new == [i \in DOMAIN gates[s] |-> IF gates[s][i].id = id
                                             THEN [gates[s][i] EXCEPT !.status = status]
                                             ELSE gates[s][i]]
<1>4. \A i \in DOMAIN gates[s] : new[i] \in Gate /\ new[i].id = gates[s][i].id
  BY <1>3 DEF Gate, Statuses
<1>5. new \in Seq(Gate) /\ Len(new) = Len(gates[s]) BY <1>1, <1>4
<1>6. gates'[s] = new /\ gates' \in [Sessions -> Seq(Gate)]
  <2>1. gates' = [gates EXCEPT ![s] = new] BY DEF ResolveGate
  <2> QED BY <1>5, <2>1
<1>7. DOMAIN new = DOMAIN gates[s] OBVIOUS
<1>8. \A i \in DOMAIN gates[s] : gates'[s][i] = gates[s][i] \/ gates[s][i].id = id
  BY <1>6
<1> HIDE DEF new
<1>9. \A u \in Sessions : DOMAIN gates'[u] = DOMAIN gates[u]
                          /\ \A i \in DOMAIN gates[u] : gates'[u][i].id = gates[u][i].id
  BY <1>2, <1>4, <1>6, <1>7
<1>10. ASSUME NEW u \in Sessions, NEW i \in DOMAIN gates'[u], NEW j \in DOMAIN gates'[u],
              gates'[u][i].id = gates'[u][j].id
       PROVE  i = j
  <2>1. i \in DOMAIN gates[u] /\ j \in DOMAIN gates[u] BY <1>9
  <2>2. gates[u][i].id = gates[u][j].id BY <1>9, <1>10, <2>1
  <2> QED BY <2>1, <2>2
<1>11. ASSUME NEW u \in Sessions
       PROVE  /\ Len(gates'[u]) >= Len(gates[u])
              /\ \A i \in DOMAIN gates[u] :
                   /\ i \in DOMAIN gates'[u]
                   /\ gates'[u][i] = gates[u][i] \/ (gates[u][i].id = id /\ u = s)
  <2>1. Len(gates'[u]) >= Len(gates[u])
    <3>1. Len(gates[u]) \in Nat BY <1>1
    <3>2. Len(gates'[u]) = Len(gates[u])
      <4>1. CASE u = s BY <1>5, <1>6, <4>1, Zenon
      <4>2. CASE u # s BY <1>2, <4>2, Zenon
      <4> QED BY <4>1, <4>2
    <3> QED BY <3>1, <3>2
  <2>2. \A i \in DOMAIN gates[u] : i \in DOMAIN gates'[u] BY <1>9
  <2>3. \A i \in DOMAIN gates[u] : gates'[u][i] = gates[u][i] \/ (gates[u][i].id = id /\ u = s)
    BY <1>2, <1>8
  <2> QED BY <2>1, <2>2, <2>3
<1>12. GatesOK' BY <1>6, <1>10
<1> QED BY <1>11, <1>12

-----------------------------------------------------------------------------
\* What a thread knows outlives a change to the gate that is called id, once id
\* is no longer on offer, and stands only as long as it is open.
LEMMA BusyKeep ==
  ASSUME NEW t \in Threads, ThreadInv(t), stage[t] # "idle", stage'[t] = stage[t],
         consumed' = consumed, spender' = t <=> spender = t, GatesOK,
         req'[t] \in Req, req'[t].session = req[t].session, req'[t].cursor = req[t].cursor,
         req'[t].size = req[t].size, req'[t].paidBy = req[t].paidBy,
         req'[t].offered \subseteq req[t].offered, req'[t].standing \subseteq req[t].standing,
         Len(gates'[S(t)]) >= Len(gates[S(t)]), Len(gates'[S(t)]) \in Nat,
         NEW id,
         \A i \in DOMAIN gates[S(t)] :
           /\ i \in DOMAIN gates'[S(t)]
           /\ \/ gates'[S(t)][i] = gates[S(t)][i]
              \/ /\ gates[S(t)][i].id = id /\ id \notin req'[t].offered
                 /\ id \in req'[t].standing => gates'[S(t)][i].id = id
                                              /\ gates'[S(t)][i].status = "open"
  PROVE  ThreadInv(t)'
<1> DEFINE s == req[t].session
<1>1. S(t) = s /\ S(t)' = s /\ s \in Sessions /\ req[t] \in Req
  BY DEF S, ThreadInv, Req
<1>2. \A g : IsApproval(g)' <=> IsApproval(g) BY DEF IsApproval
<1>3. ASSUME stage[t] = "scan", NEW a \in req'[t].offered PROVE Ahead(a, t)'
  <2>1. PICK i \in DOMAIN gates[s] : /\ i >= req[t].cursor /\ gates[s][i].id = a
                                     /\ IsApproval(gates[s][i])
    BY <1>1, <1>3 DEF ThreadInv, Ahead
  <2>2. gates'[s][i] = gates[s][i] /\ i \in DOMAIN gates'[s] BY <1>1, <1>3, <2>1
  <2> QED BY <1>1, <1>2, <2>1, <2>2 DEF Ahead
<1>4. ASSUME stage[t] \in {"execute", "compile"}, NEW a \in req'[t].standing
      PROVE  a \in OpenGates(S(t))'
  <2>1. PICK i \in DOMAIN gates[s] : gates[s][i].id = a /\ gates[s][i].status = "open"
    BY <1>1, <1>4 DEF ThreadInv, OpenGates, GateSet
  <2>2. i \in DOMAIN gates'[s] /\ gates'[s][i].id = a /\ gates'[s][i].status = "open"
    BY <1>1, <1>4, <2>1
  <2> QED BY <1>1, <2>2 DEF OpenGates, GateSet
<1>5. /\ stage'[t] \in {"idle", "execute", "compile", "emit", "estimate", "look", "scan",
                        "spend", "ask", "run"}
      /\ IF stage'[t] = "idle" THEN req'[t] = None ELSE req'[t] \in Req
      /\ stage'[t] \in Scanning <=> spender' = t
      /\ stage'[t] = "spend" => req'[t].paidBy \in GateIds \ consumed'
      /\ stage'[t] \notin {"execute", "compile", "idle"} => req'[t].standing = {}
      /\ stage'[t] = "ask" => req'[t].offered = {}
  BY DEF ThreadInv
<1>6. stage'[t] \in Scanning => req'[t].cursor > 0 /\ req'[t].size <= Len(gates'[S(t)'])
  <2>1. gates[s] \in Seq(Gate) BY <1>1 DEF GatesOK
  <2>2. Len(gates[s]) \in Nat BY <2>1
  <2>3. req[t].size \in Nat /\ req[t].cursor \in Nat BY <1>1 DEF Req
  <2> QED BY <1>1, <2>2, <2>3 DEF ThreadInv
<1> QED BY <1>3, <1>4, <1>5, <1>6 DEF ThreadInv, Scanning

\* A thread at rest has nothing to lose.
LEMMA IdleKeep ==
  ASSUME NEW t \in Threads, ThreadInv(t), stage[t] = "idle", stage'[t] = "idle",
         req'[t] = req[t], spender' = t <=> spender = t
  PROVE  ThreadInv(t)'
  BY DEF ThreadInv, Scanning

\* A step of one thread that leaves the gates alone is no business of another's,
\* for only the holder of the lock spends.
LEMMA StepKeeps ==
  ASSUME IInv, NEW t \in Threads, ThreadInv(t)', Accounts', consumed' \subseteq GateIds,
         UNCHANGED <<alive, gates>>,
         \E s : stage' = [stage EXCEPT ![t] = s], (\E r : req' = [req EXCEPT ![t] = r]) \/ req' = req,
         \/ spender' = spender
         \/ spender = None /\ spender' = t
         \/ spender = t /\ spender' = None,
         consumed' = consumed \/ spender = t
  PROVE  IInv'
<1>1. ASSUME NEW u \in Threads, u # t PROVE ThreadInv(u)'
  <2>1. stage'[u] = stage[u] /\ req'[u] = req[u] /\ S(u)' = S(u)
    BY <1>1 DEF IInv, S
  <2>2. spender' = u <=> spender = u BY <1>1, NoneAssumption
  <2>3. ThreadInv(u) BY DEF IInv
  <2>4. stage[u] = "idle" => ThreadInv(u)' BY <2>1, <2>2, <2>3, IdleKeep
  <2>5. CASE stage[u] \in Scanning
    <3>1. consumed' = consumed BY <1>1, <2>3, <2>5 DEF ThreadInv
    <3>2. \A id : Ahead(id, u)' <=> Ahead(id, u) BY <2>1, <3>1 DEF Ahead, IsApproval
    <3> QED BY <2>1, <2>2, <2>3, <2>5, <3>1, <3>2 DEF ThreadInv, Scanning
  <2>6. CASE stage[u] \notin Scanning
    <3>1. OpenGates(S(u))' = OpenGates(S(u)) BY <2>1 DEF OpenGates, GateSet
    <3> QED BY <2>1, <2>2, <2>3, <2>6, <3>1 DEF ThreadInv, Scanning
  <2> QED BY <2>5, <2>6
<1>2. \A u \in Threads : ThreadInv(u)' BY <1>1
<1>3. stage' = [u \in Threads |-> stage'[u]] /\ DOMAIN req' = Threads BY DEF IInv
<1>4. GatesOK' BY DEF IInv, GatesOK
<1>5. alive' \subseteq Sessions BY DEF IInv
<1> QED BY ONLY <1>2, <1>3, <1>4, <1>5, Accounts', consumed' \subseteq GateIds DEF IInv

-----------------------------------------------------------------------------
\* The clients: a thread that is busy is told of the change by its ghosts.

LEMMA CreateGateKeeps ==
  ASSUME IInv, NEW s \in Sessions, NEW id \in GateIds, NEW phase \in Phases,
         CreateGate(s, id, phase)
  PROVE  IInv'
<1> DEFINE g == [id |-> id, phase |-> phase, status |-> "open"]
<1>1. g \in Gate /\ g.id = id /\ g.status = "open" BY DEF Gate, Statuses
<1> HIDE DEF g
<1>2. GatesOK /\ Store(s, g)
  BY <1>1 DEF IInv, CreateGate, g
<1>3. /\ GatesOK'
      /\ \A u \in Sessions : /\ Len(gates'[u]) >= Len(gates[u])
                             /\ \A i \in DOMAIN gates[u] :
                                  /\ i \in DOMAIN gates'[u]
                                  /\ gates'[u][i] = gates[u][i] \/ (gates[u][i].id = id /\ u = s)
      /\ \A i \in DOMAIN gates[s] : gates[s][i].id = id => gates'[s][i] = g
  BY <1>1, <1>2, StoreKeeps
<1>4. ASSUME NEW t \in Threads PROVE ThreadInv(t)'
  <2>1. ThreadInv(t) BY DEF IInv
  <2>2. UNCHANGED <<stage, consumed, spender>> BY DEF CreateGate
  <2>3. req'[t] = IF stage[t] # "idle" /\ S(t) = s
                  THEN [req[t] EXCEPT !.offered = @ \ {id}] ELSE req[t]
    BY DEF CreateGate, At, Busy
  <2>4. CASE stage[t] = "idle" BY <2>1, <2>2, <2>3, <2>4, IdleKeep
  <2>5. CASE stage[t] # "idle"
    <3>1. req[t] \in Req /\ S(t) \in Sessions BY <2>1, <2>5 DEF ThreadInv, Req, S
    <3>2. /\ req'[t] \in Req /\ req'[t].session = req[t].session
          /\ req'[t].cursor = req[t].cursor /\ req'[t].size = req[t].size
          /\ req'[t].paidBy = req[t].paidBy /\ req'[t].offered \subseteq req[t].offered
          /\ S(t) = s => id \notin req'[t].offered
          /\ req'[t].standing = req[t].standing
      BY <2>3, <2>5, <3>1 DEF Req
    <3>3. Len(gates'[S(t)]) \in Nat
      <4>1. gates'[S(t)] \in Seq(Gate) BY <1>3, <3>1 DEF GatesOK
      <4> QED BY <4>1
    <3>4. \A i \in DOMAIN gates[S(t)] :
            /\ i \in DOMAIN gates'[S(t)]
            /\ \/ gates'[S(t)][i] = gates[S(t)][i]
               \/ /\ gates[S(t)][i].id = id /\ id \notin req'[t].offered
                  /\ id \in req'[t].standing => gates'[S(t)][i].id = id
                                               /\ gates'[S(t)][i].status = "open"
      BY <1>1, <1>3, <3>1, <3>2
    <3> QED BY <1>2, <1>3, <2>1, <2>2, <2>5, <3>1, <3>2, <3>3, <3>4, BusyKeep
  <2> QED BY <2>4, <2>5
<1>5. /\ alive' \subseteq Sessions /\ consumed' \subseteq GateIds
      /\ stage' = [t \in Threads |-> stage'[t]] /\ DOMAIN req' = Threads /\ Accounts'
  BY DEF CreateGate, IInv, Accounts
<1> QED BY ONLY <1>3, <1>4, <1>5 DEF IInv

LEMMA ResolveGateKeeps ==
  ASSUME IInv, NEW s \in Sessions, NEW id \in GateIds, NEW status \in {"closed", "skipped"},
         ResolveGate(s, id, status)
  PROVE  IInv'
<1>1. /\ GatesOK'
      /\ \A u \in Sessions : /\ Len(gates'[u]) >= Len(gates[u])
                             /\ \A i \in DOMAIN gates[u] :
                                  /\ i \in DOMAIN gates'[u]
                                  /\ gates'[u][i] = gates[u][i] \/ (gates[u][i].id = id /\ u = s)
  BY ResolveKeeps DEF IInv
\* The gate was open: it was no approval, and no other of the session has its id.
<1>2. PICK j \in DOMAIN gates[s] : gates[s][j].id = id /\ gates[s][j].status = "open"
  BY DEF ResolveGate, OpenGates, GateSet
<1>3. ASSUME NEW t \in Threads PROVE ThreadInv(t)'
  <2>1. ThreadInv(t) BY DEF IInv
  <2>2. UNCHANGED <<stage, consumed, spender>> BY DEF ResolveGate
  <2>3. req'[t] = IF stage[t] # "idle" /\ S(t) = s
                  THEN [req[t] EXCEPT !.standing = @ \ {id}] ELSE req[t]
    BY DEF ResolveGate, At, Busy
  <2>4. CASE stage[t] = "idle" BY <2>1, <2>2, <2>3, <2>4, IdleKeep
  <2>5. CASE stage[t] # "idle"
    <3>1. req[t] \in Req /\ S(t) \in Sessions BY <2>1, <2>5 DEF ThreadInv, Req, S
    <3>2. /\ req'[t] \in Req /\ req'[t].session = req[t].session
          /\ req'[t].cursor = req[t].cursor /\ req'[t].size = req[t].size
          /\ req'[t].paidBy = req[t].paidBy /\ req'[t].offered = req[t].offered
          /\ req'[t].standing \subseteq req[t].standing
          /\ S(t) = s => id \notin req'[t].standing
      BY <2>3, <2>5, <3>1 DEF Req
    <3>3. Len(gates'[S(t)]) \in Nat
      <4>1. gates'[S(t)] \in Seq(Gate) BY <1>1, <3>1 DEF GatesOK
      <4> QED BY <4>1
    <3>4. CASE stage[t] = "scan"
      <4>1. S(t) = s => id \notin req[t].offered
        <5> SUFFICES ASSUME S(t) = s, id \in req[t].offered PROVE FALSE OBVIOUS
        <5>1. PICK i \in DOMAIN gates[S(t)] : gates[S(t)][i].id = id /\ IsApproval(gates[S(t)][i])
          BY <2>1, <3>4 DEF ThreadInv, Ahead
        <5>2. i = j BY <1>2, <3>1, <5>1 DEF IInv, GatesOK
        <5> QED BY <1>2, <5>1, <5>2 DEF IsApproval
      <4>2. \A i \in DOMAIN gates[S(t)] :
              /\ i \in DOMAIN gates'[S(t)]
              /\ \/ gates'[S(t)][i] = gates[S(t)][i]
                 \/ /\ gates[S(t)][i].id = id /\ id \notin req'[t].offered
                    /\ id \in req'[t].standing => gates'[S(t)][i].id = id
                                                 /\ gates'[S(t)][i].status = "open"
        BY <1>1, <3>1, <3>2, <4>1
      <4> QED BY <1>1, <2>1, <2>2, <2>5, <3>1, <3>2, <3>3, <4>2, BusyKeep DEF IInv
    \* What is on offer matters to a scan only.
    <3>5. CASE stage[t] # "scan"
      <4>1. S(t)' = S(t) BY <3>2 DEF S
      <4>2. ASSUME stage[t] \in {"execute", "compile"}, NEW a \in req'[t].standing
            PROVE  a \in OpenGates(S(t))'
        <5>1. PICK i \in DOMAIN gates[S(t)] : gates[S(t)][i].id = a /\ gates[S(t)][i].status = "open"
          BY <2>1, <3>2, <4>2 DEF ThreadInv, OpenGates, GateSet
        <5>2. i \in DOMAIN gates'[S(t)] /\ gates'[S(t)][i] = gates[S(t)][i]
          BY <1>1, <3>1, <3>2, <4>2, <5>1
        <5> QED BY <4>1, <5>1, <5>2 DEF OpenGates, GateSet
      <4>3. stage[t] \in Scanning => req'[t].cursor > 0 /\ req'[t].size <= Len(gates'[S(t)])
        <5>1. gates[S(t)] \in Seq(Gate) BY <3>1 DEF IInv, GatesOK
        <5>2. Len(gates[S(t)]) \in Nat BY <5>1
        <5>3. req[t].size \in Nat BY <3>1 DEF Req
        <5> QED BY <1>1, <2>1, <3>1, <3>2, <3>3, <5>2, <5>3 DEF ThreadInv
      <4> QED BY <2>1, <2>2, <2>5, <3>2, <3>5, <4>1, <4>2, <4>3 DEF ThreadInv, Scanning
    <3> QED BY <3>4, <3>5
  <2> QED BY <2>4, <2>5
<1>4. /\ alive' \subseteq Sessions /\ consumed' \subseteq GateIds
      /\ stage' = [t \in Threads |-> stage'[t]] /\ DOMAIN req' = Threads /\ Accounts'
  BY DEF ResolveGate, IInv, Accounts
<1> QED BY ONLY <1>1, <1>3, <1>4 DEF IInv

LEMMA DeleteSessionKeeps ==
  ASSUME IInv, NEW s \in Sessions, DeleteSession(s)
  PROVE  IInv'
<1>1. UNCHANGED <<gates, consumed, spender, stage, req, started>> /\ alive' \subseteq Sessions
  BY DEF DeleteSession, IInv
<1>2. \A t \in Threads : ThreadInv(t)'
  BY <1>1 DEF IInv, ThreadInv, Ahead, IsApproval, OpenGates, GateSet, S
<1> QED BY <1>1, <1>2 DEF IInv, GatesOK, Accounts

-----------------------------------------------------------------------------
\* The requests.

\* A request begins with the gates that are open then.
LEMMA RequestKeeps ==
  ASSUME IInv, NEW t \in Threads, NEW s \in Sessions, NEW kind \in DOMAIN Past,
         Request(t, s, kind)
  PROVE  IInv'
<1>1. kind \in {"execute", "compile"} BY DEF Past
<1>2. /\ UNCHANGED <<alive, gates, consumed, spender, started>>
      /\ stage' = [stage EXCEPT ![t] = kind] /\ stage[t] = "idle"
      /\ req' = [req EXCEPT ![t] = [session |-> s, cursor |-> 1, size |-> 0, paidBy |-> None,
                                    standing |-> OpenGates(s), offered |-> {}]]
  BY DEF Request, Goto
<1>3. stage'[t] = kind /\ req'[t] = [session |-> s, cursor |-> 1, size |-> 0, paidBy |-> None,
                                     standing |-> OpenGates(s), offered |-> {}]
  BY <1>2 DEF IInv
<1>4. OpenGates(s) \subseteq GateIds
  <2>1. \A i \in DOMAIN gates[s] : gates[s][i] \in Gate BY DEF IInv, GatesOK
  <2> QED BY <2>1 DEF OpenGates, GateSet, Gate
<1>5. req'[t] \in Req BY <1>3, <1>4 DEF Req
<1>6. spender # t BY <1>2 DEF IInv, ThreadInv, Scanning
<1>7. S(t)' = s /\ OpenGates(s)' = OpenGates(s) BY <1>2, <1>3 DEF S, OpenGates, GateSet
<1>8. ThreadInv(t)' BY <1>1, <1>2, <1>3, <1>5, <1>6, <1>7 DEF ThreadInv, Scanning
<1>9. Accounts' /\ consumed' \subseteq GateIds BY <1>2 DEF IInv, Accounts
<1> QED BY <1>2, <1>8, <1>9, StepKeeps

\* To go on, or to end, without a word about the gates or their approvals.
LEMMA GoOnKeeps ==
  ASSUME IInv, NEW t \in Threads, stage[t] # "idle", stage[t] \notin Scanning,
         NEW next \in {"emit", "estimate", "look", "run"}, Goto(t, next),
         req[t].standing = {}, UNCHANGED <<alive, gates, consumed, spender, req, started>>
  PROVE  IInv'
<1>1. stage'[t] = next /\ req'[t] = req[t] BY DEF Goto, IInv
<1>2. ThreadInv(t) BY DEF IInv
<1>3. ThreadInv(t)' BY <1>1, <1>2 DEF ThreadInv, Scanning
<1>4. Accounts' /\ consumed' \subseteq GateIds BY DEF IInv, Accounts
<1>5. \E s : stage' = [stage EXCEPT ![t] = s] BY DEF Goto
<1> QED BY <1>3, <1>4, <1>5, StepKeeps

LEMMA EndKeeps ==
  ASSUME IInv, NEW t \in Threads, End(t), UNCHANGED <<alive, gates, consumed, started>>,
         stage[t] \in Scanning => Unlock(t), stage[t] \notin Scanning => spender' = spender
  PROVE  IInv'
<1>1. stage'[t] = "idle" /\ req'[t] = None BY DEF End, Goto, IInv
<1>2. ThreadInv(t) BY DEF IInv
<1>3. spender' # t
  <2>1. CASE stage[t] \in Scanning BY <2>1, NoneAssumption DEF Unlock
  <2>2. CASE stage[t] \notin Scanning BY <1>2, <2>2 DEF ThreadInv
  <2> QED BY <2>1, <2>2
<1>4. ThreadInv(t)' BY <1>1, <1>3 DEF ThreadInv, Scanning
<1>5. Accounts' /\ consumed' \subseteq GateIds BY DEF IInv, Accounts
<1>6. (\E s : stage' = [stage EXCEPT ![t] = s]) /\ (\E r : req' = [req EXCEPT ![t] = r])
  BY DEF End, Goto
<1>7. spender' = spender \/ (spender = t /\ spender' = None) BY DEF Unlock
<1> QED BY <1>4, <1>5, <1>6, <1>7, StepKeeps

LEMMA AssertKeeps ==
  ASSUME IInv, NEW t \in Threads, AssertNoOpenGates(t)
  PROVE  IInv'
<1>1. stage[t] \in {"execute", "compile"} /\ Past[stage[t]] \in {"emit", "estimate"}
  BY DEF AssertNoOpenGates, Past
<1>2. CASE S(t) \in alive /\ OpenGates(S(t)) = {}
  <2>1. req[t].standing = {} BY <1>1, <1>2 DEF IInv, ThreadInv
  <2> QED BY <1>1, <1>2, <2>1, GoOnKeeps DEF AssertNoOpenGates, Scanning
<1>3. CASE ~(S(t) \in alive /\ OpenGates(S(t)) = {})
  BY <1>1, <1>3, EndKeeps DEF AssertNoOpenGates, Scanning
<1> QED BY <1>2, <1>3

LEMMA EstimateKeeps ==
  ASSUME IInv, NEW t \in Threads, Estimate(t)
  PROVE  IInv'
<1>1. stage[t] = "estimate" BY DEF Estimate
<1>2. req[t].standing = {} BY <1>1 DEF IInv, ThreadInv
<1> QED BY <1>1, <1>2, GoOnKeeps DEF Estimate, Scanning

LEMMA EndsKeep ==
  ASSUME IInv, NEW t \in Threads,
         \/ Emit(t) \/ LookInVain(t) \/ Run(t) \/ ScanRaises(t)
  PROVE  IInv'
<1>1. ASSUME Emit(t) \/ LookInVain(t) \/ Run(t) PROVE IInv'
  BY <1>1, EndKeeps DEF Emit, LookInVain, Run, Scanning
<1>2. ASSUME ScanRaises(t) PROVE IInv'
  BY <1>2, EndKeeps DEF ScanRaises, Scanning
<1> QED BY <1>1, <1>2

\* With the lock in its hand, the thread has all the gates before it.
LEMMA LookKeeps ==
  ASSUME IInv, NEW t \in Threads, Look(t)
  PROVE  IInv'
<1> DEFINE s == S(t)
           r == [req[t] EXCEPT !.cursor = 1, !.size = Len(gates[s]), !.offered = Approvals(s)]
<1>1. /\ stage[t] = "look" /\ spender = None /\ spender' = t
      /\ UNCHANGED <<alive, gates, consumed, started>>
      /\ stage' = [stage EXCEPT ![t] = "scan"] /\ req' = [req EXCEPT ![t] = r]
  BY DEF Look, Goto
<1>2. stage'[t] = "scan" /\ req'[t] = r BY <1>1 DEF IInv
<1>3. req[t] \in Req /\ s \in Sessions /\ req[t].standing = {}
  BY <1>1 DEF IInv, ThreadInv, Req, S
<1>4. gates[s] \in Seq(Gate) BY <1>3 DEF IInv, GatesOK
<1>5. Approvals(s) \subseteq GateIds
  <2>1. \A i \in DOMAIN gates[s] : gates[s][i] \in Gate BY <1>4
  <2> QED BY <2>1 DEF Approvals, GateSet, Gate
<1>6. Len(gates[s]) \in Nat /\ DOMAIN gates[s] = 1 .. Len(gates[s]) BY <1>4
<1>7. /\ r \in Req /\ r.session = s /\ r.cursor = 1 /\ r.size = Len(gates[s])
      /\ r.offered = Approvals(s) /\ r.standing = {}
  BY <1>3, <1>5, <1>6 DEF Req, S
<1> HIDE DEF r
<1>8. S(t)' = s BY <1>2, <1>7 DEF S
<1>9. ASSUME NEW id \in r.offered PROVE Ahead(id, t)'
  <2>1. PICK i \in DOMAIN gates[s] : gates[s][i].id = id /\ IsApproval(gates[s][i])
    BY <1>7 DEF Approvals, GateSet
  <2>2. i >= 1 BY <1>6
  <2> QED BY <1>1, <1>2, <1>7, <1>8, <2>1, <2>2 DEF Ahead, IsApproval
<1> HIDE DEF s
<1>10. ThreadInv(t)' BY <1>1, <1>2, <1>6, <1>7, <1>8, <1>9 DEF ThreadInv, Scanning
<1>11. Accounts' /\ consumed' \subseteq GateIds BY <1>1 DEF IInv, Accounts
<1> QED BY <1>1, <1>10, <1>11, StepKeeps

\* What a thread in a scan has before it.
LEMMA ScanFacts ==
  ASSUME IInv, NEW t \in Threads, stage[t] = "scan"
  PROVE  /\ ThreadInv(t) /\ spender = t /\ req[t] \in Req /\ S(t) \in Sessions
         /\ req[t].standing = {} /\ req[t].cursor \in Nat \ {0} /\ req[t].size \in Nat
         /\ req[t].size <= Len(gates[S(t)])
         /\ gates[S(t)] \in Seq(Gate) /\ Len(gates[S(t)]) \in Nat
         /\ DOMAIN gates[S(t)] = 1 .. Len(gates[S(t)])
         /\ stage = [u \in Threads |-> stage[u]] /\ DOMAIN req = Threads
<1>1. ThreadInv(t) /\ stage = [u \in Threads |-> stage[u]] /\ DOMAIN req = Threads BY DEF IInv
<1>2. spender = t /\ req[t] \in Req BY <1>1 DEF ThreadInv, Scanning
<1>3. S(t) \in Sessions /\ req[t].cursor \in Nat /\ req[t].size \in Nat BY <1>2 DEF Req, S
<1>4. req[t].cursor > 0 /\ req[t].size <= Len(gates[S(t)]) /\ req[t].standing = {}
  BY <1>1 DEF ThreadInv, Scanning
<1>5. gates[S(t)] \in Seq(Gate) BY <1>3 DEF IInv, GatesOK
<1> QED BY <1>1, <1>2, <1>3, <1>4, <1>5

\* At the end of the gates there is none ahead.
LEMMA NoneFoundKeeps ==
  ASSUME IInv, NEW t \in Threads, NoneFound(t)
  PROVE  IInv'
<1>1. /\ stage[t] = "scan" /\ Len(gates[S(t)]) = req[t].size /\ req[t].cursor > req[t].size
      /\ stage' = [stage EXCEPT ![t] = "ask"] /\ Unlock(t)
      /\ UNCHANGED <<alive, gates, consumed, req, started>>
  BY DEF NoneFound, Goto, Resized, AtEnd
<1>2. /\ ThreadInv(t) /\ spender = t /\ req[t] \in Req /\ req[t].standing = {}
      /\ DOMAIN gates[S(t)] = 1 .. Len(gates[S(t)]) /\ req[t].cursor \in Nat /\ req[t].size \in Nat
  BY <1>1, ScanFacts
<1>3. ASSUME NEW id \in req[t].offered PROVE FALSE
  <2>1. PICK i \in DOMAIN gates[S(t)] : i >= req[t].cursor
    BY <1>1, <1>2, <1>3 DEF ThreadInv, Ahead
  <2> QED BY <1>1, <1>2, <2>1
<1>4. stage'[t] = "ask" /\ req'[t] = req[t] BY <1>1 DEF IInv
<1>5. spender' = None /\ spender' # t BY <1>1, <1>2, NoneAssumption DEF Unlock
<1>6. ThreadInv(t)' BY <1>2, <1>3, <1>4, <1>5 DEF ThreadInv, Scanning
<1>7. Accounts' /\ consumed' \subseteq GateIds BY <1>1 DEF IInv, Accounts
<1> QED BY <1>1, <1>2, <1>5, <1>6, <1>7, StepKeeps

\* A gate that is passed over is no approval, and one that is not is unspent.
LEMMA ScanKeeps ==
  ASSUME IInv, NEW t \in Threads, Scan(t)
  PROVE  IInv'
<1>1. /\ stage[t] = "scan" /\ ~(req[t].cursor > req[t].size)
      /\ UNCHANGED <<alive, gates, consumed, spender, started>>
  BY DEF Scan, AtEnd
<1>2. /\ ThreadInv(t) /\ spender = t /\ req[t] \in Req /\ S(t) \in Sessions
      /\ req[t].standing = {} /\ req[t].cursor \in Nat \ {0} /\ req[t].size \in Nat
      /\ req[t].size <= Len(gates[S(t)])
      /\ gates[S(t)] \in Seq(Gate) /\ Len(gates[S(t)]) \in Nat
      /\ DOMAIN gates[S(t)] = 1 .. Len(gates[S(t)])
  BY <1>1, ScanFacts
<1>3. req[t].cursor \in DOMAIN gates[S(t)] BY <1>1, <1>2
<1>4. Current(t) \in Gate /\ Current(t).id \in GateIds
  <2>1. Current(t) \in Gate BY <1>2, <1>3 DEF Current
  <2> QED BY <2>1 DEF Gate
<1>5. Accounts' /\ consumed' \subseteq GateIds BY <1>1 DEF IInv, Accounts
<1>6. CASE IsApproval(Current(t))
  <2> DEFINE r == [req[t] EXCEPT !.paidBy = Current(t).id]
  <2>1. stage' = [stage EXCEPT ![t] = "spend"] /\ req' = [req EXCEPT ![t] = r]
    BY <1>6 DEF Scan, Goto
  <2>2. stage'[t] = "spend" /\ req'[t] = r BY <2>1 DEF IInv
  <2>3. /\ r \in Req /\ r.session = S(t) /\ r.cursor = req[t].cursor /\ r.size = req[t].size
        /\ r.standing = {} /\ r.paidBy \in GateIds \ consumed
    BY <1>2, <1>4, <1>6 DEF Req, IsApproval, S
  <2> HIDE DEF r
  <2>4. S(t)' = S(t) BY <2>2, <2>3 DEF S
  <2>5. ThreadInv(t)' BY <1>1, <1>2, <2>2, <2>3, <2>4 DEF ThreadInv, Scanning
  <2> QED BY <1>1, <1>5, <2>1, <2>5, StepKeeps
<1>7. CASE ~IsApproval(Current(t))
  <2> DEFINE r == [req[t] EXCEPT !.cursor = @ + 1]
  <2>1. stage' = stage /\ req' = [req EXCEPT ![t] = r] BY <1>7 DEF Scan
  <2>2. stage'[t] = "scan" /\ req'[t] = r BY <1>1, <2>1 DEF IInv
  <2>3. /\ r \in Req /\ r.session = S(t) /\ r.cursor = req[t].cursor + 1 /\ r.size = req[t].size
        /\ r.standing = {} /\ r.offered = req[t].offered
    BY <1>2 DEF Req, S
  <2> HIDE DEF r
  <2>4. S(t)' = S(t) BY <2>2, <2>3 DEF S
  <2>5. ASSUME NEW id \in r.offered PROVE Ahead(id, t)'
    <3>1. PICK i \in DOMAIN gates[S(t)] : /\ i >= req[t].cursor /\ gates[S(t)][i].id = id
                                          /\ IsApproval(gates[S(t)][i])
      BY <1>1, <1>2, <2>3, <2>5 DEF ThreadInv, Ahead
    <3>2. i # req[t].cursor BY <1>7, <3>1 DEF Current
    <3>3. i >= req[t].cursor + 1 BY <1>2, <3>1, <3>2
    <3> QED BY <1>1, <2>2, <2>3, <2>4, <3>1, <3>3 DEF Ahead, IsApproval
  <2>6. ThreadInv(t)' BY <1>1, <1>2, <2>2, <2>3, <2>4, <2>5 DEF ThreadInv, Scanning
  <2>7. stage' = [stage EXCEPT ![t] = "scan"] BY <1>1, <2>1 DEF IInv
  <2> QED BY <1>1, <1>5, <2>1, <2>6, <2>7, StepKeeps
<1> QED BY <1>6, <1>7

\* An approval that is spent had not been spent before.
LEMMA SpendKeeps ==
  ASSUME IInv, NEW t \in Threads, Spend(t)
  PROVE  IInv'
<1> DEFINE id == req[t].paidBy
<1>1. /\ stage[t] = "spend" /\ consumed' = consumed \cup {id}
      /\ started' = [started EXCEPT ![id] = @ + 1]
      /\ stage' = [stage EXCEPT ![t] = "run"] /\ Unlock(t)
      /\ UNCHANGED <<alive, gates, req>>
  BY DEF Spend, Goto
<1>2. ThreadInv(t) BY DEF IInv
<1>3. /\ spender = t /\ req[t] \in Req /\ req[t].standing = {} /\ id \in GateIds \ consumed
  BY <1>1, <1>2 DEF ThreadInv, Scanning
<1>4. consumed' \subseteq GateIds BY <1>1, <1>3 DEF IInv
<1>5. Accounts' BY <1>1, <1>3 DEF IInv, Accounts
<1>6. stage'[t] = "run" /\ req'[t] = req[t] BY <1>1 DEF IInv
<1>7. spender' = None /\ spender' # t BY <1>1, <1>3, NoneAssumption DEF Unlock
<1>8. ThreadInv(t)' BY <1>3, <1>6, <1>7 DEF ThreadInv, Scanning
<1> QED BY <1>1, <1>3, <1>4, <1>5, <1>7, <1>8, StepKeeps

\* To ask for an approval is to open a gate with an id of its own.
LEMMA AskKeeps ==
  ASSUME IInv, NEW t \in Threads, Ask(t)
  PROVE  IInv'
<1>1. /\ stage[t] = "ask" /\ End(t) /\ UNCHANGED <<alive, consumed, spender, started>>
  BY DEF Ask
<1>2. CASE S(t) \notin alive
  BY <1>1, <1>2, EndKeeps DEF Ask, Scanning
<1>3. CASE S(t) \in alive
  <2>1. PICK id \in GateIds \ UNION {Taken(s) : s \in Sessions} :
          Store(S(t), [id |-> id, phase |-> "budget_check", status |-> "open"])
    BY <1>3 DEF Ask
  <2> DEFINE g == [id |-> id, phase |-> "budget_check", status |-> "open"]
             s == S(t)
  <2>2. g \in Gate /\ g.id = id BY DEF Gate, Phases, Statuses
  <2>3. s \in Sessions BY <1>3 DEF IInv
  <2>4. \A u \in Sessions : \A i \in DOMAIN gates[u] : gates[u][i].id # id
    BY DEF Taken, GateSet
  <2>5. Store(s, g) BY <2>1
  <2> HIDE DEF g, s
  <2>6. /\ GatesOK'
        /\ \A u \in Sessions : /\ Len(gates'[u]) >= Len(gates[u])
                               /\ \A i \in DOMAIN gates[u] :
                                    /\ i \in DOMAIN gates'[u]
                                    /\ gates'[u][i] = gates[u][i] \/ (gates[u][i].id = id /\ u = s)
    <3>1. GatesOK BY DEF IInv
    <3> QED BY <2>2, <2>3, <2>5, <3>1, StoreKeeps
  <2>7. \A u \in Sessions : \A i \in DOMAIN gates[u] :
          i \in DOMAIN gates'[u] /\ gates'[u][i] = gates[u][i]
    BY <2>4, <2>6
  <2>8. /\ stage' = [stage EXCEPT ![t] = "idle"] /\ req' = [req EXCEPT ![t] = None]
    BY <1>1 DEF End, Goto
  <2>9. ASSUME NEW u \in Threads PROVE ThreadInv(u)'
    <3>1. ThreadInv(u) BY DEF IInv
    <3>2. CASE u = t
      <4>1. stage'[t] = "idle" /\ req'[t] = None BY <2>8 DEF IInv
      <4>2. spender' # t BY <1>1, <3>1, <3>2 DEF ThreadInv, Scanning
      <4> QED BY <3>2, <4>1, <4>2 DEF ThreadInv, Scanning
    <3>3. CASE u # t
      <4>1. stage'[u] = stage[u] /\ req'[u] = req[u] BY <2>8, <3>3 DEF IInv
      <4>2. CASE stage[u] = "idle" BY <1>1, <3>1, <4>1, <4>2, IdleKeep
      <4>3. CASE stage[u] # "idle"
        <5>1. req[u] \in Req /\ S(u) \in Sessions BY <3>1, <4>3 DEF ThreadInv, Req, S
        <5>2. Len(gates'[S(u)]) \in Nat
          <6>1. gates'[S(u)] \in Seq(Gate) BY <2>6, <5>1 DEF GatesOK
          <6> QED BY <6>1
        <5>3. GatesOK BY DEF IInv
        <5> QED BY <1>1, <2>6, <2>7, <3>1, <4>1, <4>3, <5>1, <5>2, <5>3, BusyKeep
      <4> QED BY <4>2, <4>3
    <3> QED BY <3>2, <3>3
  <2>10. /\ alive' \subseteq Sessions /\ consumed' \subseteq GateIds
         /\ stage' = [u \in Threads |-> stage'[u]] /\ DOMAIN req' = Threads /\ Accounts'
    BY <1>1, <2>8 DEF IInv, Accounts
  <2> QED BY <2>6, <2>9, <2>10 DEF IInv
<1> QED BY <1>2, <1>3

-----------------------------------------------------------------------------
LEMMA NextIInv == IInv /\ [Next]_vars => IInv'
<1> SUFFICES ASSUME IInv, [Next]_vars PROVE IInv' OBVIOUS
<1>1. ASSUME NEW s \in Sessions, Client(s) PROVE IInv'
  BY <1>1, DeleteSessionKeeps, CreateGateKeeps, ResolveGateKeeps DEF Client
<1>2. ASSUME NEW t \in Threads, NEW s \in Sessions, NEW kind \in DOMAIN Past, Request(t, s, kind)
      PROVE  IInv'
  BY <1>2, RequestKeeps
<1>3. ASSUME NEW t \in Threads, Step(t) PROVE IInv'
  BY <1>3, AssertKeeps, EstimateKeeps, EndsKeep, LookKeeps, NoneFoundKeeps, ScanKeeps, SpendKeeps,
     AskKeeps DEF Step
<1>4. CASE UNCHANGED vars
  BY <1>4 DEF vars, IInv, GatesOK, Accounts, ThreadInv, Ahead, IsApproval, OpenGates, GateSet, S
<1> QED BY <1>1, <1>2, <1>3, <1>4 DEF Next

THEOREM Inductive == Spec => []IInv
<1>1. Init => IInv BY InitIInv
<1>2. IInv /\ [Next]_vars => IInv' BY NextIInv
<1> QED BY <1>1, <1>2, PTL DEF Spec

\* The types of the state, that a session has one gate of an id, whatever ids its
\* clients send and other sessions have (session.py:770-775), and that a thread
\* iterates the gates of its session with the lock in its hand
\* (budget_gate.py:32-41).
THEOREM TypeCorrect == Spec => []TypeOK
<1>1. IInv => TypeOK
  <2> SUFFICES ASSUME IInv PROVE TypeOK OBVIOUS
  <2>1. stage \in [Threads -> {"idle", "execute", "compile", "emit", "estimate", "look", "scan",
                               "spend", "ask", "run"}]
    <3>1. \A t \in Threads : stage[t] \in {"idle", "execute", "compile", "emit", "estimate", "look",
                                           "scan", "spend", "ask", "run"}
      BY DEF IInv, ThreadInv
    <3>2. stage = [t \in Threads |-> stage[t]] BY DEF IInv
    <3> QED BY <3>1, <3>2
  <2>2. DOMAIN started = GateIds BY DEF IInv, Accounts
  <2> QED BY <2>1, <2>2 DEF IInv, TypeOK, GatesOK, ThreadInv
<1> QED BY <1>1, Inductive, PTL

\* An approval pays for one run, whatever the number of requests that look for
\* one at a time (budget_gate.py:32-41).
THEOREM ApprovalPaidOnce == Spec => []ApprovalPaysOnce
<1>1. IInv => ApprovalPaysOnce BY DEF IInv, Accounts, ApprovalPaysOnce
<1> QED BY <1>1, Inductive, PTL

\* A gate that was open when a run or a compile was asked for, and still is,
\* stops it (session.py:819-835, service.py:1056, 1080).
THEOREM StandingBlock == Spec => []StandingGatesBlock
<1>1. IInv => StandingGatesBlock BY DEF IInv, ThreadInv, StandingGatesBlock, Busy
<1> QED BY <1>1, Inductive, PTL

\* A request asks for a new approval only if it has found none of those that
\* were there as it began to look (budget_gate.py:32-42, 97-121).
THEOREM Honoured == Spec => []ApprovalIsHonoured
<1>1. IInv => ApprovalIsHonoured BY DEF IInv, ThreadInv, ApprovalIsHonoured
<1> QED BY <1>1, Inductive, PTL

=============================================================================
