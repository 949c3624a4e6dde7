-------------------------- MODULE SharedDocumentProofs --------------------------
(***************************************************************************)
(* The store with its lock opened keeps the promise of VersionedDocument,  *)
(* for every number of threads and writes, and whichever of them read the  *)
(* graph and its version in two steps.                                     *)
(***************************************************************************)
EXTENDS SharedDocument, TLAPS

\* The mapped version.
Num == IF \E t \in Threads : pc[t] = "bump" THEN version + 1 ELSE version

\* No thread is inside the lock at first.
LEMMA InitTypeOK == Init => TypeOK
  BY ThreadAssumption DEF Init, TypeOK, Locked

\* A thread enters the lock when it is free and leaves it by every path.
LEMMA NextTypeOK == TypeOK /\ [Next]_vars => TypeOK'
<1> SUFFICES ASSUME TypeOK, [Next]_vars PROVE TypeOK'
  OBVIOUS
<1> USE ThreadAssumption DEF TypeOK, Goto, Locked
<1>1. CASE UNCHANGED vars BY <1>1 DEF vars
<1>2. CASE Hear BY <1>2 DEF Hear
<1>3. ASSUME NEW t \in Threads, Begin(t) PROVE TypeOK'
  <2>1. CASE op' = [op EXCEPT ![t] = "edit"] /\ pc' = [pc EXCEPT ![t] = "lookup"]
    BY <1>3, <2>1 DEF Begin
  <2>2. CASE op' = [op EXCEPT ![t] = "revert"] /\ pc' = [pc EXCEPT ![t] = "request"]
    BY <1>3, <2>2 DEF Begin
  <2> QED BY <1>3, <2>1, <2>2 DEF Begin
<1>4. ASSUME NEW t \in Threads, Lookup(t) PROVE TypeOK'
  <2>1. pc' \in {[pc EXCEPT ![t] = "dump"], [pc EXCEPT ![t] = "loadGraph"]}
    BY <1>4 DEF Lookup
  <2> QED BY <1>4, <2>1 DEF Lookup
<1>5. ASSUME NEW t \in Threads, Dump(t) PROVE TypeOK' BY <1>5 DEF Dump
<1>6. ASSUME NEW t \in Threads, LoadGraph(t) PROVE TypeOK' BY <1>6 DEF LoadGraph
<1>7. ASSUME NEW t \in Threads, LoadVersion(t) PROVE TypeOK' BY <1>7 DEF LoadVersion
<1>8. ASSUME NEW t \in Threads, Acquire(t) PROVE TypeOK' BY <1>8 DEF Acquire
<1>9. ASSUME NEW t \in Threads, Check(t) PROVE TypeOK'
  <2>1. CASE IsCurrent(t)
    <3>1. pc' = [pc EXCEPT ![t] = "setGraph"] /\ UNCHANGED lock /\ pc[t] = "check"
      BY <1>9, <2>1 DEF Check
    <3> QED BY <1>9, <3>1 DEF Check
  <2>2. CASE ~IsCurrent(t)
    <3>1. pc' = [pc EXCEPT ![t] = "idle"] /\ lock' = NoThread /\ pc[t] = "check"
      BY <1>9, <2>2 DEF Check
    <3> QED BY <1>9, <3>1 DEF Check
  <2> QED BY <2>1, <2>2
<1>10. ASSUME NEW t \in Threads, SetGraph(t) PROVE TypeOK' BY <1>10 DEF SetGraph
<1>11. ASSUME NEW t \in Threads, Bump(t) PROVE TypeOK' BY <1>11 DEF Bump
<1>12. ASSUME NEW t \in Threads, PublishAndRelease(t) PROVE TypeOK'
  BY <1>12 DEF PublishAndRelease
<1> QED BY <1>1, <1>2, <1>3, <1>4, <1>5, <1>6, <1>7, <1>8, <1>9, <1>10, <1>11, <1>12
        DEF Next, Step

\* The lock is held exactly by the thread inside it, so by one at most.
THEOREM TypeCorrect == Spec => []TypeOK
  BY InitTypeOK, NextTypeOK, PTL DEF Spec

\* What makes the version a witness of the graph: outside of the two statements
\* of a write they agree, a GET never pairs a version with an older graph, and
\* a write that passed the check stays current while it holds the lock.
Agreement ==
  /\ rev = Num
  /\ \A t \in Threads :
       /\ pc[t] \in {"loadGraph", "loadVersion"} => t \in Tools
       /\ pc[t] \in {"lookup", "dump", "loadGraph", "loadVersion"} => op[t] # "revert"
       /\ got[t].rev <= rev /\ got[t].version <= version
       /\ t \notin Tools => got[t].version <= got[t].rev
       /\ pc[t] = "setGraph" /\ op[t] # "revert" => got[t].version = version

\* The graph in place has the number of the version, and between its writing and
\* the bump, when only the thread inside the lock can be, the next one.
LEMMA NumBetween ==
  ASSUME TypeOK
  PROVE  /\ Num \in {version, version + 1}
         /\ \A t \in Threads : /\ pc[t] = "bump" => Num = version + 1
                               /\ pc[t] \in {"check", "setGraph", "publish"} => Num = version
         /\ lock = NoThread => Num = version
  BY ThreadAssumption DEF TypeOK, Num, Locked

\* What threads have read stays behind what is written, statement by statement.
LEMMA NextAgreement == TypeOK /\ Agreement /\ [Next]_vars => Agreement'
<1> SUFFICES ASSUME TypeOK, Agreement, [Next]_vars PROVE Agreement'
  OBVIOUS
<1>1. TypeOK' BY NextTypeOK
<1>2. ASSUME rev' = rev, version' = version, got' = got,
             \A t \in Threads : (pc[t] = "bump") <=> (pc'[t] = "bump"),
             \A t \in Threads :
               /\ pc'[t] \in {"loadGraph", "loadVersion"} => t \in Tools
               /\ pc'[t] \in {"lookup", "dump", "loadGraph", "loadVersion"} => op'[t] # "revert"
               /\ pc'[t] = "setGraph" /\ op'[t] # "revert" => got[t].version = version
      PROVE  Agreement'
  <2>1. (rev = Num)'
    BY <1>2 DEF Num, Agreement
  <2>2. ASSUME NEW t \in Threads
        PROVE  /\ (pc[t] \in {"loadGraph", "loadVersion"} => t \in Tools)'
               /\ (pc[t] \in {"lookup", "dump", "loadGraph", "loadVersion"} => op[t] # "revert")'
               /\ (got[t].rev <= rev /\ got[t].version <= version)'
               /\ (t \notin Tools => got[t].version <= got[t].rev)'
               /\ (pc[t] = "setGraph" /\ op[t] # "revert" => got[t].version = version)'
    <3>1. /\ got[t].rev <= rev /\ got[t].version <= version
          /\ t \notin Tools => got[t].version <= got[t].rev
      BY DEF Agreement
    <3>2. (pc[t] = "setGraph" /\ op[t] # "revert" => got[t].version = version)'
      BY <1>2
    <3> QED BY <1>2, <3>1, <3>2
  <2> QED BY <1>2, <2>1, <2>2 DEF Agreement
<1> USE DEF TypeOK, Goto
<1>3. CASE UNCHANGED vars \/ Hear
  <2>1. UNCHANGED <<rev, version, pc, op, got>>
    BY <1>3 DEF Hear, vars
  <2>2. Num' = Num
    BY <2>1 DEF Num
  <2> QED BY <2>1, <2>2 DEF Agreement
<1>4. ASSUME NEW t \in Threads, Begin(t) PROVE Agreement'
  <2>1. \A k \in Threads : k # t => pc'[k] = pc[k] /\ op'[k] = op[k]
    BY <1>4 DEF Begin
  <2>2. /\ pc[t] = "idle"
        /\ \/ pc'[t] = "lookup" /\ op'[t] = "edit"
           \/ pc'[t] = "request" /\ op'[t] = "revert"
    BY <1>4 DEF Begin
  <2> QED BY <1>2, <1>4, <2>1, <2>2 DEF Begin, Agreement
<1>5. ASSUME NEW t \in Threads, Lookup(t) PROVE Agreement'
  <2>1. CASE t \in Tools BY <1>2, <1>5, <2>1 DEF Lookup, Agreement
  <2>2. CASE t \notin Tools BY <1>2, <1>5, <2>2 DEF Lookup, Agreement
  <2> QED BY <2>1, <2>2
<1>6. ASSUME NEW t \in Threads, Dump(t) PROVE Agreement'
  <2>1. Num' = Num /\ version <= Num
    BY <1>6, NumBetween DEF Dump, Num
  <2> QED BY <1>6, <2>1 DEF Dump, Agreement
<1>7. ASSUME NEW t \in Threads, LoadGraph(t) \/ LoadVersion(t) PROVE Agreement'
  <2>1. Num' = Num
    BY <1>7 DEF LoadGraph, LoadVersion, Num
  <2>2. t \in Tools
    BY <1>7 DEF LoadGraph, LoadVersion, Agreement
  <2>3. CASE LoadGraph(t)
    BY <2>1, <2>2, <2>3 DEF LoadGraph, Agreement
  <2>4. CASE LoadVersion(t)
    BY <2>1, <2>2, <2>4 DEF LoadVersion, Agreement
  <2> QED BY <1>7, <2>3, <2>4
<1>8. ASSUME NEW t \in Threads, Acquire(t) PROVE Agreement'
  BY <1>2, <1>8 DEF Acquire, Agreement
<1>9. ASSUME NEW t \in Threads, Check(t) PROVE Agreement'
  BY <1>2, <1>9 DEF Check, IsCurrent, Agreement
<1>10. ASSUME NEW t \in Threads, SetGraph(t) PROVE Agreement'
  <2>1. pc'[t] = "bump" /\ \A k \in Threads \ {t} : pc'[k] = pc[k]
    BY <1>10 DEF SetGraph
  <2>2. Num = version /\ Num' = version + 1
    BY <1>10, <2>1, NumBetween DEF SetGraph, Num
  <2> QED BY <1>10, <2>1, <2>2 DEF SetGraph, Agreement
<1>11. ASSUME NEW t \in Threads, Bump(t) PROVE Agreement'
  <2>1. /\ pc'[t] = "publish"
        /\ \A k \in Threads \ {t} : pc'[k] = pc[k] /\ pc[k] \notin Locked
    BY <1>11, ThreadAssumption DEF Bump, Locked
  <2>2. Num = version + 1 /\ Num' = version + 1
    BY <1>11, <2>1, NumBetween DEF Bump, Num, Locked
  <2> QED BY <1>11, <2>1, <2>2 DEF Bump, Agreement, Locked
<1>12. ASSUME NEW t \in Threads, PublishAndRelease(t) PROVE Agreement'
  BY <1>2, <1>12 DEF PublishAndRelease, Agreement
<1> QED BY <1>3, <1>4, <1>5, <1>6, <1>7, <1>8, <1>9, <1>10, <1>11, <1>12 DEF Next, Step

\* Nobody has read anything yet.
LEMMA InitAgreement == Init => Agreement
<1> SUFFICES ASSUME Init PROVE Agreement
  OBVIOUS
<1>1. Num = 0
  BY DEF Init, Num
<1> QED BY <1>1 DEF Init, Agreement

\* The clients whose restoration is still to come.
Restoring == {t \in Threads : op[t] = "revert" /\ pc[t] \in {"request", "check", "setGraph"}}

\* A step of the code is a step of the document or leaves it as it is: SetGraph
\* is the moment a write takes place.
LEMMA StepRefines ==
  TypeOK /\ Agreement /\ [Next]_vars => [Document!Next]_(Document!vars)
<1> SUFFICES ASSUME TypeOK, Agreement, [Next]_vars
             PROVE  Document!Next \/ UNCHANGED <<rev, Num, got, Restoring>>
  BY DEF Document!vars, Num, Restoring
<1>1. TypeOK' BY NextTypeOK
<1> USE DEF TypeOK, Goto
<1>2. ASSUME UNCHANGED <<rev, version, got>>,
             \A t \in Threads : (pc[t] = "bump") <=> (pc'[t] = "bump"),
             \A t \in Threads : t \in Restoring <=> (t \in Restoring)'
      PROVE  UNCHANGED <<rev, Num, got, Restoring>>
  BY <1>2 DEF Num, Restoring
<1>3. CASE UNCHANGED vars \/ Hear
  BY <1>3 DEF Hear, vars, Num, Restoring
<1>4. ASSUME NEW t \in Threads, Begin(t)
      PROVE  Document!AskToRestore(t) \/ UNCHANGED <<rev, Num, got, Restoring>>
  <2>1. UNCHANGED <<rev, Num, got>>
    BY <1>4 DEF Begin, Num
  <2>2. CASE op' = [op EXCEPT ![t] = "revert"] /\ pc' = [pc EXCEPT ![t] = "request"]
    <3>1. Restoring' = Restoring \cup {t}
      BY <1>4, <2>2 DEF Begin, Restoring
    <3> QED BY <2>1, <3>1 DEF Document!AskToRestore, Num, Restoring
  <2>3. CASE op' = [op EXCEPT ![t] = "edit"] /\ pc' = [pc EXCEPT ![t] = "lookup"]
    <3>1. Restoring' = Restoring
      BY <1>4, <2>3 DEF Begin, Restoring
    <3> QED BY <2>1, <3>1
  <2> QED BY <1>4, <2>2, <2>3 DEF Begin
<1>5. ASSUME NEW t \in Threads, Lookup(t) PROVE UNCHANGED <<rev, Num, got, Restoring>>
  BY <1>2, <1>5 DEF Lookup, Restoring
<1>6. ASSUME NEW t \in Threads, Dump(t)
      PROVE  Document!Read(t)
  <2>1. pc[t] = "dump" /\ pc' = [pc EXCEPT ![t] = "request"] /\ op[t] # "revert" /\ UNCHANGED op
    BY <1>6 DEF Dump, Agreement
  <2>2. Restoring' = Restoring
    BY <2>1 DEF Restoring
  <2>3. Num' = Num /\ version \in 0..Num
    BY <1>6, <2>1, NumBetween DEF Dump, Num
  <2>4. got' = [got EXCEPT ![t] = [rev |-> rev, version |-> version]] /\ UNCHANGED rev
    BY <1>6 DEF Dump
  <2> QED BY <2>2, <2>3, <2>4 DEF Document!Read, Num, Restoring
<1>7. ASSUME NEW t \in Threads, LoadGraph(t) \/ LoadVersion(t)
      PROVE  Document!ReadApart(t)
  <2>1. t \in Tools /\ op[t] # "revert" /\ UNCHANGED <<rev, op>>
    BY <1>7 DEF LoadGraph, LoadVersion, Agreement
  <2>2. Num' = Num /\ Restoring' = Restoring
    BY <1>7, <2>1 DEF LoadGraph, LoadVersion, Num, Restoring
  <2>3. \E r \in 0..rev, v \in 0..Num : got' = [got EXCEPT ![t] = [rev |-> r, version |-> v]]
    <3>1. 0 <= got[t].rev /\ got[t].rev <= rev /\ got[t].version <= version /\ version <= Num
      BY NumBetween DEF Agreement
    <3>2. CASE LoadGraph(t)
      <4>1. [got[t] EXCEPT !.rev = rev] = [rev |-> rev, version |-> got[t].version]
        BY <2>1
      <4>2. got' = [got EXCEPT ![t] = [rev |-> rev, version |-> got[t].version]]
        BY <3>2, <4>1 DEF LoadGraph
      <4>3. rev \in 0..rev /\ got[t].version \in 0..Num
        BY <3>1, NumBetween
      <4> QED BY <4>2, <4>3
    <3>3. CASE LoadVersion(t)
      <4>1. [got[t] EXCEPT !.version = version] = [rev |-> got[t].rev, version |-> version]
        BY <2>1
      <4>2. got' = [got EXCEPT ![t] = [rev |-> got[t].rev, version |-> version]]
        BY <3>3, <4>1 DEF LoadVersion
      <4>3. got[t].rev \in 0..rev /\ version \in 0..Num
        BY <3>1, NumBetween
      <4> QED BY <4>2, <4>3
    <3> QED BY <1>7, <3>2, <3>3
  <2> QED BY <2>1, <2>2, <2>3 DEF Document!ReadApart, Num, Restoring
<1>8. ASSUME NEW t \in Threads, Acquire(t) PROVE UNCHANGED <<rev, Num, got, Restoring>>
  BY <1>2, <1>8 DEF Acquire, Restoring
<1>9. ASSUME NEW t \in Threads, Check(t) PROVE UNCHANGED <<rev, Num, got, Restoring>>
  BY <1>2, <1>9 DEF Check, IsCurrent, Restoring
<1>10. ASSUME NEW t \in Threads, SetGraph(t) PROVE Document!Write(t) \/ Document!Restore(t)
  <2>1. pc[t] = "setGraph" /\ pc' = [pc EXCEPT ![t] = "bump"] /\ UNCHANGED op
    BY <1>10 DEF SetGraph
  <2>2. Num = version /\ Num' = version + 1
    BY <1>10, <2>1, NumBetween DEF SetGraph, Num
  <2>3. CASE op[t] = "revert"
    <3>1. t \in Restoring /\ Restoring' = Restoring \ {t}
      BY <2>1, <2>3 DEF Restoring
    <3>2. Document!Replace
      BY <1>10, <2>2 DEF SetGraph, Document!Replace, Num
    <3> QED BY <3>1, <3>2 DEF Document!Restore, Restoring
  <2>4. CASE op[t] # "revert"
    <3>1. t \notin Restoring /\ Restoring' = Restoring
      BY <2>1, <2>4 DEF Restoring
    <3>2. got[t].version = Num /\ (got[t].rev = rev \/ t \in Tools)
      BY <2>1, <2>2, <2>4 DEF Agreement
    <3>3. Document!Replace
      BY <1>10, <2>2 DEF SetGraph, Document!Replace, Num
    <3> QED BY <3>1, <3>2, <3>3 DEF Document!Write, Num, Restoring
  <2> QED BY <2>3, <2>4
<1>11. ASSUME NEW t \in Threads, Bump(t) PROVE UNCHANGED <<rev, Num, got, Restoring>>
  <2>1. /\ pc[t] = "bump" /\ pc' = [pc EXCEPT ![t] = "publish"]
        /\ \A k \in Threads \ {t} : pc'[k] = pc[k] /\ pc[k] \notin Locked
    BY <1>11, ThreadAssumption DEF Bump, Locked
  <2>2. Num = version + 1 /\ Num' = version + 1
    BY <1>11, <2>1, NumBetween DEF Bump, Num, Locked
  <2> QED BY <1>11, <2>1, <2>2 DEF Bump, Restoring
<1>12. ASSUME NEW t \in Threads, PublishAndRelease(t)
       PROVE  UNCHANGED <<rev, Num, got, Restoring>>
  BY <1>2, <1>12 DEF PublishAndRelease, Restoring
<1> QED BY <1>3, <1>4, <1>5, <1>6, <1>7, <1>8, <1>9, <1>10, <1>11, <1>12
        DEF Next, Step, Document!Next

\* The store is the document it promises to be (VersionedDocument): the write
\* of a client that read with one GET replaces exactly what that client read.
THEOREM RefinesDocument == Spec => ImplementsDocument
<1>1. Init => Document!Init
  BY DEF Init, Document!Init
<1>2. TypeOK /\ Agreement /\ [Next]_vars => TypeOK' /\ Agreement'
  BY NextTypeOK, NextAgreement
<1> QED BY InitTypeOK, InitAgreement, StepRefines, <1>1, <1>2, PTL
        DEF Spec, ImplementsDocument, Document!Spec

\* And no conditional write replaces a graph it was not computed from: the
\* run that finds one needs a client that reads in two steps.
THEOREM StaleOnlyThroughTools ==
  ASSUME Tools = {}
  PROVE  Spec => []NeverSilentlyStale
<1>1. TypeOK /\ Agreement => NeverSilentlyStale
  <2> SUFFICES ASSUME TypeOK, Agreement, NEW t \in Threads, pc[t] = "setGraph", op[t] = "edit"
               PROVE  got[t].rev = rev
    BY DEF NeverSilentlyStale
  <2>1. got[t].version = version /\ rev = version
    BY NumBetween DEF Agreement
  <2>2. got[t].version <= got[t].rev /\ got[t].rev <= rev
    BY DEF Agreement
  <2>3. got[t].rev \in Nat /\ rev \in Nat
    BY DEF TypeOK
  <2> QED BY <2>1, <2>2, <2>3
<1>2. TypeOK /\ Agreement /\ [Next]_vars => TypeOK' /\ Agreement'
  BY NextTypeOK, NextAgreement
<1> QED BY InitTypeOK, InitAgreement, <1>1, <1>2, PTL DEF Spec

-----------------------------------------------------------------------------
\* While the thread in the lock has a version to tell of, nobody knows of it.
Untold == /\ EventsReadBack
          /\ \A t \in Threads : pc[t] = "publish" => \A i \in DOMAIN events : events[i] < version

LEMMA NextUntold == TypeOK /\ Untold /\ [Next]_vars => Untold'
<1> SUFFICES ASSUME TypeOK, Untold, [Next]_vars PROVE Untold'
  OBVIOUS
<1>1. /\ events \in Seq(Nat) /\ heard \in Nat /\ version \in Nat
      /\ \A i \in DOMAIN events : events[i] \in Nat
  BY DEF TypeOK
<1>2. ASSUME UNCHANGED <<version, events, heard>>,
             \A t \in Threads : pc'[t] = "publish" => pc[t] = "publish"
      PROVE  Untold'
  BY <1>2 DEF Untold, EventsReadBack
<1>3. CASE UNCHANGED vars BY <1>2, <1>3 DEF vars
<1>4. CASE Hear
  <2>1. /\ events # <<>> /\ heard' = Head(events) /\ events' = Tail(events)
        /\ UNCHANGED <<version, pc>>
    BY <1>4 DEF Hear
  <2>2. /\ 1 \in DOMAIN events /\ heard' = events[1]
        /\ \A i \in DOMAIN events' : i + 1 \in DOMAIN events /\ events'[i] = events[i + 1] /\ i \in Nat
    BY <1>1, <2>1
  <2>3. /\ heard' <= version' /\ \A i \in DOMAIN events' : events'[i] <= version'
        /\ \A i, j \in DOMAIN events' : i < j => events'[i] < events'[j]
    BY <2>1, <2>2 DEF Untold, EventsReadBack
  <2>4. \A t \in Threads : pc'[t] = "publish" => \A i \in DOMAIN events' : events'[i] < version'
    BY <2>1, <2>2 DEF Untold
  <2> QED BY <2>3, <2>4 DEF Untold, EventsReadBack
<1>5. ASSUME NEW t \in Threads, Bump(t) PROVE Untold'
  <2>1. version' = version + 1 /\ UNCHANGED <<events, heard>> BY <1>5 DEF Bump
  <2> QED BY <1>1, <2>1 DEF Untold, EventsReadBack
<1>6. ASSUME NEW t \in Threads, PublishAndRelease(t) PROVE Untold'
  <2>1. /\ pc[t] = "publish" /\ events' = Append(events, version) /\ UNCHANGED <<version, heard>>
        /\ pc' = [pc EXCEPT ![t] = "idle"]
    BY <1>6 DEF PublishAndRelease, Goto
  <2>2. \A i \in DOMAIN events : events[i] < version BY <2>1 DEF Untold
  <2>3. \A i \in DOMAIN events' : IF i \in DOMAIN events THEN events'[i] = events[i]
                                  ELSE i = Len(events) + 1 /\ events'[i] = version
    BY <1>1, <2>1
  <2>4. \A i \in DOMAIN events' : events'[i] <= version' BY <1>1, <2>1, <2>2, <2>3
  <2>5. ASSUME NEW i \in DOMAIN events', NEW j \in DOMAIN events', i < j
        PROVE  events'[i] < events'[j]
    <3>1. i \in DOMAIN events BY <1>1, <2>1, <2>5
    <3> QED BY <1>1, <2>2, <2>3, <2>5, <3>1 DEF Untold, EventsReadBack
  \* No other thread is in the lock.
  <2>6. \A u \in Threads : pc'[u] # "publish"
    BY <2>1 DEF TypeOK, Locked
  <2> QED BY <2>1, <2>4, <2>5, <2>6 DEF Untold, EventsReadBack
<1>7. ASSUME NEW t \in Threads,
             \/ Begin(t) \/ Lookup(t) \/ Dump(t) \/ LoadGraph(t) \/ LoadVersion(t)
             \/ Acquire(t) \/ Check(t) \/ SetGraph(t)
      PROVE  Untold'
  <2>1. \E l \in {"lookup", "request", "dump", "loadGraph", "loadVersion", "check", "setGraph",
                  "idle", "bump"} : pc' = [pc EXCEPT ![t] = l]
    BY <1>7 DEF Begin, Lookup, Dump, LoadGraph, LoadVersion, Acquire, Check, SetGraph, Goto
  <2>2. UNCHANGED <<version, events, heard>>
    BY <1>7 DEF Begin, Lookup, Dump, LoadGraph, LoadVersion, Acquire, Check, SetGraph
  <2>3. \A u \in Threads : pc'[u] = "publish" => pc[u] = "publish" BY <2>1 DEF TypeOK
  <2> QED BY <1>2, <2>2, <2>3
<1> QED BY <1>3, <1>4, <1>5, <1>6, <1>7 DEF Next, Step

\* A watcher that hears of a version can read it back, and hears of versions in
\* their order, however many threads write (session.py:267-270).
THEOREM ReadBack == Spec => []EventsReadBack
<1>1. Init => Untold BY DEF Init, Untold, EventsReadBack
<1>2. Untold => EventsReadBack BY DEF Untold
<1> QED BY <1>1, <1>2, NextUntold, TypeCorrect, PTL DEF Spec

=============================================================================
