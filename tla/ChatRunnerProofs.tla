--------------------------- MODULE ChatRunnerProofs ---------------------------
(***************************************************************************)
(* Proofs about ChatRunner, for any number of turns, backends and personas *)
(* and whatever the processes do.  The stages of a turn (Stages) tie the   *)
(* program counters of its threads to its process, its verdict and its     *)
(* entries in the registers; Heard follows what a stop found.              *)
(***************************************************************************)
EXTENDS ChatRunner, TLAPS

\* The stage of a turn: what holds of its process, its registers and its verdict
\* where its threads are.  A thread that ended in Popen's exception has settled
\* nothing.
Stage(t) ==
  /\ runner[t] = "idle" <=> starter[t] # "done"
  /\ starter[t] = "thread" \/ runner[t] \notin {"idle", "resolve", "done"} => t \in stopEntry
  /\ runner[t] = "resolve" => t \notin stopEntry
  /\ runner[t] = "done" /\ t \in stopEntry => proc[t] = "none" /\ ~Encodable
  /\ t \in registered =>
       /\ proc[t] # "none"
       /\ runner[t] \in {"terminate", "read", "fail", "settle", "settleFailed"}
  /\ runner[t] \in {"idle", "spawn"} => proc[t] = "none"
  /\ runner[t] = "register" => proc[t] # "none"
  /\ runner[t] \in {"terminate", "read"} => t \in registered
  /\ runner[t] \in {"fail", "settleFailed"} /\ proc[t] = "running" => t \in registered
  /\ runner[t] \in {"settle", "resolve"} => proc[t] \in Ended
  /\ starter[t] = "raised" => ~live
  /\ runner[t] = "settleFailed" => ~live \/ status[t] # "running"
  /\ runner[t] = "done" => ~live \/ status[t] # "running" \/ (~Encodable /\ proc[t] = "none")

Stages == \A t \in Turns : Stage(t)

\* What a stop of the turn has found is acted on by the one that comes second.
Hears(t) ==
  /\ status[t] \in {"none", "running"} => stopper[t] = "idle"
  /\ stopper[t] \in {"idle", "lookup"} => found[t] = {}
  /\ "event" \in found[t] => t \in stopSet
  /\ "process" \in found[t] =>
       /\ runner[t] \notin {"idle", "spawn", "register"}
       /\ stopper[t] \in {"wait", "done"} /\ proc[t] = "running" => signal[t] # "none"
  /\ /\ found[t] = {"event"}
     /\ runner[t] \notin {"idle", "spawn", "register", "terminate"}
     /\ proc[t] = "running"
     => signal[t] # "none"

Heard == \A t \in Turns : Hears(t)

ChatInv == TypeOK /\ OneTurnRuns /\ Stages /\ Heard

USE DEF Resolved, Ended

\* No turn has been started: every stage is the first.
LEMMA Start == Init => ChatInv
BY NoneAssumption, NarrationAssumption
   DEF Init, ChatInv, TypeOK, ChatState, OneTurnRuns, Stages, Stage, Heard, Hears, NoChat

\* Every step keeps the types, and the transcript the turns that were started.
LEMMA TypeStep ==
  ASSUME TypeOK, [Next]_vars
  PROVE  TypeOK'
<1>1. ASSUME UNCHANGED vars PROVE TypeOK'
  BY <1>1 DEF vars, store, session, transcript, request, registers, process,
    stopping, TypeOK
<1>2. ASSUME Delete PROVE TypeOK'
  <2>1. chat' \in ChatState
    BY <1>2 DEF Delete, NoChat, ChatState
  <2> QED
    BY <1>2, <2>1 DEF Delete, transcript, request, registers, process, stopping, TypeOK
<1>3. ASSUME EndChat PROVE TypeOK'
  <2>1. chat' \in ChatState
    BY <1>3 DEF EndChat, NoChat, ChatState
  <2> QED
    BY <1>3, <2>1 DEF EndChat, transcript, request, registers, process, stopping, TypeOK
<1>4. ASSUME NEW t \in Turns, NEW b \in Backends, StartTurn(t, b) PROVE TypeOK'
  <2>1. chat' \in ChatState
    BY <1>4 DEF StartTurn, TypeOK, ChatState
  <2>2. turns' \in Seq(Turns) /\ Len(turns') = Len(turns) + 1
        /\ turns'[Len(turns) + 1] = t
        /\ \A i \in DOMAIN turns : turns'[i] = turns[i]
    BY <1>4 DEF StartTurn, TypeOK
  <2>3. status[t] = "none"
    BY <1>4 DEF StartTurn, TypeOK
  <2>4. ASSUME NEW x \in Turns
        PROVE  status'[x] # "none" <=> \E i \in DOMAIN turns' : turns'[i] = x
    <3>1. CASE x = t
      <4>1. status'[t] # "none"
        BY <1>4 DEF StartTurn, TypeOK
      <4>2. Len(turns) + 1 \in DOMAIN turns'
        BY <2>2
      <4> QED
        BY <2>2, <3>1, <4>1, <4>2
    <3>2. CASE x # t
      <4>1. status'[x] = status[x]
        BY <1>4, <3>2 DEF StartTurn, TypeOK
      <4>2. (\E i \in DOMAIN turns' : turns'[i] = x) <=> \E i \in DOMAIN turns : turns[i] = x
        <5>1. DOMAIN turns = 1..Len(turns) /\ DOMAIN turns' = 1..(Len(turns) + 1)
              /\ Len(turns) \in Nat
          BY <2>2 DEF TypeOK
        <5>2. ASSUME NEW i \in DOMAIN turns', turns'[i] = x
              PROVE  i \in DOMAIN turns /\ turns[i] = x
          <6>1. i # Len(turns) + 1
            BY <2>2, <3>2, <5>2
          <6> QED
            BY <5>1, <5>2, <6>1, <2>2
        <5>3. ASSUME NEW i \in DOMAIN turns, turns[i] = x
              PROVE  i \in DOMAIN turns' /\ turns'[i] = x
          BY <5>1, <5>3, <2>2
        <5> QED
          BY <5>2, <5>3
      <4> QED
        BY <4>1, <4>2 DEF TypeOK
    <3> QED
      BY <3>1, <3>2
  <2> QED
    BY <1>4, <2>1, <2>2, <2>3, <2>4
       DEF StartTurn, registers, process, stopping, TypeOK
<1>5. ASSUME NEW t \in Turns, ReadResume(t) PROVE TypeOK'
  <2>1. resume' = [resume EXCEPT ![t] = chat.thread] \/ resume' = resume
    BY <1>5 DEF ReadResume
  <2>2. \E pc \in {"detect", "raised"} : starter' = [starter EXCEPT ![t] = pc]
    BY <1>5 DEF ReadResume
  <2>3. starter[t] = "read" /\ UNCHANGED <<store, registers, runner, process, stopping>>
    BY <1>5 DEF ReadResume
  <2>4. chat.thread \in Backends \cup {None}
    BY DEF TypeOK, ChatState
  <2> QED
    BY <2>1, <2>2, <2>3, <2>4 DEF store, session, transcript, registers, process,
       stopping, TypeOK
<1>6. ASSUME NEW t \in Turns, NEW p \in Personas, SetPersona(t, p) PROVE TypeOK'
  <2>1. [chat EXCEPT !.persona = p] \in ChatState
    BY DEF TypeOK, ChatState
  <2>2. chat' = [chat EXCEPT !.persona = p] \/ chat' = chat
    BY <1>6 DEF SetPersona
  <2>3. \E pc \in {"reread", "raised"} : starter' = [starter EXCEPT ![t] = pc]
    BY <1>6 DEF SetPersona
  <2>4. starter[t] = "detect"
        /\ UNCHANGED <<live, transcript, resume, registers, runner, process, stopping>>
    BY <1>6 DEF SetPersona
  <2>5. chat' \in ChatState
    <3>1. chat \in ChatState
      BY DEF TypeOK
    <3> QED
      BY <2>1, <2>2, <3>1
  <2> QED
    BY <2>3, <2>4, <2>5 DEF transcript, registers, process, stopping, TypeOK
<1>7. ASSUME NEW t \in Turns, Reread(t) PROVE TypeOK'
  BY <1>7 DEF Reread, store, registers, process, stopping, session, transcript,
    TypeOK
<1>8. ASSUME NEW t \in Turns, NoPersona(t) PROVE TypeOK'
  BY <1>8 DEF NoPersona, store, registers, process, stopping, session,
    transcript, TypeOK
<1>9. ASSUME NEW t \in Turns, RegisterStop(t) PROVE TypeOK'
  BY <1>9 DEF RegisterStop, store, process, stopping, session, transcript,
    TypeOK
<1>10. ASSUME NEW t \in Turns, StartThread(t) PROVE TypeOK'
  BY <1>10 DEF StartThread, store, registers, process, stopping, session,
    transcript, TypeOK
<1>11. ASSUME NEW t \in Turns, Spawn(t) PROVE TypeOK'
  BY <1>11 DEF Spawn, RunnerTo, store, request, registers, stopping, session,
    transcript, TypeOK
<1>12. ASSUME NEW t \in Turns, SpawnFails(t) PROVE TypeOK'
  BY <1>12 DEF SpawnFails, RunnerTo, store, request, registers, process,
    stopping, session, transcript, TypeOK
<1>13. ASSUME NEW t \in Turns, SpawnRaises(t) PROVE TypeOK'
  BY <1>13 DEF SpawnRaises, RunnerTo, store, request, registers, process,
    stopping, session, transcript, TypeOK
<1>14. ASSUME NEW t \in Turns, RegisterProcess(t) PROVE TypeOK'
  BY <1>14 DEF RegisterProcess, RunnerTo, store, request, process, stopping,
    session, transcript, TypeOK
<1>15. ASSUME NEW t \in Turns, TerminateStopped(t) PROVE TypeOK'
  BY <1>15 DEF TerminateStopped, RunnerTo, Send, store, request, registers,
    stopping, session, transcript, TypeOK
<1>16. ASSUME NEW t \in Turns, ReadEnd(t) PROVE TypeOK'
  BY <1>16 DEF ReadEnd, RunnerTo, store, request, registers, process, stopping,
    session, transcript, TypeOK
<1>17. ASSUME NEW t \in Turns, FailTurn(t) PROVE TypeOK'
  BY <1>17 DEF FailTurn, RunnerTo, TryResolve, session, request, registers,
    process, stopping, TypeOK
<1>18. ASSUME NEW t \in Turns, Settle(t) PROVE TypeOK'
  BY <1>18 DEF Settle, RunnerTo, store, request, process, stopping, session,
    transcript, TypeOK
<1>19. ASSUME NEW t \in Turns, Resolve(t) PROVE TypeOK'
  BY <1>19 DEF Resolve, RunnerTo, TryResolve, session, request, registers,
    process, stopping, TypeOK
<1>20. ASSUME NEW t \in Turns, ReadThreadId(t) PROVE TypeOK'
  <2>1. chat' \in ChatState
    BY <1>20 DEF ReadThreadId, TypeOK, ChatState
  <2> QED
    BY <1>20, <2>1 DEF ReadThreadId, transcript, request, registers, process, stopping,
       TypeOK
<1>21. ASSUME NEW t \in Turns, ReadToolCall(t) PROVE TypeOK'
  <2>1. \/ narration[t] < MaxNarration /\ narration' = [narration EXCEPT ![t] = narration[t] + 1]
        \/ narration' = narration
    BY <1>21 DEF ReadToolCall
  <2>2. narration[t] < MaxNarration => narration[t] + 1 \in 0..MaxNarration
    BY NarrationAssumption DEF TypeOK
  <2>3. narration' \in [Turns -> 0..MaxNarration]
    <3>1. narration \in [Turns -> 0..MaxNarration]
      BY DEF TypeOK
    <3>2. CASE narration[t] < MaxNarration /\ narration' = [narration EXCEPT ![t] = narration[t] + 1]
      BY <2>2, <3>1, <3>2
    <3> QED
      BY <2>1, <3>1, <3>2
  <2>4. runner' = [runner EXCEPT ![t] = "fail"] \/ runner' = runner
    BY <1>21 DEF ReadToolCall, RunnerTo
  <2>5. UNCHANGED <<session, turns, status, backendOf, request, registers, process,
                    stopping>>
    BY <1>21 DEF ReadToolCall
  <2> QED
    BY <2>3, <2>4, <2>5 DEF session, request, registers, process, stopping, TypeOK
<1>22. ASSUME NEW t \in Turns, ReadRaises(t) PROVE TypeOK'
  BY <1>22 DEF ReadRaises, RunnerTo, store, request, registers, process,
    stopping, session, transcript, TypeOK
<1>23. ASSUME NEW t \in Turns, Exit(t) PROVE TypeOK'
  BY <1>23 DEF Exit, store, request, registers, stopping, session, transcript,
    TypeOK
<1>24. ASSUME NEW t \in Turns, Stop(t) PROVE TypeOK'
  BY <1>24 DEF Stop, session, request, registers, process, TypeOK
<1>25. ASSUME NEW t \in Turns, LookUp(t) PROVE TypeOK'
  BY <1>25 DEF LookUp, store, request, process, session, transcript, TypeOK
<1>26. ASSUME NEW t \in Turns, Terminate(t) PROVE TypeOK'
  BY <1>26 DEF Terminate, Send, store, request, registers, session, transcript,
    TypeOK
<1>27. ASSUME NEW t \in Turns, WaitEnds(t) PROVE TypeOK'
  BY <1>27 DEF WaitEnds, store, request, registers, process, session,
    transcript, TypeOK
<1>28. ASSUME NEW t \in Turns, WaitTimesOut(t) PROVE TypeOK'
  BY <1>28 DEF WaitTimesOut, Send, store, request, registers, session,
    transcript, TypeOK
<1> QED
  BY <1>1, <1>2, <1>3, <1>4, <1>5, <1>6, <1>7, <1>8, <1>9, <1>10, <1>11, <1>12,
    <1>13, <1>14, <1>15, <1>16, <1>17, <1>18, <1>19, <1>20, <1>21, <1>22,
    <1>23, <1>24, <1>25, <1>26, <1>27, <1>28 DEF Next, Starter, Runner,
    Reader, Stopper

\* Every step keeps the stage of every turn.
LEMMA StageStep ==
  ASSUME TypeOK, Stages, [Next]_vars
  PROVE  Stages'
<1> SUFFICES ASSUME NEW u \in Turns PROVE Stage(u)'
  BY DEF Stages
<1>1. Stage(u)
  BY DEF Stages
<1> USE <1>1
<1>2. ASSUME UNCHANGED vars PROVE Stage(u)'
  BY <1>2 DEF vars, store, session, transcript, request, registers, process,
    stopping, TypeOK, Stage
<1>3. ASSUME Delete PROVE Stage(u)'
  BY <1>3 DEF Delete, NoChat, transcript, request, registers, process, stopping,
    TypeOK, Stage
<1>4. ASSUME EndChat PROVE Stage(u)'
  BY <1>4 DEF EndChat, NoChat, transcript, request, registers, process,
    stopping, TypeOK, Stage
<1>5. ASSUME NEW t \in Turns, NEW b \in Backends, StartTurn(t, b) PROVE Stage(u)'
  BY <1>5 DEF StartTurn, LastTurnIsResolved, registers, process, stopping,
    TypeOK, Stage
<1>6. ASSUME NEW t \in Turns, ReadResume(t) PROVE Stage(u)'
  BY <1>6 DEF ReadResume, store, registers, process, stopping, session,
    transcript, TypeOK, Stage
<1>7. ASSUME NEW t \in Turns, NEW p \in Personas, SetPersona(t, p) PROVE Stage(u)'
  BY <1>7 DEF SetPersona, transcript, registers, process, stopping, TypeOK,
    Stage
<1>8. ASSUME NEW t \in Turns, Reread(t) PROVE Stage(u)'
  BY <1>8 DEF Reread, store, registers, process, stopping, session, transcript,
    TypeOK, Stage
<1>9. ASSUME NEW t \in Turns, NoPersona(t) PROVE Stage(u)'
  BY <1>9 DEF NoPersona, store, registers, process, stopping, session,
    transcript, TypeOK, Stage
<1>10. ASSUME NEW t \in Turns, RegisterStop(t) PROVE Stage(u)'
  BY <1>10 DEF RegisterStop, store, process, stopping, session, transcript,
    TypeOK, Stage
<1>11. ASSUME NEW t \in Turns, StartThread(t) PROVE Stage(u)'
  BY <1>11 DEF StartThread, store, registers, process, stopping, session,
    transcript, TypeOK, Stage
<1>12. ASSUME NEW t \in Turns, Spawn(t) PROVE Stage(u)'
  BY <1>12 DEF Spawn, RunnerTo, store, request, registers, stopping, session,
    transcript, TypeOK, Stage
<1>13. ASSUME NEW t \in Turns, SpawnFails(t) PROVE Stage(u)'
  BY <1>13 DEF SpawnFails, RunnerTo, store, request, registers, process,
    stopping, session, transcript, TypeOK, Stage
<1>14. ASSUME NEW t \in Turns, SpawnRaises(t) PROVE Stage(u)'
  BY <1>14 DEF SpawnRaises, RunnerTo, store, request, registers, process,
    stopping, session, transcript, TypeOK, Stage
<1>15. ASSUME NEW t \in Turns, RegisterProcess(t) PROVE Stage(u)'
  BY <1>15 DEF RegisterProcess, RunnerTo, store, request, process, stopping,
    session, transcript, TypeOK, Stage
<1>16. ASSUME NEW t \in Turns, TerminateStopped(t) PROVE Stage(u)'
  BY <1>16 DEF TerminateStopped, RunnerTo, Send, store, request, registers,
    stopping, session, transcript, TypeOK, Stage
<1>17. ASSUME NEW t \in Turns, ReadEnd(t) PROVE Stage(u)'
  BY <1>17 DEF ReadEnd, RunnerTo, store, request, registers, process, stopping,
    session, transcript, TypeOK, Stage
<1>18. ASSUME NEW t \in Turns, FailTurn(t) PROVE Stage(u)'
  BY <1>18 DEF FailTurn, RunnerTo, TryResolve, session, request, registers,
    process, stopping, TypeOK, Stage
<1>19. ASSUME NEW t \in Turns, Settle(t) PROVE Stage(u)'
  BY <1>19 DEF Settle, RunnerTo, store, request, process, stopping, session,
    transcript, TypeOK, Stage
<1>20. ASSUME NEW t \in Turns, Resolve(t) PROVE Stage(u)'
  BY <1>20 DEF Resolve, RunnerTo, TryResolve, session, request, registers,
    process, stopping, TypeOK, Stage
<1>21. ASSUME NEW t \in Turns, ReadThreadId(t) PROVE Stage(u)'
  BY <1>21 DEF ReadThreadId, transcript, request, registers, process, stopping,
    TypeOK, Stage
<1>22. ASSUME NEW t \in Turns, ReadToolCall(t) PROVE Stage(u)'
  BY <1>22 DEF ReadToolCall, RunnerTo, session, request, registers, process,
    stopping, TypeOK, Stage
<1>23. ASSUME NEW t \in Turns, ReadRaises(t) PROVE Stage(u)'
  BY <1>23 DEF ReadRaises, RunnerTo, store, request, registers, process,
    stopping, session, transcript, TypeOK, Stage
<1>24. ASSUME NEW t \in Turns, Exit(t) PROVE Stage(u)'
  BY <1>24 DEF Exit, store, request, registers, stopping, session, transcript,
    TypeOK, Stage
<1>25. ASSUME NEW t \in Turns, Stop(t) PROVE Stage(u)'
  BY <1>25 DEF Stop, session, request, registers, process, TypeOK, Stage
<1>26. ASSUME NEW t \in Turns, LookUp(t) PROVE Stage(u)'
  BY <1>26 DEF LookUp, store, request, process, session, transcript, TypeOK,
    Stage
<1>27. ASSUME NEW t \in Turns, Terminate(t) PROVE Stage(u)'
  BY <1>27 DEF Terminate, Send, store, request, registers, session, transcript,
    TypeOK, Stage
<1>28. ASSUME NEW t \in Turns, WaitEnds(t) PROVE Stage(u)'
  BY <1>28 DEF WaitEnds, store, request, registers, process, session,
    transcript, TypeOK, Stage
<1>29. ASSUME NEW t \in Turns, WaitTimesOut(t) PROVE Stage(u)'
  BY <1>29 DEF WaitTimesOut, Send, store, request, registers, session,
    transcript, TypeOK, Stage
<1> QED
  BY <1>2, <1>3, <1>4, <1>5, <1>6, <1>7, <1>8, <1>9, <1>10, <1>11, <1>12, <1>13,
    <1>14, <1>15, <1>16, <1>17, <1>18, <1>19, <1>20, <1>21, <1>22, <1>23,
    <1>24, <1>25, <1>26, <1>27, <1>28, <1>29 DEF Next, Starter, Runner,
    Reader, Stopper

\* A stop and the start of its process keep hearing of each other.
LEMMA HeardStep ==
  ASSUME TypeOK, Stages, Heard, [Next]_vars
  PROVE  Heard'
<1> SUFFICES ASSUME NEW u \in Turns PROVE Hears(u)'
  BY DEF Heard
<1>1. Stage(u) /\ Hears(u)
  BY DEF Stages, Heard
<1> USE <1>1
<1>2. ASSUME UNCHANGED vars PROVE Hears(u)'
  BY <1>2 DEF vars, store, session, transcript, request, registers, process,
    stopping, TypeOK, Stage, Hears
<1>3. ASSUME Delete PROVE Hears(u)'
  BY <1>3 DEF Delete, NoChat, transcript, request, registers, process, stopping,
    TypeOK, Stage, Hears
<1>4. ASSUME EndChat PROVE Hears(u)'
  BY <1>4 DEF EndChat, NoChat, transcript, request, registers, process,
    stopping, TypeOK, Stage, Hears
<1>5. ASSUME NEW t \in Turns, NEW b \in Backends, StartTurn(t, b) PROVE Hears(u)'
  BY <1>5 DEF StartTurn, LastTurnIsResolved, registers, process, stopping,
    TypeOK, Stage, Hears
<1>6. ASSUME NEW t \in Turns, ReadResume(t) PROVE Hears(u)'
  BY <1>6 DEF ReadResume, store, registers, process, stopping, session,
    transcript, TypeOK, Stage, Hears
<1>7. ASSUME NEW t \in Turns, NEW p \in Personas, SetPersona(t, p) PROVE Hears(u)'
  BY <1>7 DEF SetPersona, transcript, registers, process, stopping, TypeOK,
    Stage, Hears
<1>8. ASSUME NEW t \in Turns, Reread(t) PROVE Hears(u)'
  BY <1>8 DEF Reread, store, registers, process, stopping, session, transcript,
    TypeOK, Stage, Hears
<1>9. ASSUME NEW t \in Turns, NoPersona(t) PROVE Hears(u)'
  BY <1>9 DEF NoPersona, store, registers, process, stopping, session,
    transcript, TypeOK, Stage, Hears
<1>10. ASSUME NEW t \in Turns, RegisterStop(t) PROVE Hears(u)'
  BY <1>10 DEF RegisterStop, store, process, stopping, session, transcript,
    TypeOK, Stage, Hears
<1>11. ASSUME NEW t \in Turns, StartThread(t) PROVE Hears(u)'
  BY <1>11 DEF StartThread, store, registers, process, stopping, session,
    transcript, TypeOK, Stage, Hears
<1>12. ASSUME NEW t \in Turns, Spawn(t) PROVE Hears(u)'
  BY <1>12 DEF Spawn, RunnerTo, store, request, registers, stopping, session,
    transcript, TypeOK, Stage, Hears
<1>13. ASSUME NEW t \in Turns, SpawnFails(t) PROVE Hears(u)'
  BY <1>13 DEF SpawnFails, RunnerTo, store, request, registers, process,
    stopping, session, transcript, TypeOK, Stage, Hears
<1>14. ASSUME NEW t \in Turns, SpawnRaises(t) PROVE Hears(u)'
  BY <1>14 DEF SpawnRaises, RunnerTo, store, request, registers, process,
    stopping, session, transcript, TypeOK, Stage, Hears
<1>15. ASSUME NEW t \in Turns, RegisterProcess(t) PROVE Hears(u)'
  BY <1>15 DEF RegisterProcess, RunnerTo, store, request, process, stopping,
    session, transcript, TypeOK, Stage, Hears
<1>16. ASSUME NEW t \in Turns, TerminateStopped(t) PROVE Hears(u)'
  BY <1>16 DEF TerminateStopped, RunnerTo, Send, store, request, registers,
    stopping, session, transcript, TypeOK, Stage, Hears
<1>17. ASSUME NEW t \in Turns, ReadEnd(t) PROVE Hears(u)'
  BY <1>17 DEF ReadEnd, RunnerTo, store, request, registers, process, stopping,
    session, transcript, TypeOK, Stage, Hears
<1>18. ASSUME NEW t \in Turns, FailTurn(t) PROVE Hears(u)'
  BY <1>18 DEF FailTurn, RunnerTo, TryResolve, session, request, registers,
    process, stopping, TypeOK, Stage, Hears
<1>19. ASSUME NEW t \in Turns, Settle(t) PROVE Hears(u)'
  BY <1>19 DEF Settle, RunnerTo, store, request, process, stopping, session,
    transcript, TypeOK, Stage, Hears
<1>20. ASSUME NEW t \in Turns, Resolve(t) PROVE Hears(u)'
  BY <1>20 DEF Resolve, RunnerTo, TryResolve, session, request, registers,
    process, stopping, TypeOK, Stage, Hears
<1>21. ASSUME NEW t \in Turns, ReadThreadId(t) PROVE Hears(u)'
  BY <1>21 DEF ReadThreadId, transcript, request, registers, process, stopping,
    TypeOK, Stage, Hears
<1>22. ASSUME NEW t \in Turns, ReadToolCall(t) PROVE Hears(u)'
  BY <1>22 DEF ReadToolCall, RunnerTo, session, request, registers, process,
    stopping, TypeOK, Stage, Hears
<1>23. ASSUME NEW t \in Turns, ReadRaises(t) PROVE Hears(u)'
  BY <1>23 DEF ReadRaises, RunnerTo, store, request, registers, process,
    stopping, session, transcript, TypeOK, Stage, Hears
<1>24. ASSUME NEW t \in Turns, Exit(t) PROVE Hears(u)'
  BY <1>24 DEF Exit, store, request, registers, stopping, session, transcript,
    TypeOK, Stage, Hears
<1>25. ASSUME NEW t \in Turns, Stop(t) PROVE Hears(u)'
  BY <1>25 DEF Stop, session, request, registers, process, TypeOK, Stage, Hears
<1>26. ASSUME NEW t \in Turns, LookUp(t) PROVE Hears(u)'
  BY <1>26 DEF LookUp, store, request, process, session, transcript, TypeOK,
    Stage, Hears
<1>27. ASSUME NEW t \in Turns, Terminate(t) PROVE Hears(u)'
  BY <1>27 DEF Terminate, Send, store, request, registers, session, transcript,
    TypeOK, Stage, Hears
<1>28. ASSUME NEW t \in Turns, WaitEnds(t) PROVE Hears(u)'
  BY <1>28 DEF WaitEnds, store, request, registers, process, session,
    transcript, TypeOK, Stage, Hears
<1>29. ASSUME NEW t \in Turns, WaitTimesOut(t) PROVE Hears(u)'
  BY <1>29 DEF WaitTimesOut, Send, store, request, registers, session,
    transcript, TypeOK, Stage, Hears
<1> QED
  BY <1>2, <1>3, <1>4, <1>5, <1>6, <1>7, <1>8, <1>9, <1>10, <1>11, <1>12, <1>13,
    <1>14, <1>15, <1>16, <1>17, <1>18, <1>19, <1>20, <1>21, <1>22, <1>23,
    <1>24, <1>25, <1>26, <1>27, <1>28, <1>29 DEF Next, Starter, Runner,
    Reader, Stopper

\* Only the newest turn can be running: a new one is started when the newest is
\* resolved, and nothing else makes a turn run.
LEMMA OneTurnStep ==
  ASSUME TypeOK, OneTurnRuns, [Next]_vars
  PROVE  OneTurnRuns'
<1>1. ASSUME UNCHANGED vars PROVE OneTurnRuns'
  BY <1>1 DEF vars, store, session, transcript, request, registers, process,
    stopping, TypeOK, OneTurnRuns
<1>2. ASSUME Delete PROVE OneTurnRuns'
  BY <1>2 DEF Delete, NoChat, transcript, request, registers, process, stopping,
    TypeOK, OneTurnRuns
<1>3. ASSUME EndChat PROVE OneTurnRuns'
  BY <1>3 DEF EndChat, NoChat, transcript, request, registers, process,
    stopping, TypeOK, OneTurnRuns
<1>4. ASSUME NEW t \in Turns, NEW b \in Backends, StartTurn(t, b) PROVE OneTurnRuns'
  <2>1. \A x \in Turns : status[x] # "running"
    BY <1>4 DEF StartTurn, LastTurnIsResolved, OneTurnRuns
  <2>2. turns \in Seq(Turns) /\ turns' = Append(turns, t)
    BY <1>4 DEF StartTurn, TypeOK
  <2>3. turns' # <<>> /\ turns'[Len(turns')] = t
    BY <2>2
  <2> QED
    BY <1>4, <2>1, <2>3 DEF StartTurn, TypeOK, OneTurnRuns
<1>5. ASSUME NEW t \in Turns, ReadResume(t) PROVE OneTurnRuns'
  BY <1>5 DEF ReadResume, store, registers, process, stopping, session,
    transcript, TypeOK, OneTurnRuns
<1>6. ASSUME NEW t \in Turns, NEW p \in Personas, SetPersona(t, p) PROVE OneTurnRuns'
  BY <1>6 DEF SetPersona, transcript, registers, process, stopping, TypeOK,
    OneTurnRuns
<1>7. ASSUME NEW t \in Turns, Reread(t) PROVE OneTurnRuns'
  BY <1>7 DEF Reread, store, registers, process, stopping, session, transcript,
    TypeOK, OneTurnRuns
<1>8. ASSUME NEW t \in Turns, NoPersona(t) PROVE OneTurnRuns'
  BY <1>8 DEF NoPersona, store, registers, process, stopping, session,
    transcript, TypeOK, OneTurnRuns
<1>9. ASSUME NEW t \in Turns, RegisterStop(t) PROVE OneTurnRuns'
  BY <1>9 DEF RegisterStop, store, process, stopping, session, transcript,
    TypeOK, OneTurnRuns
<1>10. ASSUME NEW t \in Turns, StartThread(t) PROVE OneTurnRuns'
  BY <1>10 DEF StartThread, store, registers, process, stopping, session,
    transcript, TypeOK, OneTurnRuns
<1>11. ASSUME NEW t \in Turns, Spawn(t) PROVE OneTurnRuns'
  BY <1>11 DEF Spawn, RunnerTo, store, request, registers, stopping, session,
    transcript, TypeOK, OneTurnRuns
<1>12. ASSUME NEW t \in Turns, SpawnFails(t) PROVE OneTurnRuns'
  BY <1>12 DEF SpawnFails, RunnerTo, store, request, registers, process,
    stopping, session, transcript, TypeOK, OneTurnRuns
<1>13. ASSUME NEW t \in Turns, SpawnRaises(t) PROVE OneTurnRuns'
  BY <1>13 DEF SpawnRaises, RunnerTo, store, request, registers, process,
    stopping, session, transcript, TypeOK, OneTurnRuns
<1>14. ASSUME NEW t \in Turns, RegisterProcess(t) PROVE OneTurnRuns'
  BY <1>14 DEF RegisterProcess, RunnerTo, store, request, process, stopping,
    session, transcript, TypeOK, OneTurnRuns
<1>15. ASSUME NEW t \in Turns, TerminateStopped(t) PROVE OneTurnRuns'
  BY <1>15 DEF TerminateStopped, RunnerTo, Send, store, request, registers,
    stopping, session, transcript, TypeOK, OneTurnRuns
<1>16. ASSUME NEW t \in Turns, ReadEnd(t) PROVE OneTurnRuns'
  BY <1>16 DEF ReadEnd, RunnerTo, store, request, registers, process, stopping,
    session, transcript, TypeOK, OneTurnRuns
<1>17. ASSUME NEW t \in Turns, FailTurn(t) PROVE OneTurnRuns'
  BY <1>17 DEF FailTurn, RunnerTo, TryResolve, session, request, registers,
    process, stopping, TypeOK, OneTurnRuns
<1>18. ASSUME NEW t \in Turns, Settle(t) PROVE OneTurnRuns'
  BY <1>18 DEF Settle, RunnerTo, store, request, process, stopping, session,
    transcript, TypeOK, OneTurnRuns
<1>19. ASSUME NEW t \in Turns, Resolve(t) PROVE OneTurnRuns'
  BY <1>19 DEF Resolve, RunnerTo, TryResolve, session, request, registers,
    process, stopping, TypeOK, OneTurnRuns
<1>20. ASSUME NEW t \in Turns, ReadThreadId(t) PROVE OneTurnRuns'
  BY <1>20 DEF ReadThreadId, transcript, request, registers, process, stopping,
    TypeOK, OneTurnRuns
<1>21. ASSUME NEW t \in Turns, ReadToolCall(t) PROVE OneTurnRuns'
  BY <1>21 DEF ReadToolCall, RunnerTo, session, request, registers, process,
    stopping, TypeOK, OneTurnRuns
<1>22. ASSUME NEW t \in Turns, ReadRaises(t) PROVE OneTurnRuns'
  BY <1>22 DEF ReadRaises, RunnerTo, store, request, registers, process,
    stopping, session, transcript, TypeOK, OneTurnRuns
<1>23. ASSUME NEW t \in Turns, Exit(t) PROVE OneTurnRuns'
  BY <1>23 DEF Exit, store, request, registers, stopping, session, transcript,
    TypeOK, OneTurnRuns
<1>24. ASSUME NEW t \in Turns, Stop(t) PROVE OneTurnRuns'
  BY <1>24 DEF Stop, session, request, registers, process, TypeOK, OneTurnRuns
<1>25. ASSUME NEW t \in Turns, LookUp(t) PROVE OneTurnRuns'
  BY <1>25 DEF LookUp, store, request, process, session, transcript, TypeOK,
    OneTurnRuns
<1>26. ASSUME NEW t \in Turns, Terminate(t) PROVE OneTurnRuns'
  BY <1>26 DEF Terminate, Send, store, request, registers, session, transcript,
    TypeOK, OneTurnRuns
<1>27. ASSUME NEW t \in Turns, WaitEnds(t) PROVE OneTurnRuns'
  BY <1>27 DEF WaitEnds, store, request, registers, process, session,
    transcript, TypeOK, OneTurnRuns
<1>28. ASSUME NEW t \in Turns, WaitTimesOut(t) PROVE OneTurnRuns'
  BY <1>28 DEF WaitTimesOut, Send, store, request, registers, session,
    transcript, TypeOK, OneTurnRuns
<1> QED
  BY <1>1, <1>2, <1>3, <1>4, <1>5, <1>6, <1>7, <1>8, <1>9, <1>10, <1>11, <1>12,
    <1>13, <1>14, <1>15, <1>16, <1>17, <1>18, <1>19, <1>20, <1>21, <1>22,
    <1>23, <1>24, <1>25, <1>26, <1>27, <1>28 DEF Next, Starter, Runner,
    Reader, Stopper
\* Every step keeps the invariant.
LEMMA Step == ASSUME ChatInv, [Next]_vars PROVE ChatInv'
BY TypeStep, StageStep, HeardStep, OneTurnStep DEF ChatInv

\* The invariant holds throughout: what the theorems below rest on.
LEMMA Invariant == Spec => []ChatInv
<1>1. Init => ChatInv
  BY Start
<1>2. ChatInv /\ [Next]_vars => ChatInv'
  BY Step
<1> QED
  BY <1>1, <1>2, PTL DEF Spec

\* The types of ChatRunner, and its transcript (TypeOK).
THEOREM TypeCorrect == Spec => []TypeOK
<1>1. ChatInv => TypeOK
  BY DEF ChatInv
<1> QED
  BY <1>1, Invariant, PTL

\* One turn at a time (OneTurnRuns): start_chat_turn looks at the newest turn
\* only, and that is enough.
THEOREM OneTurnAtATime == Spec => []OneTurnRuns
<1>1. ChatInv => OneTurnRuns
  BY DEF ChatInv
<1> QED
  BY <1>1, Invariant, PTL

\* No turn of a live session is left running with nobody to resolve it
\* (NoTurnIsStranded), whichever way its process or its reader fails,
\* provided that every message can be passed to a process.
THEOREM NeverStranded == ASSUME Encodable PROVE Spec => []NoTurnIsStranded
<1>1. ChatInv => NoTurnIsStranded
  BY DEF ChatInv, TypeOK, Stages, Stage, NoTurnIsStranded
<1> QED
  BY <1>1, Invariant, PTL

\* The process of a running turn is in reach of a stop
\* (RunningTurnCanBeStopped).
THEOREM AlwaysStoppable == Spec => []RunningTurnCanBeStopped
<1>1. ChatInv => RunningTurnCanBeStopped
  BY DEF ChatInv, TypeOK, Stages, Stage, RunningTurnCanBeStopped
<1> QED
  BY <1>1, Invariant, PTL

\* The handshake of stop and spawn (StopIsObserved): the one that comes second
\* sees the other.
THEOREM StopsAreObserved == Spec => []StopIsObserved
<1>1. ChatInv => StopIsObserved
  <2> SUFFICES ASSUME ChatInv, NEW t \in Turns,
                      found[t] # {}, stopper[t] = "done",
                      runner[t] \notin {"spawn", "register", "terminate"},
                      proc[t] = "running"
               PROVE  signal[t] # "none"
    BY DEF StopIsObserved
  <2>1. Hears(t) /\ Stage(t) /\ found[t] \in SUBSET {"event", "process"}
    BY DEF ChatInv, TypeOK, Stages, Heard
  <2>2. runner[t] # "idle"
    BY <2>1 DEF Stage
  <2>3. CASE "process" \in found[t]
    BY <2>1, <2>3 DEF Hears
  <2>4. CASE "process" \notin found[t]
    <3>1. found[t] = {"event"}
      BY <2>1, <2>4
    <3> QED
      BY <2>1, <2>2, <3>1 DEF Hears
  <2> QED
    BY <2>3, <2>4
<1> QED
  BY <1>1, Invariant, PTL

\* The two process-wide registers do not grow (RegistersAreSettled), under the
\* same proviso.
THEOREM NothingIsLeftBehind == ASSUME Encodable PROVE Spec => []RegistersAreSettled
<1>1. ChatInv => RegistersAreSettled
  BY DEF ChatInv, TypeOK, Stages, Stage, RegistersAreSettled
<1> QED
  BY <1>1, Invariant, PTL

\* The verdict of a turn and its transcript stay.
Keeps(t) ==
  status[t] \in Resolved => status'[t] = status[t] /\ narration'[t] = narration[t]

\* No step touches a turn that has its verdict.
LEMMA VerdictStep ==
  ASSUME TypeOK, [Next]_vars, NEW u \in Turns
  PROVE  Keeps(u)
<1>1. ASSUME UNCHANGED vars PROVE Keeps(u)
  BY <1>1 DEF vars, store, session, transcript, request, registers, process,
    stopping, TypeOK, Keeps
<1>2. ASSUME Delete PROVE Keeps(u)
  BY <1>2 DEF Delete, NoChat, transcript, request, registers, process, stopping,
    TypeOK, Keeps
<1>3. ASSUME EndChat PROVE Keeps(u)
  BY <1>3 DEF EndChat, NoChat, transcript, request, registers, process,
    stopping, TypeOK, Keeps
<1>4. ASSUME NEW t \in Turns, NEW b \in Backends, StartTurn(t, b) PROVE Keeps(u)
  BY <1>4 DEF StartTurn, LastTurnIsResolved, registers, process, stopping,
    TypeOK, Keeps
<1>5. ASSUME NEW t \in Turns, ReadResume(t) PROVE Keeps(u)
  BY <1>5 DEF ReadResume, store, registers, process, stopping, session,
    transcript, TypeOK, Keeps
<1>6. ASSUME NEW t \in Turns, NEW p \in Personas, SetPersona(t, p) PROVE Keeps(u)
  BY <1>6 DEF SetPersona, transcript, registers, process, stopping, TypeOK,
    Keeps
<1>7. ASSUME NEW t \in Turns, Reread(t) PROVE Keeps(u)
  BY <1>7 DEF Reread, store, registers, process, stopping, session, transcript,
    TypeOK, Keeps
<1>8. ASSUME NEW t \in Turns, NoPersona(t) PROVE Keeps(u)
  BY <1>8 DEF NoPersona, store, registers, process, stopping, session,
    transcript, TypeOK, Keeps
<1>9. ASSUME NEW t \in Turns, RegisterStop(t) PROVE Keeps(u)
  BY <1>9 DEF RegisterStop, store, process, stopping, session, transcript,
    TypeOK, Keeps
<1>10. ASSUME NEW t \in Turns, StartThread(t) PROVE Keeps(u)
  BY <1>10 DEF StartThread, store, registers, process, stopping, session,
    transcript, TypeOK, Keeps
<1>11. ASSUME NEW t \in Turns, Spawn(t) PROVE Keeps(u)
  BY <1>11 DEF Spawn, RunnerTo, store, request, registers, stopping, session,
    transcript, TypeOK, Keeps
<1>12. ASSUME NEW t \in Turns, SpawnFails(t) PROVE Keeps(u)
  BY <1>12 DEF SpawnFails, RunnerTo, store, request, registers, process,
    stopping, session, transcript, TypeOK, Keeps
<1>13. ASSUME NEW t \in Turns, SpawnRaises(t) PROVE Keeps(u)
  BY <1>13 DEF SpawnRaises, RunnerTo, store, request, registers, process,
    stopping, session, transcript, TypeOK, Keeps
<1>14. ASSUME NEW t \in Turns, RegisterProcess(t) PROVE Keeps(u)
  BY <1>14 DEF RegisterProcess, RunnerTo, store, request, process, stopping,
    session, transcript, TypeOK, Keeps
<1>15. ASSUME NEW t \in Turns, TerminateStopped(t) PROVE Keeps(u)
  BY <1>15 DEF TerminateStopped, RunnerTo, Send, store, request, registers,
    stopping, session, transcript, TypeOK, Keeps
<1>16. ASSUME NEW t \in Turns, ReadEnd(t) PROVE Keeps(u)
  BY <1>16 DEF ReadEnd, RunnerTo, store, request, registers, process, stopping,
    session, transcript, TypeOK, Keeps
<1>17. ASSUME NEW t \in Turns, FailTurn(t) PROVE Keeps(u)
  BY <1>17 DEF FailTurn, RunnerTo, TryResolve, session, request, registers,
    process, stopping, TypeOK, Keeps
<1>18. ASSUME NEW t \in Turns, Settle(t) PROVE Keeps(u)
  BY <1>18 DEF Settle, RunnerTo, store, request, process, stopping, session,
    transcript, TypeOK, Keeps
<1>19. ASSUME NEW t \in Turns, Resolve(t) PROVE Keeps(u)
  BY <1>19 DEF Resolve, RunnerTo, TryResolve, session, request, registers,
    process, stopping, TypeOK, Keeps
<1>20. ASSUME NEW t \in Turns, ReadThreadId(t) PROVE Keeps(u)
  BY <1>20 DEF ReadThreadId, transcript, request, registers, process, stopping,
    TypeOK, Keeps
<1>21. ASSUME NEW t \in Turns, ReadToolCall(t) PROVE Keeps(u)
  BY <1>21 DEF ReadToolCall, RunnerTo, session, request, registers, process,
    stopping, TypeOK, Keeps
<1>22. ASSUME NEW t \in Turns, ReadRaises(t) PROVE Keeps(u)
  BY <1>22 DEF ReadRaises, RunnerTo, store, request, registers, process,
    stopping, session, transcript, TypeOK, Keeps
<1>23. ASSUME NEW t \in Turns, Exit(t) PROVE Keeps(u)
  BY <1>23 DEF Exit, store, request, registers, stopping, session, transcript,
    TypeOK, Keeps
<1>24. ASSUME NEW t \in Turns, Stop(t) PROVE Keeps(u)
  BY <1>24 DEF Stop, session, request, registers, process, TypeOK, Keeps
<1>25. ASSUME NEW t \in Turns, LookUp(t) PROVE Keeps(u)
  BY <1>25 DEF LookUp, store, request, process, session, transcript, TypeOK,
    Keeps
<1>26. ASSUME NEW t \in Turns, Terminate(t) PROVE Keeps(u)
  BY <1>26 DEF Terminate, Send, store, request, registers, session, transcript,
    TypeOK, Keeps
<1>27. ASSUME NEW t \in Turns, WaitEnds(t) PROVE Keeps(u)
  BY <1>27 DEF WaitEnds, store, request, registers, process, session,
    transcript, TypeOK, Keeps
<1>28. ASSUME NEW t \in Turns, WaitTimesOut(t) PROVE Keeps(u)
  BY <1>28 DEF WaitTimesOut, Send, store, request, registers, session,
    transcript, TypeOK, Keeps
<1> QED
  BY <1>1, <1>2, <1>3, <1>4, <1>5, <1>6, <1>7, <1>8, <1>9, <1>10, <1>11, <1>12,
    <1>13, <1>14, <1>15, <1>16, <1>17, <1>18, <1>19, <1>20, <1>21, <1>22,
    <1>23, <1>24, <1>25, <1>26, <1>27, <1>28 DEF Next, Starter, Runner,
    Reader, Stopper

\* A verdict and its transcript are final (VerdictIsFinal): every resolution is
\* refused once one is made.
THEOREM VerdictsAreFinal == Spec => VerdictIsFinal
<1>1. TypeOK /\ [Next]_vars =>
        [\A t \in Turns : status[t] \in Resolved =>
           status'[t] = status[t] /\ narration'[t] = narration[t]]_vars
  BY VerdictStep DEF Keeps
<1> QED
  BY <1>1, TypeCorrect, PTL DEF Spec, VerdictIsFinal

=============================================================================
