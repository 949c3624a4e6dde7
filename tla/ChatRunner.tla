------------------------------ MODULE ChatRunner ------------------------------
(***************************************************************************)
(* The in-app chat of one session: collab/chat_runner.py over the chat     *)
(* methods of collab/session.py.                                           *)
(*                                                                         *)
(* A turn is worked on by up to three threads and a process: the request   *)
(* that starts it (start_chat_turn), the background thread that runs the   *)
(* agent's command line and reads what it prints (_run_turn), the request  *)
(* that stops it (stop_chat_turn), and the command line itself.  They meet *)
(* in the session store, whose methods hold its lock, and in two registers *)
(* under _PROCESS_LOCK.  An action is one such critical section, or one    *)
(* thing done to the process; between two actions anyone may step.         *)
(*                                                                         *)
(* A thread id is the id of a conversation of one backend's: the backend   *)
(* stands for it.  Prompts and replies are left out; of the narration its  *)
(* length is kept.                                                         *)
(***************************************************************************)
EXTENDS Naturals, Sequences, FiniteSets

CONSTANTS
  Turns,         \* ids of chat turns; a uuid is given once
  Backends,      \* registered and available agent backends
  Personas,      \* personas a message may activate
  None,          \* no backend, thread or persona
  LinesParse,    \* no adapter's parse_line ever raises
  Encodable,     \* every prompt can be passed as an argument of a process
  MaxNarration   \* bound on the narration of a turn

ASSUME NoneAssumption == None \notin Backends \cup Personas
ASSUME InputAssumption == LinesParse \in BOOLEAN /\ Encodable \in BOOLEAN
ASSUME NarrationAssumption == MaxNarration \in Nat

VARIABLES
  live,        \* the session is in the store
  chat,        \* ChatState: its backend, backend_thread_id, active_persona
  turns,       \* ChatState.turns, oldest first
  status,      \* of each turn: "none" until it is started
  backendOf,   \* the backend of the turn
  narration,   \* how many lines of narration it has
  starter,     \* where the request that starts the turn is
  resume,      \* its local resume_id
  stopEntry,   \* turns with an event in _STOP_REQUESTED
  stopSet,     \* turns whose event is set
  registered,  \* turns with a process in _RUNNING_PROCESSES
  runner,      \* where the background thread of the turn is
  proc,        \* its process
  signal,      \* the last signal sent to the process
  stopper,     \* where the request that stops the turn is
  found        \* what it found in the registers

vars == <<live, chat, turns, status, backendOf, narration, starter, resume,
          stopEntry, stopSet, registered, runner, proc, signal, stopper, found>>

session == <<live, chat>>
transcript == <<turns, status, backendOf, narration>>
store == <<session, transcript>>
request == <<starter, resume>>
registers == <<stopEntry, stopSet, registered>>
process == <<proc, signal>>
stopping == <<stopper, found>>

Resolved == {"completed", "failed", "interrupted"}
Ended == {"succeeded", "crashed"}

ChatState == [backend : Backends \cup {None}, thread : Backends \cup {None},
              persona : Personas \cup {None}]

NoChat == [backend |-> None, thread |-> None, persona |-> None]

----------------------------------------------------------------------------
Init ==
  /\ live = TRUE
  /\ chat = NoChat
  /\ turns = <<>>
  /\ status = [t \in Turns |-> "none"]
  /\ backendOf = [t \in Turns |-> None]
  /\ narration = [t \in Turns |-> 0]
  /\ starter = [t \in Turns |-> "idle"]
  /\ resume = [t \in Turns |-> None]
  /\ stopEntry = {}
  /\ stopSet = {}
  /\ registered = {}
  /\ runner = [t \in Turns |-> "idle"]
  /\ proc = [t \in Turns |-> "none"]
  /\ signal = [t \in Turns |-> "none"]
  /\ stopper = [t \in Turns |-> "idle"]
  /\ found = [t \in Turns |-> {}]

\* The session is deleted from the store.
Delete ==
  /\ live
  /\ live' = FALSE
  /\ chat' = NoChat
  /\ UNCHANGED <<transcript, request, registers, runner, process, stopping>>

\* end_chat: it does not look for a running turn.
EndChat ==
  /\ live
  /\ chat' = NoChat
  /\ UNCHANGED <<live, transcript, request, registers, runner, process, stopping>>

----------------------------------------------------------------------------
(* The request that starts a turn.                                         *)

\* Variant: only a chat that has a backend is looked at.
ActiveTurnIsResolved ==
  chat.backend # None /\ turns # <<>> => status[turns[Len(turns)]] # "running"

LastTurnIsResolved == turns # <<>> => status[turns[Len(turns)]] # "running"

\* SessionStore.start_chat_turn.
StartTurn(t, b) ==
  /\ starter[t] = "idle"
  /\ live
  /\ chat.backend \in {None, b}
  /\ LastTurnIsResolved
  /\ chat' = [chat EXCEPT !.backend = b]
  /\ turns' = Append(turns, t)
  /\ status' = [status EXCEPT ![t] = "running"]
  /\ backendOf' = [backendOf EXCEPT ![t] = b]
  /\ starter' = [starter EXCEPT ![t] = "read"]
  /\ UNCHANGED <<live, narration, resume, registers, runner, process, stopping>>

\* Read the session back for the thread to resume; store.get raises if it is gone.
ReadResume(t) ==
  /\ starter[t] = "read"
  /\ IF live
     THEN /\ resume' = [resume EXCEPT ![t] = chat.thread]
          /\ starter' = [starter EXCEPT ![t] = "detect"]
     ELSE /\ starter' = [starter EXCEPT ![t] = "raised"]
          /\ UNCHANGED resume
  /\ UNCHANGED <<store, registers, runner, process, stopping>>

\* A message that names a persona activates it, and the session is read again.
SetPersona(t, p) ==
  /\ starter[t] = "detect"
  /\ IF live
     THEN /\ chat' = [chat EXCEPT !.persona = p]
          /\ starter' = [starter EXCEPT ![t] = "reread"]
     ELSE /\ starter' = [starter EXCEPT ![t] = "raised"]
          /\ UNCHANGED chat
  /\ UNCHANGED <<live, transcript, resume, registers, runner, process, stopping>>

Reread(t) ==
  /\ starter[t] = "reread"
  /\ starter' = [starter EXCEPT ![t] = IF live THEN "register" ELSE "raised"]
  /\ UNCHANGED <<store, resume, registers, runner, process, stopping>>

NoPersona(t) ==
  /\ starter[t] = "detect"
  /\ starter' = [starter EXCEPT ![t] = "register"]
  /\ UNCHANGED <<store, resume, registers, runner, process, stopping>>

\* A fresh event is put in _STOP_REQUESTED before the thread is started.
RegisterStop(t) ==
  /\ starter[t] = "register"
  /\ stopEntry' = stopEntry \cup {t}
  /\ starter' = [starter EXCEPT ![t] = "thread"]
  /\ UNCHANGED <<store, resume, stopSet, registered, runner, process, stopping>>

\* Variant: the thread is started before the event is registered.
StartThreadEarly(t) ==
  /\ starter[t] = "register"
  /\ runner[t] = "idle"
  /\ runner' = [runner EXCEPT ![t] = "spawn"]
  /\ UNCHANGED <<store, request, registers, process, stopping>>

\* Left out: thread.start() raises because there are no more threads.
StartThread(t) ==
  /\ starter[t] = "thread"
  /\ runner' = [runner EXCEPT ![t] = "spawn"]
  /\ starter' = [starter EXCEPT ![t] = "done"]
  /\ UNCHANGED <<store, resume, registers, process, stopping>>

----------------------------------------------------------------------------
(* The background thread, _run_turn, and the process.                      *)

RunnerTo(t, pc) == runner' = [runner EXCEPT ![t] = pc]

\* The one-shot transition of a turn, tried by a thread that goes on whether or
\* not it is refused.
TryResolve(t, verdict) ==
  status' = IF live /\ status[t] = "running"
            THEN [status EXCEPT ![t] = verdict] ELSE status

Spawn(t) ==
  /\ runner[t] = "spawn"
  /\ proc' = [proc EXCEPT ![t] = "running"]
  /\ RunnerTo(t, "register")
  /\ UNCHANGED <<store, request, registers, signal, stopping>>

\* Variant: the error is only logged.
SpawnFailsQuietly(t) ==
  /\ runner[t] = "spawn"
  /\ RunnerTo(t, "settleFailed")
  /\ UNCHANGED <<store, request, registers, process, stopping>>

\* The adapter is gone, its command cannot be built, or it cannot be executed.
SpawnFails(t) ==
  /\ runner[t] = "spawn"
  /\ RunnerTo(t, "fail")
  /\ UNCHANGED <<store, request, registers, process, stopping>>

\* Popen raises what is no OSError when the prompt has a character that cannot be
\* passed, a null or half of a surrogate pair: the thread ends there.
SpawnRaises(t) ==
  /\ runner[t] = "spawn"
  /\ ~Encodable
  /\ RunnerTo(t, "done")
  /\ UNCHANGED <<store, request, registers, process, stopping>>

\* Variant: the stop event is not looked at.
RegisterWithoutLooking(t) ==
  /\ runner[t] = "register"
  /\ registered' = registered \cup {t}
  /\ RunnerTo(t, "read")
  /\ UNCHANGED <<store, request, stopEntry, stopSet, process, stopping>>

\* In one critical section: register the process and look at the stop event.
RegisterProcess(t) ==
  /\ runner[t] = "register"
  /\ registered' = registered \cup {t}
  /\ RunnerTo(t, IF t \in stopSet THEN "terminate" ELSE "read")
  /\ UNCHANGED <<store, request, stopEntry, stopSet, process, stopping>>

\* A signal reaches a process that has not ended.
Send(t, s) ==
  signal' = IF proc[t] = "running" THEN [signal EXCEPT ![t] = s] ELSE signal

TerminateStopped(t) ==
  /\ runner[t] = "terminate"
  /\ Send(t, "term")
  /\ RunnerTo(t, "read")
  /\ UNCHANGED <<store, request, registers, proc, stopping>>

\* A line that reports the conversation's id; a deleted session is tolerated.
ReadThreadId(t) ==
  /\ runner[t] = "read"
  /\ live
  /\ chat' = [chat EXCEPT !.thread = backendOf[t]]
  /\ UNCHANGED <<live, transcript, request, registers, runner, process, stopping>>

\* A line that reports a tool call is narration of a running turn.  That the
\* turn is resolved is tolerated, that the session is gone is not.
ReadToolCall(t) ==
  /\ runner[t] = "read"
  /\ IF live
     THEN /\ status[t] = "running"
          /\ narration[t] < MaxNarration
          /\ narration' = [narration EXCEPT ![t] = @ + 1]
          /\ UNCHANGED runner
     ELSE /\ RunnerTo(t, "fail")
          /\ UNCHANGED narration
  /\ UNCHANGED <<session, turns, status, backendOf, request, registers, process, stopping>>

\* The reader raises on a line it cannot parse.
ReadRaises(t) ==
  /\ runner[t] = "read"
  /\ ~LinesParse
  /\ RunnerTo(t, "fail")
  /\ UNCHANGED <<store, request, registers, process, stopping>>

\* The end of the output, and the exit code.
ReadEnd(t) ==
  /\ runner[t] = "read"
  /\ proc[t] \in Ended
  /\ RunnerTo(t, "settle")
  /\ UNCHANGED <<store, request, registers, process, stopping>>

\* _fail_turn resolves the turn first and settles its registers afterwards.
FailTurn(t) ==
  /\ runner[t] = "fail"
  /\ TryResolve(t, "failed")
  /\ RunnerTo(t, "settleFailed")
  /\ UNCHANGED <<session, turns, backendOf, narration, request, registers, process, stopping>>

\* Variant: only the process is dropped.
SettleProcessOnly(t) ==
  /\ runner[t] \in {"settle", "settleFailed"}
  /\ registered' = registered \ {t}
  /\ RunnerTo(t, IF runner[t] = "settle" THEN "resolve" ELSE "done")
  /\ UNCHANGED <<store, request, stopEntry, stopSet, process, stopping>>

\* _settle_turn_registry.
Settle(t) ==
  /\ runner[t] \in {"settle", "settleFailed"}
  /\ registered' = registered \ {t}
  /\ stopEntry' = stopEntry \ {t}
  /\ RunnerTo(t, IF runner[t] = "settle" THEN "resolve" ELSE "done")
  /\ UNCHANGED <<store, request, stopSet, process, stopping>>

\* Variant: the verdict of the process overrides a stop.
OverrideVerdict(t) ==
  /\ runner[t] = "resolve"
  /\ status' = [status EXCEPT ![t] = IF proc[t] = "succeeded" THEN "completed" ELSE "failed"]
  /\ RunnerTo(t, "done")
  /\ UNCHANGED <<session, turns, backendOf, narration, request, registers, process, stopping>>

\* Variant: a turn whose process failed is left to somebody else.
ResolveSuccessOnly(t) ==
  /\ runner[t] = "resolve"
  /\ IF proc[t] = "succeeded" THEN TryResolve(t, "completed") ELSE UNCHANGED status
  /\ RunnerTo(t, "done")
  /\ UNCHANGED <<session, turns, backendOf, narration, request, registers, process, stopping>>

\* The exit code decides, unless the turn has been stopped.
Resolve(t) ==
  /\ runner[t] = "resolve"
  /\ TryResolve(t, IF proc[t] = "succeeded" THEN "completed" ELSE "failed")
  /\ RunnerTo(t, "done")
  /\ UNCHANGED <<session, turns, backendOf, narration, request, registers, process, stopping>>

\* The process ends by itself or by a signal; a killed one does not succeed.
Exit(t) ==
  /\ proc[t] = "running"
  /\ \E e \in Ended :
       /\ signal[t] = "kill" => e = "crashed"
       /\ proc' = [proc EXCEPT ![t] = e]
  /\ UNCHANGED <<store, request, registers, runner, signal, stopping>>

----------------------------------------------------------------------------
(* The request that stops a turn.                                          *)

\* interrupt_chat_turn; it raises unless the turn is running.
Stop(t) ==
  /\ live
  /\ status[t] = "running"
  /\ status' = [status EXCEPT ![t] = "interrupted"]
  /\ stopper' = [stopper EXCEPT ![t] = "lookup"]
  /\ UNCHANGED <<session, turns, backendOf, narration, request, registers, runner, process, found>>

\* In one critical section: set the stop event and look for the process.
LookUp(t) ==
  /\ stopper[t] = "lookup"
  /\ stopSet' = stopSet \cup (stopEntry \cap {t})
  /\ found' = [found EXCEPT ![t] = {r \in {"event", "process"} :
       IF r = "event" THEN t \in stopEntry ELSE t \in registered}]
  /\ stopper' = [stopper EXCEPT ![t] = IF t \in registered THEN "terminate" ELSE "done"]
  /\ UNCHANGED <<store, request, stopEntry, registered, runner, process>>

Terminate(t) ==
  /\ stopper[t] = "terminate"
  /\ Send(t, "term")
  /\ stopper' = [stopper EXCEPT ![t] = "wait"]
  /\ UNCHANGED <<store, request, registers, runner, proc, found>>

WaitEnds(t) ==
  /\ stopper[t] = "wait"
  /\ proc[t] \in Ended
  /\ stopper' = [stopper EXCEPT ![t] = "done"]
  /\ UNCHANGED <<store, request, registers, runner, process, found>>

\* Variant: the request gives up.
WaitGivesUp(t) ==
  /\ stopper[t] = "wait"
  /\ stopper' = [stopper EXCEPT ![t] = "done"]
  /\ UNCHANGED <<store, request, registers, runner, process, found>>

\* Five seconds have passed.
WaitTimesOut(t) ==
  /\ stopper[t] = "wait"
  /\ Send(t, "kill")
  /\ stopper' = [stopper EXCEPT ![t] = "done"]
  /\ UNCHANGED <<store, request, registers, runner, proc, found>>

----------------------------------------------------------------------------
Starter(t) ==
  \/ ReadResume(t) \/ Reread(t) \/ NoPersona(t) \/ RegisterStop(t) \/ StartThread(t)
  \/ \E p \in Personas : SetPersona(t, p)

\* What the background thread does of itself; lines are read as they come.
Runner(t) ==
  \/ Spawn(t) \/ SpawnFails(t) \/ SpawnRaises(t) \/ RegisterProcess(t)
  \/ TerminateStopped(t) \/ ReadEnd(t) \/ FailTurn(t) \/ Settle(t) \/ Resolve(t)

Reader(t) == ReadThreadId(t) \/ ReadToolCall(t) \/ ReadRaises(t)

Stopper(t) == LookUp(t) \/ Terminate(t) \/ WaitEnds(t) \/ WaitTimesOut(t)

Next ==
  \/ Delete
  \/ EndChat
  \/ \E t \in Turns :
       \/ \E b \in Backends : StartTurn(t, b)
       \/ Starter(t)
       \/ Runner(t)
       \/ Reader(t)
       \/ Exit(t)
       \/ Stop(t)
       \/ Stopper(t)

Spec == Init /\ [][Next]_vars

\* SIGKILL ends a process; SIGTERM is a request it may ignore.
ExitKilled(t) == signal[t] = "kill" /\ Exit(t)

\* The threads of the server run; a process need not end unless it is killed.
FairSpec ==
  /\ Spec
  /\ \A t \in Turns :
       /\ WF_vars(Starter(t))
       /\ WF_vars(Runner(t))
       /\ WF_vars(Stopper(t))
       /\ WF_vars(ExitKilled(t))

----------------------------------------------------------------------------
\* The types; the transcript holds exactly the turns that were started, and a
\* turn is in the transcript before any thread works on it.
TypeOK ==
  /\ live \in BOOLEAN
  /\ chat \in ChatState
  /\ turns \in Seq(Turns)
  /\ status \in [Turns -> {"none", "running"} \cup Resolved]
  /\ backendOf \in [Turns -> Backends \cup {None}]
  /\ narration \in [Turns -> 0..MaxNarration]
  /\ starter \in [Turns -> {"idle", "read", "detect", "reread", "register",
                            "thread", "done", "raised"}]
  /\ resume \in [Turns -> Backends \cup {None}]
  /\ stopEntry \subseteq Turns
  /\ stopSet \subseteq Turns
  /\ registered \subseteq Turns
  /\ runner \in [Turns -> {"idle", "spawn", "register", "terminate", "read", "fail",
                           "settleFailed", "settle", "resolve", "done"}]
  /\ proc \in [Turns -> {"none", "running"} \cup Ended]
  /\ signal \in [Turns -> {"none", "term", "kill"}]
  /\ stopper \in [Turns -> {"idle", "lookup", "terminate", "wait", "done"}]
  /\ found \in [Turns -> SUBSET {"event", "process"}]
  /\ \A t \in Turns : status[t] # "none" <=> \E i \in DOMAIN turns : turns[i] = t
  /\ \A t \in Turns : status[t] = "none" <=> starter[t] = "idle"

\* One turn at a time (session.py:876-879): only the newest turn can be
\* running, whatever was stopped, ended or switched before it.
OneTurnRuns ==
  \A t \in Turns : status[t] = "running" =>
    turns # <<>> /\ t = turns[Len(turns)]

\* A turn is not stranded running (chat_runner.py:224, 293): while a turn of a live
\* session is running, the request that starts it or its background thread is
\* still on its way to resolving it.
NoTurnIsStranded ==
  \A t \in Turns : live /\ status[t] = "running" =>
    \/ starter[t] \notin {"idle", "done", "raised"}
    \/ starter[t] = "done" /\ runner[t] \notin {"idle", "settleFailed", "done"}

\* A running turn whose process runs can be stopped: the process is in the
\* register, or its thread will look at a stop event that can still be set
\* (chat_runner.py:121-128).
RunningTurnCanBeStopped ==
  \A t \in Turns : live /\ status[t] = "running" /\ proc[t] = "running" =>
    \/ t \in registered
    \/ runner[t] = "register" /\ t \in stopEntry

\* Whichever of spawn and stop comes second sees the other (chat_runner.py:
\* 121-128): a stop that found an event or a process has the process told to
\* end by the time its request and the thread's handshake are over.
StopIsObserved ==
  \A t \in Turns :
    /\ found[t] # {} /\ stopper[t] = "done"
    /\ runner[t] \notin {"spawn", "register", "terminate"}
    /\ proc[t] = "running"
    => signal[t] # "none"

\* Nothing of a turn is left in the two process-wide registers once its thread
\* is done (chat_runner.py:128), whichever way it ended.
RegistersAreSettled ==
  \A t \in Turns : runner[t] = "done" => t \notin stopEntry \cup registered

\* A verdict is final, and so is the transcript of the turn: a stop and an exit
\* that race leave the verdict of the one that came first (chat.py:29-35).
VerdictIsFinal ==
  [][\A t \in Turns : status[t] \in Resolved =>
       status'[t] = status[t] /\ narration'[t] = narration[t]]_vars

\* A turn does not stay running once it has no running process: its process
\* ended or it never had one, and a verdict or the process follows.  Left aside
\* is the turn whose thread died before it could settle, of a prompt that
\* cannot be passed (NoTurnIsStranded).
TurnsSettle ==
  \A t \in Turns : []<>~(/\ live /\ status[t] = "running" /\ proc[t] # "running"
                         /\ ~(runner[t] = "done" /\ t \in stopEntry))

\* A stop that found the process ends it, even one that ignores SIGTERM, and one
\* that came before the process was registered has it told to end
\* (chat_runner.py:397-400).
StopEndsProcess ==
  \A t \in Turns :
    /\ "process" \in found[t] ~> [](proc[t] # "running")
    /\ found[t] # {} ~> [](signal[t] # "none" \/ proc[t] # "running")

\* The thread id kept with the chat is the active backend's own (chat.py:73-75),
\* so a turn resumes a conversation of the backend it runs.
ResumesOwnBackend ==
  \A t \in Turns : resume[t] \in {None, backendOf[t]}

=============================================================================
