# Emergent Flow: a verification development

Emergent Flow is a Python SDK for data-science pipelines with a FastAPI server and a canvas in the
browser. A pipeline is a typed graph (the *intermediate representation*, IR) of nodes and edges,
which is compiled to Python, executed node by node, and edited, by hand on the canvas and by
coding agents through tools. People and agents edit one graph together in a *graph session* that
the server keeps: a versioned document with proposals, checkpoints and a live event stream, and a
chat in which an agent's command line works on the graph.

This directory holds TLA+ models of the parts of the system that keep state and talk to each
other, TLC configurations that check them on small instances, and TLAPS proofs that carry the most
important results over to every instance. All paths below are relative to `src/`.

  1. The system: components, state, interactions, what is hard about them
  2. The modules, and how they correspond to the code
  3. The runs: what is checked, the bounds, and why they are enough
  4. Fairness
  5. What is proved, from what, and how
  6. Where the code departs from what it says
  7. What is only model-checked, and what is not modelled
  8. The plan

To run: `tlc -workers 2 -config SessionStore.cfg MCSessionStore.tla` (section 3 names module and
configuration of each run), `tlapm SessionStoreProofs.tla`.

## 1. The system

### The document

**Graph IR** (`emergentflow/ir/graph.py`, `node.py`, `edge.py`, `port.py`). A graph is a dict of
nodes and a dict of edges. The structural validator runs whenever a graph is built: an edge must
join an output port of an existing node to an input port of an existing node, and a node may name
only an existing node as its group. *Correct when* no operation yields a graph it would refuse.

**Graph mutations** (`ir/mutation.py`). `apply_mutation` removes edges and nodes, adds nodes and
edges, then sets parameters of nodes that exist by then, placing in a cascade the added nodes that
have no position; it validates the nodes whose parameters it sets against their contract, and the
graph as a whole. `invert_mutation` derives from a graph and a mutation the mutation that undoes
it, or refuses. Both are pure. *Correct when* a derived inverse, applied to the edited graph,
gives back the graph, and applies. *Hard:* one mutation may remove and re-add a node under one id,
move its edges and set its parameters.

**Session store** (`collab/session.py`, `collab/checkpoints.py`). One `SessionStore` per server
process: a dict of `GraphSession`s (graph, version, proposals, checkpoints, chat and the
collections beside them) and, per session, the queues of its subscribers, all behind one lock (a
plain `threading.Lock`: a locked method that called another would wait for itself). Its operations
on the document are `create_session`, `replace_graph`,
`add_proposal`, `accept_proposal`, `reject_proposal`, `apply_direct_mutation`,
`revert_checkpoint`, `delete_session`, `subscribe` and `unsubscribe`. Every write names the
version it was computed from and is refused if that is not current (`StaleVersionError`), except a
revert, which applies to whatever is there. A write bumps the version and publishes an event.
*Correct when* no write is lost or applied to a document its author has not seen; the log of
checkpoints explains the graph; each proposal is decided once; a subscriber misses nothing and is
told nothing untrue. *Hard:* callers are worker threads; several fields change in one operation;
readers take no lock.

**Agent tools** (`collab/mcp.py`, `mcp_bridge.py`). Tools that an agent calls, over the same
store: they read the live session, build a mutation (`connect_ports`, `delete_node`,
`set_result_card`, ...) and propose it or apply it directly. `await_verdict` waits for the
decision on a proposal. *Hard:* they read graph and version of the live object one after the
other, without the lock.

### The chat

**Chat turns** (`collab/chat_runner.py`, `collab/chat.py`, the chat methods of
`collab/session.py`). A message starts a turn: a request thread publishes it, a background thread
spawns the agent's command line, reads what it prints (a thread id to resume, tool calls, a
reply), and resolves the turn; another request may stop it. State: the transcript in the session;
two process-wide registers, of running processes and of stop events. *Correct when* at most one
turn of a session runs, every turn is resolved, a stop ends the process, nothing stays in the
registers, and a verdict is final. *Hard:* three threads and a process meet in every order; the
session may be deleted, or the chat ended and its backend changed, at any moment; a process may
ignore SIGTERM; a spawn may fail.

### The canvas

**Session client** (`ui/src/session/sessionStore.ts`, `sessionClient.ts`). One browser tab: it
joins a session with a GET, subscribes to its events, refreshes itself with GETs (coalescing
bursts), and pushes, proposes, accepts, rejects, edits and reverts. State: the session shown, the
version it believes current, the graph on the canvas, one refresh under way and one event queued
behind it. *Correct when* the canvas shows its session, is in step when all is quiet, and never
pushes over a change that it has not shown. *Hard:* answers and events arrive in any order, and
the user may be elsewhere when they do.

**Graph editing, undo, execution status** (`ui/src/store/graphStore.ts`, `executionStore.ts`,
`exec/`). The canvas's own undo stack with its limit, groups, and the status of a run it follows.

### Running a pipeline

**Gates and the budget gate** (`collab/gates.py`, `budget_gate.py`, `server/service.py`). An open
gate blocks execute and compile of a session. A run whose estimate is above the ceiling spends an
approval, a closed budget gate of the session, or opens such a gate and is not carried out. State:
the gates of each session; a process-wide set of spent approvals with a lock of its own.
*Correct when* an approval pays for one run, no run passes a gate that stands, and an approval
that stands is found. *Hard:* the gates are read without the store's lock, and iterated while
others add to them; ids may be sent by clients, so that a gate may be opened again under an id, and
two sessions may each have a gate of one id, while the spent ids are one set for all of them.

**Execution stream, cache, artifacts** (`server/service.py`, `cache.py`, `artifacts.py`,
`codegen/traversal.py`, `wiring.py`). A graph, or the part of it in the scope of the request, is
walked in topological order. Each node takes its inputs from the outputs of this run or, for
sources out of scope, from the artifacts of earlier ones; it is served from the cache, executed,
or skipped when an input is missing. The cache is keyed by a hash over the node and, through the
hashes of its sources, its ancestors. Both stores are directories that all runs share. *Correct
when* what is served from the cache is what would be computed; a run that holds all ancestors
depends on no other; a node is skipped only behind a failure; every node in scope gets one status.
*Hard:* runs share two stores, either of which may fail or evict at any moment, and partial runs
mix outputs of runs of different graphs.

**Run history** (`server/runs.py`). One directory per run with three files, a lock, a cap.
*Correct when* a run that is listed is whole, the cap is kept, and a failed save leaves nothing.
*Hard:* a save fails, or the process dies, between two files; removals fail half way; listing
holds the lock only for the names; two saves may draw one id.

**HTTP server** (`server/app.py`). Routes parse and delegate, on a pool of worker threads; the
event streams drain a queue that another thread fills. *Correct when* a stream ends with all
events or an error, and neither the walk nor a thread of the pool outlives its client for long.

### The rest

Code generation (`codegen/`), port types (`types/`), migration and serialization (`ir/migrate.py`,
`ir/serialize.py`), the LLM gateway with budget and replay (`llm/`), data sources (`data/`,
`connections/`), the node catalogue (`ml/`, `stats/`, `viz/`, `clean/`, `causal/`, ...), reviews,
tours and attempts (`collab/review.py`, `tours.py`), consults and personas (`collab/consult.py`,
`personas.py`), flows and reports (`server/flows.py`, `reports.py`), evaluation and research
(`eval/`, `research/`), and the canvas's views. `PROJECT.json` lists each with its sources, its
status and, where it is left out, the reason.

### How they interact

    canvas (SessionClient) --HTTP--> routes --> SessionStore <-- MCP tools <-- agent process
          ^                            |          |  ^                             ^
          +----------- event stream (queue) ------+  +--- chat runner (threads) ---+
          |                            |          |
          |                            |      GraphMutation: apply_mutation, invert_mutation
          |                            |
          +-- frames (queue) <-- execute_graph --> cache, artifacts
                                       |
                     gates, approvals -+-> run history

The store is the only shared state of the collaboration; whoever changes the graph goes through
it, and whoever watches is told by its queues. The chat runner uses the store for the transcript
and its own registers for processes. The agent process it spawns calls tools that go back to the
store. A run of a session passes its gates first, is walked over the shared cache and artifacts, is
recorded in the history, and is told to the session's watchers.

The behaviours that are hard to test, with the lines where they bite, are the `hazards` of
`PROJECT.json`; each names the properties that watch over it.

## 2. The modules

| module | models | depends on |
|---|---|---|
| `GraphMutation` | the graph, its validator, `apply_mutation`, `invert_mutation`, `delete_node`'s mutation | |
| `EditUndo` | one edit, undone by its derived inverse, or redone | `GraphMutation` |
| `SessionStore` | the store with atomic operations: document, proposals, checkpoints, streams | `GraphMutation` |
| `VersionedDocument` | *abstract:* what the store promises to concurrent writers | |
| `SharedDocument` | one session with the lock opened, statement by statement | refines `VersionedDocument` |
| `ChatRunner` | the chat of one session: turns, threads, registers, processes | |
| `SessionClient` | one browser tab and the sessions it visits | |
| `GraphEvaluation` | *abstract:* what a run of a graph, or of one up to some nodes, comes to | |
| `ExecutionStream` | runs of functional graphs over the shared cache and artifacts | refines `GraphEvaluation` |
| `ExecuteSession` | the gates before a run or a compile of a session, and its budget | |
| `RunHistory` | *abstract:* what the run history promises: a map that a save changes in one step | |
| `RunStore` | the run history on disk | refines `RunHistory` |
| `QueueReaders` | `await_verdict`, and the bridge between a walk and its HTTP response | |
| `MC...` | the finite instances that need more than a cfg can say | |
| `...Proofs` | the theorems | |

The modules fit together by what they take for granted. `SessionStore` takes each operation as one
step; `SharedDocument` opens the lock and shows that this is right for everybody who goes through
it, and what it costs those who read without it. `SessionClient` takes from the server only that
each request is answered in one piece, which `SessionStore` and `SharedDocument` are about.
`SessionStore` uses the very operators that `EditUndo` shows to be inverse to each other.
`ExecuteSession` ends where `ExecutionStream` begins and that ends where `RunStore` begins: what
the one does between two steps of the other touches none of its state. `QueueReaders` takes from
the store that its methods are one step each, and from the walk that it yields events and may
raise. A definition whose comment begins with *Variant* is no part of the model: it is the
definition after
it as a plausible bug would have it. `PROJECT.json` (`mutants`) names, for every property, a
variant under which TLC finds it violated.

### GraphMutation, EditUndo

A dict is a function from the ids to values or `None` (`Dict`), so `dict.update`, `pop` and
comprehension are `Update`, `Without` and `Only`. A node keeps its type, its parameters, its input
and output ports, its group and whether it stands at the default position; positions as such are
left out, since `apply_mutation` only asks whether a node has one (mutation.py:141). `Accepts`
stands for the registry: for every type the parameters its contract accepts; an unregistered type
accepts anything, as the code skips it. `ApplyMutation` is the result of `apply_mutation` where it
succeeds and `CanApply` says where it does: ids that are removed exist, ids that are added are
free once the removals are done, nodes whose parameters are set exist by then and keep their
contract, and the result is structurally valid. `InvertMutation` and `CanInvert` do the same for
`invert_mutation`: a parameter that the node lacked, or an update of a node that the mutation
adds, has no inverse.

`EditUndo` applies any mutation to any graph, and then either undoes it or, having undone it,
redoes it.

### SessionStore

| code (`collab/session.py`) | action |
|---|---|
| `create_session` | `Create` |
| `delete_session` | `Delete`; the subscriber list goes, the queues stay with their readers |
| `subscribe`, `unsubscribe` | `Subscribe`, `Unsubscribe` |
| `queue.get` of the stream's reader (`server/app.py`) | `Deliver` |
| `replace_graph` | `ReplaceGraph`, no checkpoint |
| `add_proposal`, `propose_diagnostics` | `AddProposal`; the verdict is computed then and kept |
| `accept_proposal`, `reject_proposal` | `AcceptProposal`, `RejectProposal` |
| `apply_direct_mutation` | `ApplyDirectMutation`, refused for an author the checkpoint refuses |
| `revert_checkpoint` | `RevertCheckpoint`, of an edit or of a revert |

A refused call changes nothing, so it is no step: the checks of the code guard the action. That
the last of them, the one on a checkpoint's author, comes before the first write is a fact of the
code that the variant `ApplyDirectBuildingLate` turns around. A checkpoint keeps the mutation and
the graph before it; a revert derives the inverse, fails if there is none, puts the old graph
back, and records the inverse. The ghost `told` is the version each watcher knows of.

### VersionedDocument, SharedDocument

The content is a *revision number*. A thread of `SharedDocument` is a worker thread; its program
counter names the statement it is at. `Lookup` is `store.get`; a GET route dumps the model in one
step (`Dump`: one call that holds the interpreter lock), whereas a thread of `Tools` loads graph
and version in two (`LoadGraph`, `LoadVersion`; mcp.py:863/874, 1103/1139, service.py:319-329). A
write acquires the lock, checks the version, sets the graph, bumps the version, publishes, and
releases. Since the graph is set before the version is bumped, a GET may pair the *new* graph with
the *old* version: harmless, since a write based on it is refused. A reader in two steps may pair
the *old* graph with the *new* version: that is not harmless (section 6). `VersionedDocument` says
exactly this: a conditional write replaces the very content its author read, unless its author is
careless.

### ChatRunner

Three program counters per turn: `starter` is `start_chat_turn`, `runner` is `_run_turn` and
`stopper` is `stop_chat_turn`. An action is one critical section, of the store's lock or of
`_PROCESS_LOCK`, or one thing that happens to the process.

| code (`collab/chat_runner.py`) | actions |
|---|---|
| `start_chat_turn` | `StartTurn`, `ReadResume`, `SetPersona`, `NoPersona`, `Reread`, `RegisterStop`, `StartThread` |
| `_run_turn`: `Popen` | `Spawn`, `SpawnFails` (OSError), `SpawnRaises` (any other) |
| the handshake | `RegisterProcess`, `TerminateStopped` |
| the read loop | `ReadThreadId`, `ReadToolCall`, `ReadRaises`, `ReadEnd` |
| `_fail_turn`, the `finally`, the verdict | `FailTurn`, `Settle`, `Resolve` |
| `stop_chat_turn`, `_terminate` | `Stop`, `LookUp`, `Terminate`, `WaitEnds`, `WaitTimesOut` |
| the command line | `Exit`, at any time, with either return code |
| `session.py` | `Delete`, `EndChat`, and the store's part of the actions above |

A thread id is reduced to the backend it belongs to. `store.get` and the reading of the id to
resume are one step. Text chunks, prompts and the stderr buffer are left out; end of output is
taken to follow the exit of the process. Turns of a deleted session are kept, as history variables
that nothing reads.

### SessionClient

The n-th graph of a session is named by n, the version at which it was current. `calls` are the
calls of the user under way: `Ask` sends one, `Serve` is the moment the server carries it out,
`Answer` the moment it reads its answer (the answer is built outside the lock, from the session as
it is then), `Fail` any failure, and `Return` the code after the `await`: `Joined`, `Pushed`,
`Accepted`, `Edited`, `Rejected` and their refusals. `AnswerRefresh` and `Refreshed` are the two
ends of the GET in `refreshFromServer`; `HandleEvent` is the event handler with its coalescing
(`inFlightRefresh`, `queuedEvent`). `Open` and `Break` are the browser's `EventSource`: events
sent before it is open or while it reconnects are lost. Ghosts: `told`, the latest graph event
heard since joining, and `holes`, the ways in which a canvas can have fallen behind: `gap` (a
change that no event told of), `failed` (a GET that failed) and `late` (an answer overtaken by a
later one or by the user's going elsewhere).

Left out: error and rebase banners, drawing, what a refresh brings beside graph and version, and
the polling fallback.

### GraphEvaluation, ExecutionStream

| code | action |
|---|---|
| `execute_graph`, `execute_graph_stream` up to the walk: scope, graph-level checks | `Start` |
| the topological order (`codegen/traversal.py`) | `Advance`, `Finish` |
| one source of an IN port: `_resolve_upstream_value`, or skip, or a port lookup that raises | `Bind` |
| the hash and `cache.get` | `Lookup` |
| `_execute_node` returns, or raises | `Execute`, `Raise` |
| `cache.put`, `artifacts.put` | `CachePut`, `SaveArtifact` |
| `POST /cache/clear` | `Clear` |

What a node computes is a *term*: its configuration (type and parameters), what is bound to each
IN port, and for a definition that is not cacheable the run. A cache key is a term too, built as
`_node_hash` builds its payload: configuration and, per feed, the name of the IN port and the key
of the node behind. So an entry is right when the term stored is the term computed, and the model
needs neither values nor hashes; SHA-256 is taken to be free of collisions. A put may store and
evict any other entries, or leave a file that reads as a miss, or do nothing (`Outcomes`); both
callers suppress its exceptions. That a read fails once and succeeds the next time is left out.
Ids are numbers, since the order breaks ties by id. The ports of a node are its own in the IR, so a
graph says which IN ports of each node are required and which take many sources; nothing compares
them with those of the definition. A wire may thus come from a port that its source lists and has
no output for (`LacksPort`): the lookup raises outside the `try` of the node, and the walk is
`"broken"`.

`GraphEvaluation` is what a caller of POST /execute may take a run for: an evaluation of the graph
it sent. A node is settled once, after its sources; it has the value of its own inputs, or fails,
or is skipped behind a failure. There is no cache in it and no other run. `ImplementsEvaluation`
maps a run to it by what it has reported: the nodes of `only` without a status are open, `result`
of those done or cached is the value, the others have failed, by an error of their own or a skip.
`Start` is `Ask` and `Finish` is
`End`; `Execute` and a `Lookup` that hits are both `Evaluate`; `Raise` is a `Fail` by an error, a
`Bind` that finds no value one by a skip; all else is a stutter: a `Lookup` that misses, a `Bind`
that finds one, the
puts, `Clear`, the order's `Advance`, and a `Bind` that breaks the walk, after which the run never
ends. Runs hidden from it are those refused before the walk, and those whose scope lacks an
ancestor (`from_node_id`): these take values from earlier runs, and are no evaluation of anything.

### ExecuteSession

`Request` is the lookup of the session, `AssertNoOpenGates` the check under the store's lock,
`Estimate` the estimate against the ceiling (either outcome: the graph may be edited at any
moment), `Look`, `Scan`, `Spend` and `NoneFound` the loop of `_consume_approval` gate by gate,
`ScanRaises` the `RuntimeError` of an iteration over a dict that has grown, `Ask` the new budget
gate, `Run` all that follows. `CreateGate`, `ResolveGate` and `DeleteSession` are the routes; a
thread keeps using a session that was deleted. A session has one gate of an id, since its gates are
a dict; the id may be drawn or sent by the client, and other sessions may have a gate of it. The
spent ids are those of the process: a closed gate whose id was spent elsewhere is no approval.
Ghosts: `started` counts the runs an approval paid
for, `standing` the gates open since the request, `offered` the approvals that have stood since it
began to look.

### RunHistory, RunStore

`disk` maps each directory to its three files, a file to the save that wrote it. `SaveBegin` draws
an id, perhaps one that exists, and takes the lock; `SaveWrite` replaces one file; `SaveFails` is
the `except BaseException` with its `rmtree`; `Evict` is `_evict` and the release of the lock
(`Evicting` is where it is called),
`EvictRaises` the same where the directories cannot be listed and the save fails with its run in place;
`List`, `ListRead` and `ListAnswer` are the listing, which holds the lock only for the names;
`RecordRun` and `ExecuteAnswer` are what `_save_run_record` and its caller do with the id.
`Crash` ends the process anywhere. Ghosts: `torn`, the runs cut short by a crash or by a removal
or an eviction that failed; `saved`, the runs some save completed. A removal that fails leaves the
directory with
its run.json or without: a listing looks at nothing else, and a directory in `torn` is not claimed
to be whole.

`RunHistory` is what a caller may take the history for: a map from ids to what a save wrote, and
beside it the directories that are no run (`rest`). `ImplementsHistory` maps the store to it by the
*settled* directories, those neither cut short nor being saved. `SaveBegin` is `Draw`, which ends
the standing of an older run under the id; `Evict` is `Save`: there the whole run appears, and what
goes is no more than the cap asks for; `SaveFails` and `DeleteRun` are `Remove`. The three writes,
the listing, the answers and a crash are stutters: what a crash cuts short was no run yet. A run,
once there, is never altered (runs.py:65-71), with the exception that is its own action, `Draw`. An
id that was ever cut short is not followed any further: a later save under it is a `Save` that keeps
nothing of its own.

### QueueReaders

Two readers of a queue in one module, as they share nothing but the shape. `Subscribe`, `Check`,
`Read`, `Take`, `Timeout` and `Unsubscribe` are `await_verdict`, against a session whose proposals
are made and resolved and which may be deleted at any moment. An event names a proposal and its
verdict, and what an agent is told is what the event says. `FirstEvent` is the event that is
forced before the response is committed; `NextEvent`, `HandOver`, `WalkRaises` and `WalkEnds` are
`_bridge_to_queue` (`WalkEnds` also where a node raises what is no `Exception`, which sends no
`run_error`); `SendForChunk`, `Chunk` and `Disconnect` are `body`. `Disconnect` sets the
flag only if `body` has begun: the `finally` of a generator that never ran does not run.

## 3. The runs

States are distinct states found by TLC; every run is exhaustive within its bounds.

### Runs that pass

**edit_undo** (`MCEditUndo`, `EditUndo.cfg`; 182,967 states). *Is an edit undone by its derived
inverse?* From every structurally valid graph of two node ids, one edge id, one parameter and one
port, and every mutation over those ids: `UndoRestores`, `RedoRestores`, `InverseApplies`,
`DeletionStopsAtGroups`, `TypeOK`. Two nodes and an edge are enough for every way in which parts of
one mutation meet: a node replaced under its own id while its edge is kept, dropped or turned
around, self-loops, a group whose node is removed, a parameter set on a node that is removed and
added back. The value `bad` and the unregistered type let the contract refuse, and accept, what it
should not. For every other size all five are proved.

**session_store** (`MCSessionStore`, `SessionStore.cfg`; 456,329 states up to symmetry). *Does the
log explain the document, and does a watcher see it?* One session, two proposals, one queue that
comes and goes, three mutations (one that always applies, one that applies until it has, one that
is refused), at most three versions. `LogReplays`, `AcceptedProposalsAreInTheLog`,
`DiagnosticsStayTrue` and `RecordsAreKept` are about the document, `StreamIsGapless` and
`EventsAreTrue` about the queue, `TypeOK` about both. Three versions give an edit, a revert of it
and a revert of the revert, or a replacement between any two; two proposals give the acceptance
that makes the other one stale. Sessions share nothing, so one is enough. All are proved
without bounds (section 5).

**shared_document** (`SharedDocument.cfg`; 246,187 states). *Is an operation really one step?* Two
threads that read by GET and one tool, four versions: `ImplementsDocument` (the refinement) and
`LockIsFreed` (liveness).
With three threads one writes while another reads and a third waits for the lock; four versions
let each of them write and one of them write again.

**chat_turns** (`MCChatRunner`, `ChatTurns.cfg`; 954,624 states up to symmetry). *Do the threads
of two turns keep out of each other's way?* Two turns, one backend, messages that can be passed to
a process, any line that cannot be parsed: `OneTurnRuns`, `NoTurnIsStranded`,
`RunningTurnCanBeStopped`, `StopIsObserved`, `RegistersAreSettled`. The second turn starts as soon
as the first is resolved, while its process and its stop are still under way. A third turn adds
nothing: only the newest turn is ever looked at (session.py:896).

**chat_stops** (`MCChatRunner`, `ChatStops.cfg`; 7,494 states). *Does a turn come to an end?* One
turn, two backends and a persona, any message, under fairness: `VerdictIsFinal`,
`StopEndsProcess`, `TurnsSettle`. One turn is enough since the threads of different
turns meet only in the transcript and the registers, which are keyed by turn; narration goes to
two lines, so that one may come before and one after whatever else happens.

**session_client** (`SessionClient.cfg`; 1,291,276 states). *Is the canvas in step?* One tab, two
sessions, any of the six operations, one of them under way at a time beside a refresh; two changes
and one other event at a time: `GraphEventsAreLoaded`, `InStepAtRest`, `ShowsItsSession`,
`QueueDrains` (liveness). Two sessions are what it takes to be elsewhere; two changes
fall on both sides of any request; the coalescing queue holds one event, so that three (two
changes and a piece of news) overflow it. Calls under way together meet only through the store,
each in one handler; the theorems are for any number of them.

**execution_stream** (`MCExecutionStream`, `ExecutionStream.cfg`; 215,603 states). *Is the cache
right, and does a run stand on itself?* Two runs, each of any of seven requests: a pipeline of three
nodes in full; the same with its source edited, up to its middle, and from its middle, where a wire
from another OUT port of that source joins; one whose source is not cacheable, up to its end and the
end alone; one with a required port that nothing feeds; one with a wire from a port that its source
has no output for. The cacheable sources have two OUT ports, and the graphs read both; but nodes of
one key read the same ones (`MCKeysTellPorts`, as `KeysTellPorts` in section 5), since otherwise the
run would be swapped_ports.
`CachedIsFresh`, `ImplementsEvaluation` (the refinement; it implies `RunStandsOnItself` and
`SkipsHaveACause`, which are proved but not run), `RunsComplete` (liveness). The two run at
once or one after the other, which is what it takes for one to leave behind what another finds;
the ids are against the topological order; a join takes two sources on one port. Graphs are
given, since all that a graph adds is another chain of configurations: the theorems are for any
graphs and any number of runs.

**execute_session** (`MCExecuteSession`, `ExecuteSession.cfg`; 355,215 states up to symmetry). *What
gets past a gate,
and what pays for a run?* Two threads that serve one request after another, two sessions, two ids,
at most two gates in all, of any phase, that are opened, resolved and opened again:
`ApprovalPaysOnce`, `StandingGatesBlock`, `ApprovalIsHonoured`, `TypeOK`. Two gates in one session
make the iterated dict grow under a thread and give a search something to pass over; two gates of one
id in two sessions are the approval that is spent elsewhere; the lock is between two threads. With
`MaxGates` = 3 (3,769,299 states) TLC finds no error either. All four are proved without bounds.

**run_store** (`RunStore.cfg`; 187,706 states). *Is a run that is listed whole?* Two threads, two
ids, a cap of one: `RunsAreWhole`, `NamedRunsWereSaved`, `ImplementsHistory` (the refinement),
`SavesEnd`
(liveness). `CapIsKept` follows from the refinement and is proved but not run. Two
ids are enough for a save under a taken one and for an eviction of another; two threads for a
listing, or a deletion, beside a save; a cap of one makes every second save evict.

**queue_readers** (`QueueReaders.cfg`; 958,848 states). *Is anyone left waiting?* One agent, two
proposals and other events; one stream of up to three events: `NoVerdictIsMissed`,
`StreamIsWhole`, `PoolThreadsReturn` (liveness). Agents meet nowhere, so one is enough; the second
proposal is the verdict that must not be taken for the first; three events let the client go
before, between and after them.

### Runs that fail: what the code says of itself, and is not so

Each checks one property that a docstring or a comment states; section 6 tells the story.

| run | module, configuration | property |
|---|---|---|
| resumes_own_backend | `MCChatRunner`, `ResumesOwnBackend.cfg` | `ResumesOwnBackend` |
| swapped_ports | `MCExecutionStream`, `SwappedPorts.cfg` | `CachedIsFresh` |

### The bounds, by name

`MaxVersion` (SessionStore, SharedDocument): writes of one session. `MaxNarration` (ChatRunner):
tool calls of one turn. `MaxChanges`, `MaxNews` (SessionClient): changes of all sessions together;
other events waiting. `MaxEvents` (QueueReaders): events of one walk. Each is a guard of the action
that would go beyond it, and those of a module with proofs are arbitrary natural numbers there.
`MaxGates` (MCExecuteSession) bounds the gates of all sessions together; it is a CONSTRAINT of the
run, and the module it instantiates has no bound.
`Keep` (RunStore) is a parameter of the code. The sizes of `Runs` and `Requests`
(ExecutionStream), `Threads`, `GateIds` and `RunIds` are those of the sets in the configurations.
A run has `CHECK_DEADLOCK FALSE` where the system may
stop: every turn over, every session deleted, or the bound on versions reached.

## 4. Fairness

Only the liveness properties assume any; every other property holds without.

* `SharedDocument!Fairness`: weak fairness of each statement a thread executes *inside* the lock.
  Nothing there waits: no I/O, and the publication is a `put` on an unbounded queue. Nothing is
  assumed of threads outside the lock, of which clients come, or of who is granted the lock.
* `ChatRunner!FairSpec`: weak fairness of the request that starts a turn, its background thread
  and the request that stops it, i.e. the operating system runs the server's threads; and of the
  exit of a process that was sent SIGKILL. A process that was not killed need never end or write
  anything: `TurnsSettle` therefore speaks of turns without a running process only, and
  `StopEndsProcess` has to go through the timeout and the kill (chat_runner.py:416).
* `SessionClient!FairSpec`: a GET is answered or fails, and the browser runs the handler that
  waits for it. No event, and no call of the user, needs to arrive.
* `ExecutionStream!FairSpec`: the thread that serves a request keeps running; a node, once begun,
  returns or raises. A node that computes for ever is outside of `RunsComplete`.
* `RunStore!FairSpec`: a thread inside an operation of the store keeps running. Nothing is assumed
  of who gets the lock.
* `QueueReaders!FairReadersSpec`: the walking thread keeps running, and a thread of the pool takes a
  frame
  that is there. Nothing is assumed of clients, agents or sessions.

## 5. What is proved

Eight modules, about 8500 obligations. The assumptions are the named `ASSUME`s of the modules, which
the runs evaluate: `None` is not an element of the sets it is added to, bounds are natural
numbers, node ids are numbers of which there are finitely many, the graphs, mutations and requests
the instances draw from are what their names say. None is about sizes: every theorem is for any
number of nodes, sessions, threads, turns, calls, runs, gates.

**EditUndoProofs.** `InverseRestores`: for *every* graph and mutation for
which the inverse can be derived and both apply, undoing gives the graph back, up to the cascade
of nodes that stood at the default position. It goes entry by entry: the lemma `UpdateUndone` says
that an update of a dict is undone by writing back what it replaced, `ParamsRestored` says the
same of a node's parameters, and a case distinction on whether the id was removed, added, replaced or
updated does the rest. `UndoInv` ties the graph of each phase to the origin; from it
`EditTypeCorrect`, `UndoIsExact` and `RedoIsExact` follow. `InversesApply` goes through the guards
of `CanApply` one by one for the derived inverse. `DeletionAccepted` says exactly when the mutation of
`delete_node` applies: its removal of every incident edge keeps the graph valid (`DeletionApplies`),
unless another node is grouped under the deleted one, which the validator refuses (`DeletionStops`).
The module opens with
the types of the operators of `GraphMutation`, as `SessionStoreProofs` does: a store is not the
state of `EditUndo`, so neither can extend the other.

**SessionStoreProofs.** An action touches the document of one session; `SessionStep(t)` lists what
a step may do to session t (nothing, create, delete, write with a record, write without, decide a
proposal, add one), and `StepsAreSessionSteps` reduces every action to it once. Each invariant is
then preserved by cases on that list: `SoundGraphs`; `LogsReplay`, which is inductive together
with the types, since a write puts the new checkpoint at the end with the version that the last
one led to; `AcceptedAreLogged`, on top of it; `VerdictsStayTrue`; `RecordsKept`, an action
property. Proposals, checkpoints and versions are unbounded. `StreamGapless` and `EventsTrue` do
the same for a watcher: `StreamStep(t, q)` lists what a step may do to a queue of session t
(nothing, subscribe, unsubscribe, deliver, publish a version or something else), and the queue's
graph events are shown to be the versions after the one the watcher knows of, up to the current
one.

**SharedDocumentProofs.** `RefinesDocument`: `Spec => ImplementsDocument` for any set of `Tools`.
The mapping gives the abstract document the version of the concrete one, plus one while a thread
stands between setting the graph and bumping the version: the write takes effect when the graph is
set. The inductive invariant is `TypeOK` (at most one thread inside the lock) with `Agreement`:
the graph in place has the mapped number, what a thread has read is no newer than what there is,
and a thread about to write conditionally has the current version. `StaleOnlyThroughTools`:
without readers in two steps (`Tools = {}`) a conditional write replaces exactly the graph it was
computed from; so the stale write of section 6 is due to those readers alone. `ReadBack`: whoever
is told of a version reads it or a later one.

**ChatRunnerProofs.** `ChatInv` = `TypeOK`, `OneTurnRuns`, `Stages`, `Heard`. `Stages` says for
each turn what its process, its registers and its verdict are at every place of its threads;
`Heard` follows what a stop found until someone has acted on it. Theorems: `TypeCorrect`,
`OneTurnAtATime`, `AlwaysStoppable`, `StopsAreObserved`, `VerdictsAreFinal`; and, for messages
that can be passed to a process (`ASSUME Encodable`), `NeverStranded` and `NothingIsLeftBehind`.
Without the assumption they do not hold (section 6).

**SessionClientProofs.** `ClientInv` = `TypeOK`, `Reached`, `ShowsItsSession`, `Told`, `OnItsWay`:
nobody has seen a version its session has not reached; nobody was told of one; and the graph last
told of is on the canvas, or queued to be fetched, or being fetched by a GET that will be answered
with nothing older. Theorems: `TypeCorrect`, `ShowsOwnSession`, `HeardIsLoaded`.

`InStep` (`InStepAtRest`) takes a second layer on top, `RestInv`. `ClientInv` says that the canvas
shows what it was told of or something later; that this is the *current* graph is due to
`NothingIsMissed`: without a hole the last graph event on its way tells of the current version, and
when none is on its way the canvas was told of that version, or shows it without having been told
(its own push). Only the *last* graph event on its way matters: those before it may tell of any
version. That the version held is the current one
is `VersionIsHeld`, canvas ≤ held ≤ current, closed at rest by the two equal ends; and since a push
takes the version it is answered with, it needs `AnswersAreLater`. The three holes are exactly the
hypotheses under which the steps hold: a change in the `gap` breaks `NothingIsMissed`, an answer
that is `late` breaks `VersionIsHeld`, a GET that `failed` breaks `OnItsWay`.

**ExecutionStreamProofs.** The invariant ties each walk to its request: the nodes passed are closed
under sources, what is bound so far is what the feeds name, and a hash that is defined is the term
of the node's configuration over the hashes of all of its feeds. The hash of a node is not its
output: it leaves out the OUT ports. That equal hashes are equal outputs, in whatever runs
(`KeysNameOutputs`), takes a history, since an entry of the cache may come from a node that has
been executed again, or from a graph that is no more. Instead of a variable that the code does not
have, the invariant says that there are *books*: a set of triples of a node of some request, its key
and its output, such that each is made from triples in it (`Grounded`), no key has two outputs
(`Unique`), and all that a run or the cache holds is in it (`Booked`). An execution adds a triple to
the books (`BooksGrow`); a hit finds there what the node would compute (`HitIsOutput`). That `Unique`
is kept is where the OUT ports matter: two triples of one key come from nodes of one configuration
over the same keys, so over the same outputs, and they must have been fed through the same ports.

That is the assumption of these theorems, `KeysTellPorts`: nodes that the cache cannot tell apart
read the same OUT ports. It says nothing of how many ports a source has: the split of train and test,
and any graph that wires it in one way, satisfy it. *Cannot tell apart* (`OneKey`) is read off the
requests alone, as the largest relation between nodes that are cacheable, configured alike and fed on
the same IN ports by nodes in it; that two nodes with one key in the books are in it is the lemma
`BooksMatch`. What fails it is a pair of graphs, or of nodes in one graph, that differ in nothing but
the ports some wire comes from: swapped_ports, where the code is wrong. Only cacheable nodes are
constrained, because the None rule of `_node_hash` leaves every node behind another without a key.
`CachedFresh` and, for
scopes that hold all ancestors, `StandsOnItself` follow. `SkipsCaused` and `EndsWhole` (a run that
has ended has a status for every node of its scope) need no such assumption, only that the order
passes sources first, passes all nodes, and that `Ancestors` is closed under them. The assumption is
needed, as swapped_ports shows; without it the lemma `OneOutput` fails, without the None rule
`KeyIsMade`.

`RefinesEvaluation` goes step by step. Three kinds of step reach the abstract run: one that gives
a node a result (`SettleRefines`), one that leaves it without (`FailRefines`), and one that touches
no visible run (`OthersAlike`). That `Execute` is an `Evaluate` is `InputsAreResults`: what has been
bound is, feed by feed, the result of this run. That a hit is one too is the whole argument of the
cache: what lies under the key is the term over the results, by the books, so only here
`KeysTellPorts` is used. That a skip is a `Fail` with a cause is that the order has passed every
source, so that one
which has no result has failed in this run.

**ExecuteSessionProofs.** The invariant says who holds the lock of the approvals, that every
approval which has stood since a search began lies ahead of its cursor, that one in hand is unspent
and one that is spent has paid for one run. Gates are stored in place or appended, so what lies
ahead stays ahead; at the end of the dict there is nothing ahead. That ids are unique is said of each
session alone. Theorems: `TypeCorrect`,
`ApprovalPaidOnce`, `StandingBlock`, `Honoured`.

**ServerThreadsProofs.** Two models that share no state, in one module that extends both; hence the
names `ReadersInit`, `ReadersNext` and `ReadersSpec` of `QueueReaders`, and `Nothing` for the
`None` of its code.

*Run history.* `RunsAreWhole` and `CapIsKept` speak of the moments at which the lock is free, and
both are false in between: `save` makes the directory first, fills it file by file and evicts last.
`RunInv` divides the directories into those cut short (`torn`), the one *in hand*, which the lock
holder is filling, and the *settled* ones. `Progress` says which files of the run in hand are the
holder's, by how far it has come; the settled ones are whole, saved by someone and at most `Keep`.
A save that fails removes what is in hand or tears it, so the settled ones stay as they were; one
that succeeds settles it with three files of its own, in the step that evicts down to `Keep`; one
whose eviction raises leaves its run among those cut short, as a crash would. A run
that is replaced (an id drawn twice) leaves the settled ones when the save begins.
`NamedRunsWereSaved` follows a listing, which holds
the lock for the names alone: what it has yet to read was saved or cut short, and a run is deleted,
not un-saved. Theorems, for any number of threads, ids and `Keep`: `RunsWhole`, `CapKept`,
`NamedSaved`, and `RefinesHistory`: `Spec => ImplementsHistory`. The refinement takes `RunInv` before
and after each step. `HistoryDraws`, `HistoryRemoves` and `HistorySaves` are the three steps that
reach the map, `HistoryWaits` the rest. That a save puts a whole run there is `Progress` at its
last file; that no more goes than the cap asks for is that `_evict` stops at `Keep` directories,
of whichever kind, and that what it fails to remove stays a directory.

*Queues.* `NoVerdictIsMissed` is inductive with `Asking` (from its subscription on an agent is
registered, unless the session is gone, and from its first look on the proposal exists),
`EventsAreVerdicts` (an event in a queue names the verdict its proposal has) and `ToldIsFinal` (an
agent is
not told that its proposal is open). `StreamIsWhole` needs `QueueIsInOrder`: what the
client has got, followed by what is in the queue behind it, is 1, 2, … up to the last event made,
with a `Failure` at the end if the walk broke off; `LateIsBounded`: the walk has passed its last
look at the flag at most once since it was set; and `ClientIsServed`: a client that is still there
has not set the flag and waits with one thread at most. The lemmas `CarriesMore`, `CarriesNext`,
`CarriesOver` and `CarriesAll` say of such a queue what putting frames on it, the next event, a
delivery, and the frame that ends the response do to it. Theorems: `NoneIsMissed`, `StreamWhole`,
for any number of agents
and proposals and any length of the walk.

## 6. Where the code departs from what it says

Found while the models were written. Two are runs that fail, with a trace:

1. **A conversation of the other backend** (bug; chat_runner.py:226; `ResumesOwnBackend`).
   `end_chat` does not interrupt the turn under way, whose reader stores its thread id afterwards;
   the next turn of another backend resumes it.
2. **Outputs of the old wiring** (bug; service.py:404; `CachedIsFresh` under `SwappedPorts.cfg`). A
   cache key names for each feed the IN port and the hash of the node behind, but not the OUT port
   of that node. Two wires from the two OUT ports of one source, swapped between two runs, leave
   the key as it was, and the node is served what it computed with the old wiring, although
   service.py:423-425 says that it "produces a different key".

The others are told by the models without a run of their own; each is where a property stops or a
theorem needs an assumption:

3. **A tool writes over a graph it never read** (collab/mcp.py:874). `connect_ports` reads
   `session.graph`, then `session.version`. A write in between makes the old graph look current,
   and the edit computed from it passes the check that session.py:161-164 calls "never silently
   applied". `StaleOnlyThroughTools` is `NeverSilentlyStale` without such readers, and
   `VersionedDocument` has its careless authors for them.
4. **A stop finds nothing** (chat_runner.py:333). The turn is published before its stop event is
   registered (385). A stop in between marks the turn interrupted, and the process is spawned and
   runs to its end, which the comment at 380-382 excludes. `StopIsObserved` is therefore about
   stops that found an entry.
5. **A turn stays running for ever** (chat_runner.py:276). `Popen` raises `ValueError` for a null
   character, or half of a surrogate pair, in the prompt; only `OSError` is caught. This is the
   constant `Encodable`, which `NeverStranded` assumes.
6. **A process without a reader** (chat_runner.py:228). The session is deleted while the agent
   narrates: `append_chat_narration` raises in the reader (`ReadRaises`), which settles the
   registers and leaves the process running, which nobody can stop.
7. **A push overwrites a change the canvas never showed** (sessionStore.ts:161). Every refresh
   takes the server's version, but only graph events load the graph. A change between the GET of
   `join` and the opening of the stream is heard of by nobody; any other event then makes the old
   graph look current, and the next push passes the check. `InStepAtRest` excepts it as the hole
   `gap`.

Smaller ones:

* an inverse may be *refused* although it can be derived: the contract is checked only where
  parameters are set (mutation.py:198), so a value that a graph was loaded with and that its
  contract refuses cannot be restored, although mutation.py:224-225 promises an equivalent graph.
  `InverseApplies` is about graphs that keep their contracts;
* a removed node that stood at (0, 0) is taken to have no position and is moved when it is added
  back (`UndoRestores`);
* `delete_node` takes the incident edges along (mcp.py:930) but leaves the nodes grouped under the
  deleted one as they are, so that the validator refuses its mutation for a node that others name as
  their group (`DeletionStopsAtGroups`);
* a wire from an OUT port that its source's definition has no output for raises `KeyError` outside
  the `try` of the node (service.py:497) and ends the run, where a value that is missing is otherwise
  reported as a skip (service.py:487-488; `RunsComplete` leaves it aside);
* session.py:159-161 says that the version is bumped by replacements and accepted proposals and
  "never on any other operation"; direct edits and reverts bump it too;
* a checkpoint of an edit without inverse (it set a parameter that the node lacked) cannot be
  reverted (session.py:521), although checkpoints.py:4-9 calls every agent edit reversible;
* the canvas takes the version a push is answered with; the answer is built outside the lock and
  may carry the version of a later change, whose graph the canvas then has not loaded until its
  event is heard (the hole `late`);
* a client that goes away before the body of its stream begins leaves the walk to run to its end
  for nobody, although app.py:432-435 promises the contrary (`Disconnect`; `StreamIsWhole` is
  about responses that have begun);
* two saves in one second may draw one run id, of four hexadecimal digits: the second replaces the
  files of the first, although runs.py:65-71 says that entries are never modified (`SaveBegin`).

## 7. What is only model-checked, and what is not modelled

*Only checked by TLC*, on the instances of section 3:

* liveness (`LockIsFreed`, `StopEndsProcess`, `TurnsSettle`, `QueueDrains`, `RunsComplete`,
  `SavesEnd`, `PoolThreadsReturn`): fairness and `ENABLED` are out of reach of the proofs;
* the two runs that fail: a violation is a trace, and their properties are no theorems.

Every invariant and every safety property of a passing run is a theorem of section 5, some of them
under an assumption that is named there.

*Abstracted* inside the models: positions but for "default or not"; the text of prompts, replies,
descriptions and diagnostics; ids, which are given once; the time that timeouts take (a timeout
may strike at any moment while it is armed); FastAPI's parsing and its error codes (a refused call
is no step).

*Not modelled*: the components of `PROJECT.json` with status `not_modelled`. They are of four
kinds:

* records beside the document (reviews, tours, attempts; decisions on a gate): appended or replaced
  in one step under the store's lock and read back as they are;
* sequential code whose state one thread owns: the canvas's undo stack, the budget counter of an
  LLM client, flows and reports (one file, replaced in one step);
* pure conversions: generated code, migration and serialization, port types, prompts, parsing,
  rendering. A model of them would be a copy;
* numeric library wrappers (the node catalogue, evaluation, research; most of the lines of the
  repository) and I/O behind injected clients: no state or order that a model could vary.

*Left out inside* what is modelled: two parameters of one name in the list of a node, which only a
graph or a node made by hand has (node.py:81); a `thread.start()` that raises `RuntimeError` because
the system has
no more threads, which would leave a turn published with its stop entry (chat_runner.py:392); an agent
process whose output ends before or after it does, as when a child keeps the pipe open (`ReadEnd`).
`Dump` takes the GET's `model_dump` for one step: the models of a session have no serializers written
in Python, so that the dump is one call of pydantic-core, which keeps the interpreter lock.

Of components that are *partly* modelled the notes in `PROJECT.json` say which part.

## 8. The plan

The order followed what matters most: the document that everybody shares, then those who share it,
then what is run on it. Done:

1. `GraphMutation`, `EditUndo`: undo proved for every graph and mutation
2. `SessionStore`: the log, proposals, records and the watchers' streams proved
3. `SharedDocument` refines `VersionedDocument`: proved
4. `ChatRunner`: safety proved
5. `SessionClient`: safety proved
6. `ExecuteSession`: proved
7. `ExecutionStream`: proved, where nodes of one cache key read the same OUT ports (`KeysTellPorts`),
   with its refinement of `GraphEvaluation`
8. `RunStore`, `QueueReaders`: safety proved, with the refinement of `RunHistory`

What would come next, in this order: a model of the whole path of a run, `ExecuteSession` with
`ExecutionStream` and
`RunStore` composed, for what a watcher may conclude from `run_completed`; the canvas's execution
status against the frames of a stream; and, if the key of the cache comes to name OUT ports, the
theorems of `ExecutionStreamProofs` without their assumption.
