---------------------------- MODULE SharedDocument ----------------------------
(***************************************************************************)
(* The store of SessionStore.tla with its lock opened: one session, and    *)
(* the worker threads of the server that read and write it statement by    *)
(* statement (collab/session.py, server/app.py, collab/mcp.py).            *)
(*                                                                         *)
(* Writers hold the store's lock.  Readers hold it only while they look    *)
(* the session up: the GET route then serializes the live object in one    *)
(* call that does not yield the interpreter, and a tool of the MCP server  *)
(* or a consult loads its graph and its version one after the other.       *)
(*                                                                         *)
(* The graph is reduced to its revision, a number no two graphs share.     *)
(***************************************************************************)
EXTENDS Naturals, Sequences, FiniteSets

CONSTANTS
  Threads,     \* worker threads
  Tools,       \* those that serve a tool or a consult, which read in two steps
  NoThread,    \* the holder of a free lock
  MaxVersion   \* bound on the number of writes

ASSUME ThreadAssumption == NoThread \notin Threads
ASSUME ToolsAssumption == Tools \subseteq Threads
ASSUME BoundAssumption == MaxVersion \in Nat

VARIABLES
  lock,     \* SessionStore._lock
  rev,      \* session.graph
  version,  \* session.version
  events,   \* versions published to the one watcher and not read by it yet
  heard,    \* the version in the last event it read
  pc, op,   \* where each thread is, and in which operation
  got       \* the graph and the version its operation was computed from

vars == <<lock, rev, version, events, heard, pc, op, got>>

Init == /\ lock = NoThread
        /\ rev = 0 /\ version = 0
        /\ events = <<>> /\ heard = 0
        /\ pc = [t \in Threads |-> "idle"]
        /\ op = [t \in Threads |-> "none"]
        /\ got = [t \in Threads |-> [rev |-> 0, version |-> 0]]

Goto(t, label) == pc' = [pc EXCEPT ![t] = label]

\* A request arrives; a revert names a checkpoint and reads nothing first.
\* Bound: the operations under way could all write.
Begin(t) == /\ pc[t] = "idle"
            /\ rev + Cardinality({k \in Threads : pc[k] # "idle"}) < MaxVersion
            /\ \/ op' = [op EXCEPT ![t] = "edit"] /\ Goto(t, "lookup")
               \/ op' = [op EXCEPT ![t] = "revert"] /\ Goto(t, "request")
            /\ UNCHANGED <<lock, rev, version, events, heard, got>>

\* SessionStore.get: the lock is held for the dictionary lookup only.
Lookup(t) == /\ pc[t] = "lookup"
             /\ lock = NoThread
             /\ Goto(t, IF t \in Tools THEN "loadGraph" ELSE "dump")
             /\ UNCHANGED <<lock, rev, version, events, heard, op, got>>

\* The GET route: session.model_dump(), one call of pydantic-core that runs no
\* Python between the fields and keeps the interpreter lock.
Dump(t) == /\ pc[t] = "dump"
           /\ got' = [got EXCEPT ![t] = [rev |-> rev, version |-> version]]
           /\ Goto(t, "request")
           /\ UNCHANGED <<lock, rev, version, events, heard, op>>

\* A tool: graph = session.graph, and later base_version=session.version.
LoadGraph(t) == /\ pc[t] = "loadGraph"
                /\ got' = [got EXCEPT ![t].rev = rev]
                /\ Goto(t, "loadVersion")
                /\ UNCHANGED <<lock, rev, version, events, heard, op>>

LoadVersion(t) == /\ pc[t] = "loadVersion"
                  /\ got' = [got EXCEPT ![t].version = version]
                  /\ Goto(t, "request")
                  /\ UNCHANGED <<lock, rev, version, events, heard, op>>

\* Variant: a request that was computed against an older version is let in.
AcceptsAnyVersion(t) == TRUE

\* The staleness check; a revert makes none.
IsCurrent(t) == op[t] = "revert" \/ got[t].version = version

Acquire(t) == /\ pc[t] = "request"
              /\ lock = NoThread
              /\ lock' = t
              /\ Goto(t, "check")
              /\ UNCHANGED <<rev, version, events, heard, op, got>>

\* Variant: StaleVersionError leaves the lock held.
CheckKeepingLock(t) ==
  /\ pc[t] = "check"
  /\ Goto(t, IF IsCurrent(t) THEN "setGraph" ELSE "idle")
  /\ UNCHANGED <<lock, rev, version, events, heard, op, got>>

\* StaleVersionError leaves the with block, which frees the lock.
Check(t) == /\ pc[t] = "check"
            /\ IF IsCurrent(t)
               THEN Goto(t, "setGraph") /\ UNCHANGED lock
               ELSE Goto(t, "idle") /\ lock' = NoThread
            /\ UNCHANGED <<rev, version, events, heard, op, got>>

SetGraph(t) == /\ pc[t] = "setGraph"
               /\ rev' = rev + 1
               /\ Goto(t, "bump")
               /\ UNCHANGED <<lock, version, events, heard, op, got>>

Bump(t) == /\ pc[t] = "bump"
           /\ version' = version + 1
           /\ Goto(t, "publish")
           /\ UNCHANGED <<lock, rev, events, heard, op, got>>

\* _publish, the last statement under the lock.
PublishAndRelease(t) == /\ pc[t] = "publish"
                        /\ events' = Append(events, version)
                        /\ lock' = NoThread
                        /\ Goto(t, "idle")
                        /\ UNCHANGED <<rev, version, heard, op, got>>

\* The watcher of the session's events takes one off its queue.
Hear == /\ events # <<>>
        /\ heard' = Head(events)
        /\ events' = Tail(events)
        /\ UNCHANGED <<lock, rev, version, pc, op, got>>

Step(t) == \/ Begin(t) \/ Lookup(t) \/ Dump(t) \/ LoadGraph(t) \/ LoadVersion(t)
           \/ Acquire(t) \/ Check(t) \/ SetGraph(t) \/ Bump(t) \/ PublishAndRelease(t)

Next == Hear \/ \E t \in Threads : Step(t)

Spec == Init /\ [][Next]_vars

\* A thread inside the lock goes on: nothing it does there waits.
Fairness == \A t \in Threads : /\ WF_vars(Check(t)) /\ WF_vars(SetGraph(t)) /\ WF_vars(Bump(t))
                               /\ WF_vars(PublishAndRelease(t))

FairSpec == Spec /\ Fairness

----------------------------------------------------------------------------
Locked == {"check", "setGraph", "bump", "publish"}

\* The types; the lock is held by the one thread that is inside it.
TypeOK == /\ lock \in Threads \cup {NoThread}
          /\ rev \in Nat /\ version \in Nat /\ heard \in Nat
          /\ events \in Seq(Nat)
          /\ pc \in [Threads -> Locked \cup {"idle", "lookup", "dump", "loadGraph",
                                            "loadVersion", "request"}]
          /\ op \in [Threads -> {"none", "edit", "revert"}]
          /\ got \in [Threads -> [rev : Nat, version : Nat]]
          /\ \A t \in Threads : pc[t] \in Locked <=> lock = t

\* Clients that read with one GET and write with the version it gave them use
\* the document as VersionedDocument promises, although the GET holds no lock
\* and may see the graph of a write that has not bumped the version yet: the
\* write bumps the version last, so no version is read with an older graph.
\* Tools are the careless clients: they cannot spoil that for the others.
Document == INSTANCE VersionedDocument WITH
  version <- IF \E t \in Threads : pc[t] = "bump" THEN version + 1 ELSE version,
  Careless <- Tools,
  restoring <- {t \in Threads : op[t] = "revert" /\ pc[t] \in {"request", "check", "setGraph"}}

ImplementsDocument == Document!Spec

\* session.py:267-270: a watcher that hears of a version can read it back.
EventsReadBack == /\ heard <= version
                  /\ \A i \in DOMAIN events : events[i] <= version
                  /\ \A i, j \in DOMAIN events : i < j => events[i] < events[j]

\* Whatever a request meets, the store's one lock is free again: no request,
\* refused or not, blocks every session of the server.
LockIsFreed == []<>(lock = NoThread)

\* GraphSession's docstring (session.py:161-164): a mismatch between the version
\* a mutation was computed against and the current one is never silently
\* applied; so a conditional write replaces the graph it was computed from.
NeverSilentlyStale ==
  \A t \in Threads : pc[t] = "setGraph" /\ op[t] = "edit" => got[t].rev = rev

=============================================================================
