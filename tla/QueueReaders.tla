----------------------------- MODULE QueueReaders -----------------------------
(***************************************************************************)
(* Two readers that wait on a queue.SimpleQueue another thread fills.      *)
(*                                                                         *)
(* Agents wait for the verdict on a proposal (await_verdict, collab/       *)
(* mcp.py): they subscribe to the session's events, look at the proposal,  *)
(* and read events until one names it, or their time is up.                *)
(*                                                                         *)
(* A client runs a graph and is told of each node as it is done (POST      *)
(* /execute/stream, server/app.py): a thread of its own walks the graph    *)
(* and fills a queue; for each chunk of the response a thread of the pool  *)
(* waits on that queue.  The client may go away at any moment, which the   *)
(* walk learns from a flag, and the waiting thread only from the queue.    *)
(*                                                                         *)
(* An event says how a proposal was resolved, or is Noise, of another kind.*)
(* A frame is the number of its event, Failure for a final run_error.      *)
(* The names Readers... and Nothing leave Init, Spec and None to RunStore, *)
(* beside which the theorems are proved (ServerThreadsProofs).             *)
(***************************************************************************)
EXTENDS Naturals, Sequences, FiniteSets

CONSTANTS
  Agents, Proposals,
  Noise,       \* an event that is no verdict
  Failure,
  MaxEvents,   \* bound: how many events a walk has at most
  Nothing      \* None: no answer, and in a queue its end

ASSUME BoundAssumption == MaxEvents \in Nat
Verdicts == {"accepted", "rejected"}
Event == [of : Proposals, is : Verdicts] \cup {Noise}

ASSUME NamesAssumption == /\ Noise \notin [of : Proposals, is : Verdicts] /\ Failure \notin Nat
                          /\ Nothing \notin Proposals \cup Nat \cup {Failure} \cup Verdicts

VARIABLES
  live,       \* the session is in the store
  verdict,    \* status of each proposal, "absent" before it is made
  subscribed, \* the agents whose queues are registered
  inbox,      \* their queues
  agent,      \* where each is in await_verdict
  asked,      \* the proposal it asks for
  told,       \* what it is told of it
  walk,       \* the thread that walks the graph
  made, frames, cancel, \* events made, the queue, the flag
  client,     \* the response: its generator, and the client behind it
  waiting,    \* threads of the pool that wait for a chunk
  received,   \* ghost: what the client got
  late        \* ghost: events made since the flag was set

mail == <<live, verdict, subscribed, inbox, agent, asked, told>>
stream == <<walk, made, frames, cancel, client, waiting, received, late>>
readersVars == <<mail, stream>>

Statuses == {"absent", "pending", "accepted", "rejected"}

ReadersInit ==
  /\ live = TRUE /\ verdict = [p \in Proposals |-> "absent"]
  /\ subscribed = {} /\ inbox = [a \in Agents |-> <<>>]
  /\ agent = [a \in Agents |-> "idle"]
  /\ asked = [a \in Agents |-> Nothing] /\ told = [a \in Agents |-> Nothing]
  /\ walk = "idle" /\ made = 0 /\ frames = <<>> /\ cancel = FALSE
  /\ client = "idle" /\ waiting = 0 /\ received = <<>> /\ late = 0

-----------------------------------------------------------------------------
\* The session (session.py): each method is one step under the store's lock.

Publish(event) == inbox' = [a \in Agents |-> IF a \in subscribed THEN Append(inbox[a], event)
                                                                 ELSE inbox[a]]

Propose(p) == /\ live /\ verdict[p] = "absent" /\ verdict' = [verdict EXCEPT ![p] = "pending"]
              /\ Publish(Noise)
              /\ UNCHANGED <<live, subscribed, agent, asked, told, stream>>

Resolve(p, v) == /\ live /\ verdict[p] = "pending" /\ verdict' = [verdict EXCEPT ![p] = v]
                 /\ Publish([of |-> p, is |-> v])
                 /\ UNCHANGED <<live, subscribed, agent, asked, told, stream>>

\* delete: the subscribers are dropped and hear no more.
DeleteSession == /\ live /\ live' = FALSE /\ subscribed' = {}
                 /\ UNCHANGED <<verdict, inbox, agent, asked, told, stream>>

-----------------------------------------------------------------------------
\* await_verdict.

AgentTo(a, s) == agent' = [agent EXCEPT ![a] = s]

\* Variant: the queue is registered only when the proposal has been found pending
\* and there is something to wait for.
LateSubscribe(a, p) ==
  /\ live /\ UNCHANGED <<live, verdict, inbox, told, stream>>
  /\ \/ /\ agent[a] = "idle" /\ AgentTo(a, "check")
        /\ asked' = [asked EXCEPT ![a] = p] /\ UNCHANGED subscribed
     \/ /\ agent[a] = "wait" /\ asked[a] = p /\ a \notin subscribed
        /\ subscribed' = subscribed \cup {a} /\ UNCHANGED <<agent, asked>>

Subscribe(a, p) == /\ agent[a] = "idle" /\ live
                   /\ subscribed' = subscribed \cup {a}
                   /\ asked' = [asked EXCEPT ![a] = p] /\ AgentTo(a, "check")
                   /\ UNCHANGED <<live, verdict, inbox, told, stream>>

\* The first look: UnknownSessionError, UnknownProposalError, or it is there.
Check(a) == /\ agent[a] = "check"
            /\ AgentTo(a, IF live /\ verdict[asked[a]] # "absent" THEN "read" ELSE "leave")
            /\ UNCHANGED <<live, verdict, subscribed, inbox, asked, told, stream>>

\* The second: store.get once more, and the status.
Read(a) == /\ agent[a] = "read"
           /\ IF live /\ verdict[asked[a]] = "pending"
              THEN AgentTo(a, "wait") /\ UNCHANGED told
              ELSE /\ AgentTo(a, "leave")
                   /\ told' = [told EXCEPT ![a] = IF live THEN verdict[asked[a]] ELSE Nothing]
           /\ UNCHANGED <<live, verdict, subscribed, inbox, asked, stream>>

\* An event of the queue: if it resolves the proposal, the verdict it names.
Take(a) == /\ agent[a] = "wait" /\ inbox[a] # <<>>
           /\ inbox' = [inbox EXCEPT ![a] = Tail(@)]
           /\ LET event == Head(inbox[a]) IN
              IF event # Noise /\ event.of = asked[a]
              THEN AgentTo(a, "leave") /\ told' = [told EXCEPT ![a] = event.is]
              ELSE UNCHANGED <<agent, told>>
           /\ UNCHANGED <<live, verdict, subscribed, asked, stream>>

\* The deadline, looked at between two reads.
Timeout(a) == /\ agent[a] = "wait"
              /\ AgentTo(a, "leave") /\ told' = [told EXCEPT ![a] = "timeout"]
              /\ UNCHANGED <<live, verdict, subscribed, inbox, asked, stream>>

\* finally: unsubscribe.
Unsubscribe(a) == /\ agent[a] = "leave" /\ AgentTo(a, "done")
                  /\ subscribed' = subscribed \ {a}
                  /\ UNCHANGED <<live, verdict, inbox, asked, told, stream>>

-----------------------------------------------------------------------------
\* The execute stream.

\* The first event is forced before anything is sent: it is an error, the end of
\* a walk without events, or event 1, and then the walk has a thread.
FirstEvent ==
  /\ client = "idle"
  /\ \/ client' = "refused" /\ UNCHANGED <<walk, made, frames>>
     \/ client' = "committed" /\ walk' = "walk" /\ UNCHANGED <<made, frames>>
     \/ client' = "committed" /\ walk' = "walk" /\ made' = 1 /\ frames' = <<1>>
  /\ UNCHANGED <<mail, cancel, waiting, received, late>>

\* The generator yields its next event.
NextEvent == /\ walk = "walk" /\ made \in 1 .. MaxEvents - 1
             /\ made' = made + 1 /\ walk' = "check"
             /\ late' = IF cancel THEN late + 1 ELSE late
             /\ UNCHANGED <<mail, frames, cancel, client, waiting, received>>

\* Variant: a walk that is called off leaves the queue as it is.
HandOverSilently ==
  /\ walk = "check"
  /\ IF cancel THEN walk' = "over" /\ UNCHANGED frames
               ELSE walk' = "walk" /\ frames' = Append(frames, made)
  /\ UNCHANGED <<mail, made, cancel, client, waiting, received, late>>

\* Variant: the flag is not looked at.
HandOverAlways ==
  /\ walk = "check"
  /\ walk' = "walk" /\ frames' = Append(frames, made)
  /\ UNCHANGED <<mail, made, cancel, client, waiting, received, late>>

\* The flag is looked at, then the frame goes on the queue; or the walk is
\* closed and None put as the last.
HandOver ==
  /\ walk = "check"
  /\ IF cancel THEN walk' = "over" /\ frames' = Append(frames, Nothing)
               ELSE walk' = "walk" /\ frames' = Append(frames, made)
  /\ UNCHANGED <<mail, made, cancel, client, waiting, received, late>>

\* The walk raises, or the frame cannot be made: a last run_error.
WalkRaises == /\ walk \in {"walk", "check"} /\ made > 0 /\ walk' = "over"
              /\ frames' = frames \o <<Failure, Nothing>>
              /\ UNCHANGED <<mail, made, cancel, client, waiting, received, late>>

\* There are no more events; or the walk raises what is no Exception, the exit a
\* node asks for, and the client is told as little.
WalkEnds == /\ walk = "walk" /\ walk' = "over"
            /\ frames' = Append(frames, Nothing)
            /\ UNCHANGED <<mail, made, cancel, client, waiting, received, late>>

\* body: a thread of the pool is sent for the next chunk.
SendForChunk == /\ client \in {"committed", "streaming"}
                /\ client' = "reading" /\ waiting' = waiting + 1
                /\ UNCHANGED <<mail, walk, made, frames, cancel, received, late>>

\* It comes back with one: the client's, or the last, or nobody's any more.
Chunk == /\ waiting > 0 /\ frames # <<>>
         /\ frames' = Tail(frames) /\ waiting' = waiting - 1
         /\ IF client # "reading" THEN UNCHANGED <<client, cancel, received>>
            ELSE IF Head(frames) = Nothing
            THEN client' = "closed" /\ cancel' = TRUE /\ UNCHANGED received
            ELSE client' = "streaming" /\ received' = Append(received, Head(frames))
                 /\ UNCHANGED cancel
         /\ UNCHANGED <<mail, walk, made, late>>

\* The client goes away.  The generator's finally sets the flag, if it has begun.
Disconnect == /\ client \in {"committed", "streaming", "reading"}
              /\ cancel' = (client # "committed")
              /\ client' = "gone"
              /\ UNCHANGED <<mail, walk, made, frames, waiting, received, late>>

-----------------------------------------------------------------------------
Agent(a) == Check(a) \/ Read(a) \/ Take(a) \/ Timeout(a) \/ Unsubscribe(a)
Walk == NextEvent \/ HandOver \/ WalkRaises \/ WalkEnds

ReadersNext ==
  \/ \E p \in Proposals : Propose(p) \/ \E v \in Verdicts : Resolve(p, v)
  \/ DeleteSession
  \/ \E a \in Agents : (\E p \in Proposals : Subscribe(a, p)) \/ Agent(a)
  \/ FirstEvent \/ Walk \/ SendForChunk \/ Chunk \/ Disconnect

ReadersSpec == ReadersInit /\ [][ReadersNext]_readersVars

\* The walking thread and a thread of the pool that finds a frame keep running.
FairReadersSpec == ReadersSpec /\ WF_readersVars(Walk) /\ WF_readersVars(Chunk)

-----------------------------------------------------------------------------
\* "A verdict that lands between the check and the subscribe is never missed"
\* (mcp.py:649-651): while an agent waits and the proposal is resolved, its queue
\* holds the verdict; and the verdict an agent is told, from an event it had in its
\* queue for as long as it liked, is the proposal's status.
NoVerdictIsMissed ==
  \A a \in Agents :
    /\ agent[a] = "wait" /\ verdict[asked[a]] # "pending" =>
         \E i \in DOMAIN inbox[a] : inbox[a][i] = [of |-> asked[a], is |-> verdict[asked[a]]]
    /\ told[a] \in Verdicts => told[a] = verdict[asked[a]]

\* A response that ends has told the client of every event in order, or ends
\* with run_error where the walk broke off (app.py:432-450); and once the client
\* of a response that has begun is gone the walk makes one more event at most.
StreamIsWhole ==
  /\ client = "closed" => \/ received = [i \in 1 .. made |-> i]
                          \/ \E n \in {made, made - 1} : /\ n >= 0
                               /\ received = Append([i \in 1 .. n |-> i], Failure)
  /\ late <= 1

\* A thread of the pool that waits for a chunk comes back, also when the client
\* has gone meanwhile: they are few, and every request needs one (app.py:449,
\* 480).
PoolThreadsReturn == waiting > 0 ~> waiting = 0

=============================================================================
