----------------------------- MODULE SessionClient -----------------------------
(***************************************************************************)
(* The canvas's end of a graph session (ui/src/session/sessionStore.ts):   *)
(* one browser tab, which joins sessions, hears of their changes over an   *)
(* event stream, refreshes itself with GETs, and sends what its user does. *)
(* JavaScript runs one handler at a time, but answers and events arrive in *)
(* any order, and the user may have gone elsewhere when they do.           *)
(*                                                                         *)
(* The n-th graph of a session s is named by n, the version at which it    *)
(* was current.  Of events there are two kinds: those that the canvas      *)
(* reloads its graph for, and the others.  Left out are what nothing here  *)
(* depends on: everything but graph and version that a refresh brings, the *)
(* banners for errors and rebases, and what the user draws; createAndJoin  *)
(* is the join of a session nobody else knows yet.                         *)
(*                                                                         *)
(* Not under test here: the server (SessionStore.tla, SharedDocument.tla), *)
(* which reads its answers in one piece, those to a change after the change*)
(* and perhaps others; and the polling that replaces the event stream where*)
(* the browser has none.                                                   *)
(***************************************************************************)
EXTENDS Naturals, Sequences, FiniteSets, Functions

CONSTANTS
  Sessions,
  Calls,        \* calls of the user that can be under way together
  None,
  Operations,   \* what the user does: some of the five below, and "join"
  MaxChanges,   \* bound on the changes of all sessions together
  MaxNews       \* bound on its other events waiting to be heard

ASSUME OperationsAssumption ==
  Operations \subseteq {"join", "push", "accept", "edit", "reject", "leave"}
ASSUME BoundAssumption == MaxChanges \in Nat /\ MaxNews \in Nat

VARIABLES
  version,    \* of each session, at the server
  \* the store
  sessionId, clientVersion,
  canvas,     \* the session and version of the graph it was loaded with last
  \* the subscription: the session, whether the server knows of it yet, and the
  \* events on their way, each the version it tells of or None
  subscription, opened, events,
  inFlightRefresh, queuedEvent,
  calls,      \* the calls under way
  \* ghosts: the latest graph event heard since joining, and the ways a canvas
  \* can have fallen behind since
  told, holes

server == <<version>>
store == <<sessionId, clientVersion>>
stream == <<subscription, opened, events>>
refreshing == <<inFlightRefresh, queuedEvent>>
vars == <<version, store, canvas, stream, refreshing, calls, told, holes>>

\* Where a request is, and the version that a successful one is answered with.
Outcome == [state : {"asked", "served", "done", "refused", "failed"}, version : Nat]
Asked == [state |-> "asked", version |-> 0]
Served == [state |-> "served", version |-> 0]
Done(v) == [state |-> "done", version |-> v]
Refused == [state |-> "refused", version |-> 0]
Failed == [state |-> "failed", version |-> 0]

\* A refresh: the session asked for, whether the event was about its graph.
Refresh == [session : Sessions, graph : BOOLEAN, answer : Outcome]
Event == [session : Sessions, told : Nat \cup {None}]
Canvas == [session : Sessions \cup {None}, version : Nat]
\* A call: what it asks for, and the canvas and version a push is made from.
Call == [op : Operations \ {"leave"}, session : Sessions, from : Canvas, base : Nat,
         answer : Outcome]

ASSUME NoneAssumption ==
  /\ None \notin Sessions /\ None \notin Nat
  /\ None \notin Refresh /\ None \notin Event /\ None \notin Call

IsGraphEvent(e) == e.told # None

Blank == [session |-> None, version |-> 0]

Init ==
  /\ version = [s \in Sessions |-> 0]
  /\ sessionId = None /\ clientVersion = None
  /\ canvas = Blank
  /\ subscription = None /\ opened = FALSE /\ events = <<>>
  /\ inFlightRefresh = None /\ queuedEvent = None
  /\ calls = [c \in Calls |-> None]
  /\ told = 0 /\ holes = {}

----------------------------------------------------------------------------
(* The server and the network.                                             *)

\* An event about session s reaches the stream, if the server knows of it.
Send(s, e) == events' = IF subscription = s /\ opened THEN Append(events, e) ELSE events

\* The version of a session grows, and an event tells of it.
Bump(s) ==
  /\ FoldFunction(+, 0, version) < MaxChanges
  /\ version' = [version EXCEPT ![s] = @ + 1]
  /\ Send(s, [session |-> s, told |-> version[s] + 1])
  /\ holes' = IF subscription = s /\ ~opened THEN holes \cup {"gap"} ELSE holes

\* Somebody else changes the graph of a session.
Change(s) ==
  /\ Bump(s)
  /\ UNCHANGED <<store, canvas, subscription, opened, refreshing, calls, told>>

\* An event that is not about the graph.
Tell(s) == /\ Cardinality({i \in DOMAIN events : events[i].told = None}) < MaxNews
           /\ Send(s, [session |-> s, told |-> None])

\* Something else happens in the session: a proposal, a review, a chat turn.
News(s) ==
  /\ subscription = s /\ opened
  /\ Tell(s)
  /\ UNCHANGED <<server, store, canvas, subscription, opened, refreshing, calls, told, holes>>

\* The request of the event stream reaches the server.
Open ==
  /\ subscription # None /\ ~opened
  /\ opened' = TRUE
  /\ UNCHANGED <<server, store, canvas, subscription, events, refreshing, calls, told, holes>>

\* The stream breaks and is opened anew; what it carried is gone.
Break ==
  /\ opened
  /\ opened' = FALSE
  /\ events' = <<>>
  /\ holes' = IF events = <<>> THEN holes ELSE holes \cup {"gap"}
  /\ UNCHANGED <<server, store, canvas, subscription, refreshing, calls, told>>

\* The server answers a GET, or the network fails it.
AnswerRefresh ==
  /\ inFlightRefresh # None
  /\ inFlightRefresh.answer = Asked
  /\ \E a \in {Done(version[inFlightRefresh.session]), Failed} :
       inFlightRefresh' = [inFlightRefresh EXCEPT !.answer = a]
  /\ UNCHANGED <<server, store, canvas, stream, queuedEvent, calls, told, holes>>

\* The server carries out a call that writes.  A push is refused unless it was
\* made from the current version, an accept unless its proposal was.
Serve(c) ==
  LET call == calls[c]
      s == call.session
      Becomes(a) == calls' = [calls EXCEPT ![c] = [call EXCEPT !.answer = a]]
  IN
  /\ call # None
  /\ call.answer = Asked
  /\ \/ /\ call.op = "push" /\ call.base # version[s]
        /\ Becomes(Refused)
        /\ UNCHANGED <<server, events, holes>>
     \/ /\ call.op = "push" /\ call.base = version[s]
        /\ Becomes(Served)
        /\ Bump(s)
     \/ /\ call.op = "accept"
        /\ Becomes(Refused)
        /\ UNCHANGED <<server, events, holes>>
     \/ /\ call.op \in {"accept", "edit"}
        /\ Becomes(Served)
        /\ Bump(s)
     \/ /\ call.op = "reject"
        /\ Becomes(Served)
        /\ Tell(s)
        /\ UNCHANGED <<server, holes>>
  /\ UNCHANGED <<store, canvas, subscription, opened, refreshing, told>>

\* The session as it is now is the answer: to a join, or to a call carried out
\* before, for the store's lock is free again by then.
Answer(c) ==
  /\ calls[c] # None
  /\ \/ calls[c].op = "join" /\ calls[c].answer = Asked
     \/ calls[c].answer = Served
  /\ calls' = [calls EXCEPT ![c] =
                  [calls[c] EXCEPT !.answer = Done(version[calls[c].session])]]
  /\ UNCHANGED <<server, store, canvas, stream, refreshing, told, holes>>

\* A call fails before it reaches the server, in it, or on the way back.
Fail(c) ==
  /\ calls[c] # None
  /\ calls[c].answer.state \in {"asked", "served", "done"}
  /\ calls' = [calls EXCEPT ![c] = [calls[c] EXCEPT !.answer = Failed]]
  /\ UNCHANGED <<server, store, canvas, stream, refreshing, told, holes>>

----------------------------------------------------------------------------
(* Events and refreshes.                                                   *)

StartRefresh(e) ==
  [session |-> e.session, graph |-> IsGraphEvent(e), answer |-> Asked]

\* Variant: the latest event wins, whatever was queued.
LatestWins(queued, e) == e

\* A queued graph event is not overwritten by another event.
Queued(queued, e) ==
  IF queued # None /\ IsGraphEvent(queued) /\ ~IsGraphEvent(e) THEN queued ELSE e

\* handleSessionEvent, up to its first wait.
HandleEvent ==
  /\ events # <<>>
  /\ events' = Tail(events)
  /\ LET e == Head(events) IN
       /\ IF sessionId # e.session
          THEN UNCHANGED <<refreshing, told>>
          ELSE /\ told' = IF IsGraphEvent(e) THEN e.told ELSE told
               /\ IF inFlightRefresh # None
                  THEN /\ queuedEvent' = Queued(queuedEvent, e)
                       /\ UNCHANGED inFlightRefresh
                  ELSE /\ inFlightRefresh' = StartRefresh(e)
                       /\ UNCHANGED queuedEvent
  /\ UNCHANGED <<server, store, canvas, subscription, opened, calls, holes>>

\* Variant: a refresh takes whatever session is shown for its own.
AnySession(s) == sessionId # None

\* The user is still where the request was made from.
StillThere(s) == sessionId = s

\* Version v of session s is older than what the canvas has.
Overtaken(s, v) == \/ clientVersion # None /\ v < clientVersion
                   \/ canvas.session = s /\ v < canvas.version

\* Variant: the handler of an answer that is dropped returns, and the refresh
\* stays the one in flight.
GoOnIfShown ==
  IF sessionId = inFlightRefresh.session
  THEN /\ inFlightRefresh' = IF queuedEvent # None THEN StartRefresh(queuedEvent) ELSE None
       /\ queuedEvent' = None
  ELSE UNCHANGED refreshing

\* Variant: what came meanwhile is taken to be in the answer.
GoOnAlone == inFlightRefresh' = None /\ queuedEvent' = None

\* The rest of handleSessionEvent: the refresh is over, and the one of the event
\* queued meanwhile follows, unless the user has left that event's session.
GoOn ==
  /\ inFlightRefresh' = IF queuedEvent # None /\ queuedEvent.session = sessionId
                        THEN StartRefresh(queuedEvent) ELSE None
  /\ queuedEvent' = None

\* refreshFromServer, after its GET.
Refreshed ==
  /\ inFlightRefresh # None
  /\ inFlightRefresh.answer # Asked
  /\ LET s == inFlightRefresh.session
         v == inFlightRefresh.answer.version
     IN \/ /\ ~StillThere(s)
           /\ UNCHANGED <<clientVersion, canvas, holes>>
        \/ /\ StillThere(s)
           /\ inFlightRefresh.answer = Failed
           /\ holes' = holes \cup {"failed"}
           /\ UNCHANGED <<clientVersion, canvas>>
        \/ /\ StillThere(s)
           /\ inFlightRefresh.answer # Failed
           /\ clientVersion' = v
           /\ canvas' = IF inFlightRefresh.graph
                        THEN [session |-> s, version |-> v] ELSE canvas
           /\ holes' = IF Overtaken(s, v) THEN holes \cup {"late"} ELSE holes
  /\ GoOn
  /\ UNCHANGED <<server, sessionId, stream, calls, told>>

----------------------------------------------------------------------------
(* The user.                                                               *)

Ask(c, op, s, from, base) ==
  /\ op \in Operations
  /\ calls[c] = None
  /\ calls' = [calls EXCEPT ![c] = [op |-> op, session |-> s, from |-> from, base |-> base,
                                    answer |-> Asked]]

Join(c, s) ==
  /\ Ask(c, "join", s, Blank, 0)
  /\ UNCHANGED <<server, store, canvas, stream, refreshing, told, holes>>

\* pushLocalGraph, accept, applyDirectMutation or revertCheckpoint, reject or
\* endChat: calls about the session that is shown.
CallServer(c, op) ==
  /\ op \notin {"join", "leave"}
  /\ sessionId # None
  /\ \/ op = "push" /\ Ask(c, op, sessionId, canvas, clientVersion)
     \/ op # "push" /\ Ask(c, op, sessionId, Blank, 0)
  /\ UNCHANGED <<server, store, canvas, stream, refreshing, told, holes>>

Leave ==
  /\ "leave" \in Operations
  /\ sessionId # None
  /\ sessionId' = None /\ clientVersion' = None
  /\ subscription' = None /\ opened' = FALSE /\ events' = <<>>
  /\ queuedEvent' = None
  /\ told' = 0 /\ holes' = {}
  /\ UNCHANGED <<server, canvas, inFlightRefresh, calls>>

\* applySession and subscribe; no change so far has been told of.
Joined(c) ==
  /\ calls[c].op = "join"
  /\ sessionId' = calls[c].session /\ clientVersion' = calls[c].answer.version
  /\ canvas' = [session |-> calls[c].session, version |-> calls[c].answer.version]
  /\ subscription' = calls[c].session /\ opened' = FALSE /\ events' = <<>>
  /\ told' = 0
  /\ holes' = IF version[calls[c].session] # calls[c].answer.version THEN {"gap"} ELSE {}

\* The graph pushed became the next after its base: it is what the canvas shows,
\* unless another was loaded meanwhile.
Pushed(c) ==
  /\ calls[c].op = "push"
  /\ clientVersion' = calls[c].answer.version
  /\ canvas' = IF canvas = calls[c].from
               THEN [session |-> calls[c].session, version |-> calls[c].base + 1] ELSE canvas
  /\ UNCHANGED sessionId

Accepted(c) ==
  /\ calls[c].op = "accept"
  /\ clientVersion' = calls[c].answer.version
  /\ canvas' = [session |-> calls[c].session, version |-> calls[c].answer.version]
  /\ UNCHANGED sessionId

Edited(c) ==
  /\ calls[c].op = "edit"
  /\ sessionId' = calls[c].session /\ clientVersion' = calls[c].answer.version
  /\ canvas' = [session |-> calls[c].session, version |-> calls[c].answer.version]

Rejected(c) ==
  /\ calls[c].op = "reject"
  /\ clientVersion' = calls[c].answer.version
  /\ UNCHANGED <<sessionId, canvas>>

\* The answer of a call arrives; no session is looked at.
Return(c) ==
  /\ calls[c] # None
  /\ calls[c].answer # Asked
  /\ calls' = [calls EXCEPT ![c] = None]
  /\ \/ /\ calls[c].answer \in {Refused, Failed}
        /\ UNCHANGED <<store, canvas, stream, told, holes>>
     \/ /\ calls[c].answer.state = "done"
        /\ Joined(c)
     \/ /\ calls[c].answer.state = "done"
        /\ Pushed(c) \/ Accepted(c) \/ Edited(c) \/ Rejected(c)
        /\ holes' = IF \/ sessionId # calls[c].session
                       \/ Overtaken(calls[c].session, calls[c].answer.version)
                    THEN holes \cup {"late"} ELSE holes
        /\ UNCHANGED <<stream, told>>
  /\ UNCHANGED <<server, refreshing>>

Next ==
  \/ \E s \in Sessions : Change(s) \/ News(s)
  \/ Open \/ Break \/ AnswerRefresh
  \/ HandleEvent \/ Refreshed
  \/ Leave
  \/ \E c \in Calls :
       \/ \E s \in Sessions : Join(c, s)
       \/ \E op \in Operations : CallServer(c, op)
       \/ Serve(c) \/ Answer(c) \/ Fail(c) \/ Return(c)

Spec == Init /\ [][Next]_vars

\* A GET is answered or fails, and the browser runs the handler that waits.
FairSpec == Spec /\ WF_vars(AnswerRefresh) /\ WF_vars(Refreshed)

----------------------------------------------------------------------------
\* The types; a session is shown with its version, an event can only be of the
\* session subscribed to, and nothing is queued but behind a refresh.
TypeOK ==
  /\ version \in [Sessions -> Nat]
  /\ sessionId \in Sessions \cup {None}
  /\ clientVersion \in Nat \cup {None}
  /\ canvas \in Canvas
  /\ subscription \in Sessions \cup {None}
  /\ opened \in BOOLEAN
  /\ events \in Seq(Event)
  /\ inFlightRefresh \in Refresh \cup {None}
  /\ queuedEvent \in Event \cup {None}
  /\ calls \in [Calls -> Call \cup {None}]
  /\ told \in Nat /\ holes \subseteq {"gap", "late", "failed"}
  /\ sessionId # None => clientVersion # None
  /\ \A i \in DOMAIN events : events[i].session = subscription
  /\ queuedEvent # None => inFlightRefresh # None

\* A canvas that was told of a graph loads it or a later one, however the burst
\* of events it came in was coalesced (sessionStore.ts:201-208): when no refresh
\* is under way, it has, unless the GET failed or something older came late.
GraphEventsAreLoaded ==
  sessionId # None /\ inFlightRefresh = None /\ holes \cap {"failed", "late"} = {} =>
    canvas.session = sessionId /\ canvas.version >= told

\* A canvas at rest shows its session as it is.  It can fall behind in three ways
\* only: a change between the snapshot it joined with and its subscription, or
\* in a break of the stream; a GET that failed; an answer overtaken by a later
\* one, or by the user's going elsewhere.
InStepAtRest ==
  /\ sessionId # None
  /\ opened /\ events = <<>>
  /\ inFlightRefresh = None
  /\ calls = [c \in Calls |-> None]
  /\ holes = {}
  => /\ clientVersion = version[sessionId]
     /\ canvas.session = sessionId
     /\ canvas.version = version[sessionId]

\* A refresh that outlives the session it was made for is dropped
\* (sessionStore.ts:152-155): unless a call was answered late, the graph on the
\* canvas is of the session shown.
ShowsItsSession ==
  sessionId # None /\ "late" \notin holes => canvas.session = sessionId /\ subscription = sessionId

\* A queued event is not forgotten: the refresh it waits behind ends.
QueueDrains == queuedEvent # None ~> queuedEvent = None

=============================================================================
