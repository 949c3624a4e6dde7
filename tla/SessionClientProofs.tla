-------------------------- MODULE SessionClientProofs --------------------------
(***************************************************************************)
(* The canvas hears of its session's graphs and loads them, for any number *)
(* of sessions and of calls under way, and for every order of answers and  *)
(* events.  The argument follows the last graph that the canvas was told   *)
(* of: it is on the canvas, or the event that fetches it is queued, or the *)
(* refresh is under way and will be answered with nothing older (OnItsWay).*)
(* That needs what a GET is answered with to be no older than what was told*)
(* before it (Told), and the canvas to be of the session (ShowsItsSession).*)
(*                                                                         *)
(* That the canvas is in step once nothing is under way takes more: the    *)
(* last graph event on its way tells of the current graph, unless that was *)
(* told of or came already (NothingIsMissed), and the version held lies    *)
(* between the graph shown and the current one (VersionIsHeld).            *)
(***************************************************************************)
EXTENDS SessionClient, TLAPS

\* No event tells of a version that its session has not reached, nor has the
\* canvas been told of one.
Told ==
  /\ \A i \in DOMAIN events :
       events[i].told # None => events[i].told <= version[events[i].session]
  /\ sessionId # None /\ "late" \notin holes => told <= version[sessionId]

\* Nobody has seen a version that its session has not reached, and a push is
\* carried out only if its graph, when it is of that session, is of its base or
\* older.
Reached ==
  /\ canvas.session # None => canvas.version <= version[canvas.session]
  /\ inFlightRefresh # None =>
       inFlightRefresh.answer.version <= version[inFlightRefresh.session]
  /\ \A c \in Calls : calls[c] # None =>
       /\ calls[c].answer.version <= version[calls[c].session]
       /\ calls[c].from.session # None => calls[c].from.version <= version[calls[c].from.session]
       /\ calls[c].op = "push" /\ calls[c].answer.state \in {"served", "done"} =>
            /\ calls[c].base + 1 <= version[calls[c].session]
            /\ calls[c].from.session = calls[c].session => calls[c].from.version <= calls[c].base

\* The graph last told of is on the canvas, or an event that will fetch it is
\* queued, or the refresh that does is under way.
OnItsWay ==
  sessionId # None /\ holes \cap {"failed", "late"} = {} =>
    \/ canvas.version >= told
    \/ queuedEvent # None /\ queuedEvent.session = sessionId /\ IsGraphEvent(queuedEvent)
    \/ /\ inFlightRefresh # None
       /\ inFlightRefresh.session = sessionId
       /\ inFlightRefresh.graph
       /\ inFlightRefresh.answer \in {Asked, Failed} \/ inFlightRefresh.answer.version >= told

ClientInv == TypeOK /\ Reached /\ ShowsItsSession /\ Told /\ OnItsWay

\* A push is answered with a version no older than the one it made.
AnswersAreLater ==
  \A c \in Calls : calls[c] # None /\ calls[c].op = "push" /\ calls[c].answer.state = "done" =>
    calls[c].base + 1 <= calls[c].answer.version

\* The version held is no older than the graph shown, and one the session has had.
VersionIsHeld ==
  sessionId # None /\ "late" \notin holes =>
    canvas.version <= clientVersion /\ clientVersion <= version[sessionId]

\* Without a hole, the last graph event on its way tells of the current graph; when
\* none is on its way, that graph was told of before or came without being told.
NothingIsMissed ==
  sessionId # None /\ holes = {} =>
    /\ \A i \in DOMAIN events :
         events[i].told # None /\ (\A j \in DOMAIN events : i < j => events[j].told = None) =>
           events[i].told = version[sessionId]
    /\ (\A i \in DOMAIN events : events[i].told = None) =>
         told = version[sessionId] \/ canvas.version >= version[sessionId]

RestInv == ClientInv /\ AnswersAreLater /\ VersionIsHeld /\ NothingIsMissed

\* The answers of requests have their type.
LEMMA Outcomes ==
  /\ Asked \in Outcome /\ Served \in Outcome /\ Refused \in Outcome /\ Failed \in Outcome
  /\ \A v \in Nat : Done(v) \in Outcome
  /\ Asked # Failed /\ \A v : Done(v) # Asked /\ Done(v) # Failed
  BY DEF Asked, Served, Refused, Failed, Done, Outcome

\* A call that is answered stays the call it was.
LEMMA AnsweredCall ==
  ASSUME NEW r \in Call, NEW a \in Outcome
  PROVE  [r EXCEPT !.answer = a] \in Call
  BY DEF Call

\* A refresh that is answered stays the refresh it was.
LEMMA AnsweredRefresh ==
  ASSUME NEW r \in Refresh, NEW a \in Outcome
  PROVE  /\ [r EXCEPT !.answer = a] \in Refresh
         /\ [r EXCEPT !.answer = a].session = r.session
         /\ [r EXCEPT !.answer = a].graph = r.graph
         /\ [r EXCEPT !.answer = a].answer = a
  BY DEF Refresh

\* The refresh an event starts asks for the event's session.
LEMMA StartedRefresh ==
  ASSUME NEW e \in Event
  PROVE  /\ StartRefresh(e) \in Refresh
         /\ StartRefresh(e).session = e.session
         /\ StartRefresh(e).graph = (e.told # None)
         /\ StartRefresh(e).answer = Asked
  BY Outcomes DEF StartRefresh, IsGraphEvent, Refresh, Event

\* A stream that carries nothing carries nothing wrong.
LEMMA NoEvents ==
  /\ <<>> \in Seq(Event)
  /\ \A i \in DOMAIN <<>> : FALSE
  OBVIOUS

\* What a stream carries is of its session, and stays so.
LEMMA Sent ==
  ASSUME NEW s \in Sessions, NEW e \in Event, e.session = s, TypeOK, Send(s, e)
  PROVE  events' \in Seq(Event) /\ \A i \in DOMAIN events' : events'[i].session = subscription
<1>1. CASE subscription = s /\ opened
  BY <1>1 DEF Send, TypeOK
<1> QED
  BY <1>1 DEF Send, TypeOK

\* A change only lets versions grow, and is told to its session's stream.
LEMMA Grown ==
  ASSUME NEW s \in Sessions, TypeOK, Bump(s)
  PROVE  /\ version' \in [Sessions -> Nat]
         /\ \A x \in Sessions : version'[x] >= version[x]
         /\ events' \in Seq(Event)
         /\ \A i \in DOMAIN events' : events'[i].session = subscription
         /\ holes' \in {holes, holes \cup {"gap"}}
<1>1. version[s] + 1 \in Nat
  BY DEF TypeOK
<1> DEFINE e == [session |-> s, told |-> version[s] + 1]
<1>2. e \in Event /\ e.session = s
  BY <1>1 DEF Event
<1>3. Send(s, e)
  BY DEF Bump
<1> HIDE DEF e
<1>4. version' = [version EXCEPT ![s] = @ + 1] /\ holes' \in {holes, holes \cup {"gap"}}
  BY DEF Bump
<1>5. version' \in [Sessions -> Nat] /\ \A x \in Sessions : version'[x] >= version[x]
  BY <1>1, <1>4 DEF TypeOK
<1> QED
  BY <1>2, <1>3, <1>4, <1>5, Sent

\* Other news reaches the stream of its session only.
LEMMA ToldOf ==
  ASSUME NEW s \in Sessions, TypeOK, Tell(s)
  PROVE  /\ events' \in Seq(Event)
         /\ \A i \in DOMAIN events' : events'[i].session = subscription
<1> DEFINE e == [session |-> s, told |-> None]
<1>1. e \in Event /\ e.session = s
  BY DEF Event
<1>2. Send(s, e)
  BY DEF Tell
<1> HIDE DEF e
<1> QED
  BY <1>1, <1>2, Sent

\* Nothing of the kind a request is about is None.
LEMMA Answers ==
  ASSUME TypeOK, NEW c \in Calls, calls[c] # None
  PROVE  /\ calls[c] \in Call /\ calls[c].session \in Sessions
         /\ calls[c].answer \in Outcome /\ calls[c].answer.version \in Nat
  BY DEF TypeOK, Call, Outcome

USE DEF server, store, stream, refreshing

\* A tab that has joined nothing has been told nothing.
LEMMA Start == Init => ClientInv
<1>1. ASSUME Init PROVE TypeOK
  <2>1. canvas \in Canvas
    BY <1>1 DEF Init, Blank, Canvas
  <2>2. calls \in [Calls -> Call \cup {None}]
    BY <1>1 DEF Init
  <2>3. version \in [Sessions -> Nat]
    BY <1>1 DEF Init
  <2>4. events \in Seq(Event) /\ DOMAIN events = {}
    BY <1>1 DEF Init
  <2>5. queuedEvent = None /\ inFlightRefresh = None
    BY <1>1 DEF Init
  <2>6. sessionId = None /\ clientVersion = None /\ subscription = None
    BY <1>1 DEF Init
  <2>7. opened \in BOOLEAN /\ told \in Nat /\ holes \subseteq {"gap", "late", "failed"}
    BY <1>1 DEF Init
  <2> QED
    BY <2>1, <2>2, <2>3, <2>4, <2>5, <2>6, <2>7 DEF TypeOK
<1>2. ASSUME Init PROVE ShowsItsSession
  BY <1>2 DEF Init, ShowsItsSession
<1>3. ASSUME Init PROVE Told
  BY <1>3 DEF Init, Told
<1>4. ASSUME Init PROVE OnItsWay
  BY <1>4 DEF Init, OnItsWay
<1>5. ASSUME Init PROVE Reached
  BY <1>5 DEF Init, Reached, Blank
<1> QED
  BY <1>1, <1>2, <1>3, <1>4, <1>5 DEF ClientInv

\* The types are kept.
LEMMA TypeStep ==
  ASSUME TypeOK, [Next]_vars
  PROVE  TypeOK'
<1>1. ASSUME UNCHANGED vars PROVE TypeOK'
  BY <1>1 DEF vars, TypeOK
<1>2. ASSUME NEW s \in Sessions, Change(s) PROVE TypeOK'
  BY <1>2, Grown DEF Change, TypeOK
<1>3. ASSUME NEW s \in Sessions, News(s) PROVE TypeOK'
  BY <1>3, ToldOf DEF News, TypeOK
<1>4. ASSUME Open PROVE TypeOK'
  BY <1>4 DEF Open, TypeOK
<1>5. ASSUME Break PROVE TypeOK'
  <2>1. events' \in Seq(Event) /\ \A i \in DOMAIN events' : FALSE
    BY <1>5, NoEvents DEF Break
  <2>2. opened' = FALSE /\ holes' \subseteq {"gap", "late", "failed"}
    BY <1>5 DEF Break, TypeOK
  <2>3. UNCHANGED <<server, store, canvas, subscription, refreshing, calls, told>>
    BY <1>5 DEF Break
  <2> QED
    BY <2>1, <2>2, <2>3 DEF TypeOK
<1>6. ASSUME AnswerRefresh PROVE TypeOK'
  <2>1. PICK a \in {Done(version[inFlightRefresh.session]), Failed} :
          inFlightRefresh' = [inFlightRefresh EXCEPT !.answer = a]
    BY <1>6 DEF AnswerRefresh
  <2>2. inFlightRefresh \in Refresh /\ inFlightRefresh # None
    BY <1>6 DEF AnswerRefresh, TypeOK
  <2>3. version[inFlightRefresh.session] \in Nat
    BY <2>2 DEF TypeOK, Refresh
  <2>4. inFlightRefresh' \in Refresh
    BY <2>1, <2>2, <2>3, Outcomes, AnsweredRefresh
  <2>5. UNCHANGED <<version, store, canvas, stream, queuedEvent, calls, told, holes>>
    BY <1>6 DEF AnswerRefresh
  <2>6. inFlightRefresh' # None
    BY <2>4, NoneAssumption
  <2> QED
    BY <2>4, <2>5, <2>6 DEF TypeOK
<1>7. ASSUME HandleEvent PROVE TypeOK'
  <2> DEFINE e == Head(events)
  <2>1. e \in Event /\ events' \in Seq(Event)
        /\ \A i \in DOMAIN events' : events'[i].session = subscription
    BY <1>7 DEF HandleEvent, TypeOK
  <2>2. IsGraphEvent(e) => e.told \in Nat
    BY <2>1 DEF IsGraphEvent, Event
  <2>3. told' \in Nat
    BY <1>7, <2>2 DEF HandleEvent, TypeOK
  <2>4. StartRefresh(e) \in Refresh
    BY <2>1, StartedRefresh
  <2>5. queuedEvent' \in Event \cup {None} /\ inFlightRefresh' \in Refresh \cup {None}
    BY <1>7, <2>1, <2>4 DEF HandleEvent, TypeOK, Queued
  <2>6. queuedEvent' # None => inFlightRefresh' # None
    BY <1>7, <2>4, NoneAssumption DEF HandleEvent, TypeOK
  <2> QED
    BY <1>7, <2>1, <2>3, <2>5, <2>6 DEF HandleEvent, TypeOK
<1>8. ASSUME Refreshed PROVE TypeOK'
  <2>1. inFlightRefresh.session \in Sessions /\ inFlightRefresh.answer.version \in Nat
    BY <1>8 DEF Refreshed, TypeOK, Refresh, Outcome
  <2>2. clientVersion' \in Nat \cup {None} /\ (clientVersion # None => clientVersion' # None)
    BY <1>8, <2>1, NoneAssumption DEF Refreshed, TypeOK
  <2>3. canvas' \in Canvas
    BY <1>8, <2>1 DEF Refreshed, TypeOK, Canvas
  <2>4. holes' \subseteq {"gap", "late", "failed"}
    BY <1>8 DEF Refreshed, TypeOK
  <2>5. inFlightRefresh' \in Refresh \cup {None} /\ queuedEvent' = None
    BY <1>8, StartedRefresh DEF Refreshed, GoOn, TypeOK
  <2> QED
    BY <1>8, <2>2, <2>3, <2>4, <2>5 DEF Refreshed, TypeOK
<1>9. ASSUME Leave PROVE TypeOK'
  <2>1. events' \in Seq(Event) /\ \A i \in DOMAIN events' : FALSE
    BY <1>9, NoEvents DEF Leave
  <2>2. /\ sessionId' = None /\ clientVersion' = None /\ subscription' = None
        /\ opened' = FALSE /\ queuedEvent' = None /\ told' = 0 /\ holes' = {}
        /\ UNCHANGED <<server, canvas, inFlightRefresh, calls>>
    BY <1>9 DEF Leave
  <2> QED
    BY <2>1, <2>2 DEF TypeOK
<1>10. ASSUME NEW c \in Calls, NEW s \in Sessions, Join(c, s) PROVE TypeOK'
  <2>1. calls' \in [Calls -> Call \cup {None}]
    BY <1>10, Outcomes DEF Join, Ask, TypeOK, Call, Blank, Canvas
  <2> QED
    BY <1>10, <2>1 DEF Join, TypeOK
<1>11. ASSUME NEW c \in Calls, NEW op \in Operations, CallServer(c, op) PROVE TypeOK'
  <2>1. sessionId \in Sessions /\ clientVersion \in Nat /\ op \notin {"join", "leave"}
    BY <1>11 DEF CallServer, TypeOK
  <2>2. calls' \in [Calls -> Call \cup {None}]
    BY <1>11, <2>1, Outcomes DEF CallServer, Ask, TypeOK, Call, Blank, Canvas
  <2> QED
    BY <1>11, <2>2 DEF CallServer, TypeOK
<1>12. ASSUME NEW c \in Calls, Serve(c) PROVE TypeOK'
  <2>1. /\ calls[c] \in Call /\ calls[c].session \in Sessions
        /\ version[calls[c].session] \in Nat
    BY <1>12, Answers DEF Serve, TypeOK
  <2>2. \E a \in Outcome : calls' = [calls EXCEPT ![c] = [calls[c] EXCEPT !.answer = a]]
    BY <1>12, Outcomes, Zenon DEF Serve
  <2>3. calls' \in [Calls -> Call \cup {None}]
    BY <2>1, <2>2, AnsweredCall DEF TypeOK
  <2>4. CASE Bump(calls[c].session)
    BY <1>12, <2>1, <2>3, <2>4, Grown DEF Serve, TypeOK
  <2>5. CASE Tell(calls[c].session) /\ UNCHANGED <<version, holes>>
    BY <1>12, <2>1, <2>3, <2>5, ToldOf DEF Serve, TypeOK
  <2>6. CASE UNCHANGED <<version, events, holes>>
    BY <1>12, <2>3, <2>6 DEF Serve, TypeOK
  <2> QED
    BY <1>12, <2>4, <2>5, <2>6, Zenon DEF Serve
<1>13. ASSUME NEW c \in Calls, Fail(c) PROVE TypeOK'
  <2>1. calls' \in [Calls -> Call \cup {None}]
    BY <1>13, Outcomes, Answers, AnsweredCall DEF Fail, TypeOK
  <2> QED
    BY <1>13, <2>1 DEF Fail, TypeOK
<1>14. ASSUME NEW c \in Calls, Return(c) PROVE TypeOK'
  <2>1. /\ calls[c].session \in Sessions /\ calls[c].answer.version \in Nat
        /\ calls' \in [Calls -> Call \cup {None}]
    BY <1>14, Answers DEF Return, TypeOK
  <2>2. CASE UNCHANGED <<store, canvas, stream, told, holes>>
    BY <1>14, <2>1, <2>2 DEF Return, TypeOK
  <2>3. CASE Joined(c)
    <3>1. events' \in Seq(Event) /\ \A i \in DOMAIN events' : FALSE
      BY <2>3, NoEvents DEF Joined
    <3>2. canvas' \in Canvas
      BY <2>1, <2>3 DEF Joined, Canvas
    <3>3. /\ sessionId' \in Sessions /\ clientVersion' \in Nat /\ clientVersion' # None
          /\ subscription' \in Sessions /\ opened' = FALSE /\ told' = 0
          /\ holes' \subseteq {"gap", "late", "failed"}
      BY <2>1, <2>3, NoneAssumption DEF Joined
    <3>4. UNCHANGED <<server, refreshing>>
      BY <1>14 DEF Return
    <3> QED
      BY <2>1, <3>1, <3>2, <3>3, <3>4 DEF TypeOK
  <2>4. ASSUME Pushed(c) \/ Accepted(c) \/ Edited(c) \/ Rejected(c),
               holes' \in {holes, holes \cup {"late"}}, UNCHANGED <<stream, told>>
        PROVE  TypeOK'
    <3>1. sessionId' \in Sessions \cup {None} /\ clientVersion' \in Nat
      BY <2>1, <2>4 DEF Pushed, Accepted, Edited, Rejected, TypeOK
    <3>2. canvas' \in Canvas
      <4>1. calls[c].base \in Nat
        BY <1>14, Answers DEF Return, Call
      <4> QED
        BY <2>1, <2>4, <4>1 DEF Pushed, Accepted, Edited, Rejected, TypeOK, Canvas
    <3>3. clientVersion' # None
      BY <3>1, NoneAssumption
    <3> QED
      BY <1>14, <2>1, <2>4, <3>1, <3>2, <3>3 DEF Return, TypeOK
  <2> QED
    BY <1>14, <2>2, <2>3, <2>4, Zenon DEF Return
<1>15. ASSUME NEW c \in Calls, Answer(c) PROVE TypeOK'
  <2>1. /\ calls[c] \in Call /\ version[calls[c].session] \in Nat
        /\ calls' = [calls EXCEPT ![c] =
                      [calls[c] EXCEPT !.answer = Done(version[calls[c].session])]]
        /\ UNCHANGED <<server, store, canvas, stream, refreshing, told, holes>>
    BY <1>15, Answers DEF Answer, TypeOK
  <2>2. [calls[c] EXCEPT !.answer = Done(version[calls[c].session])] \in Call
    BY <2>1, Outcomes, AnsweredCall
  <2>3. calls' \in [Calls -> Call \cup {None}]
    BY <2>1, <2>2 DEF TypeOK
  <2> QED
    BY <2>1, <2>3 DEF TypeOK
<1> QED
  BY <1>1, <1>2, <1>3, <1>4, <1>5, <1>6, <1>7, <1>8, <1>9, <1>10, <1>11, <1>12, <1>13,
     <1>14, <1>15 DEF Next

\* Versions only grow.
LEMMA VersionsGrow ==
  ASSUME TypeOK, [Next]_vars
  PROVE  \A x \in Sessions : version[x] \in Nat /\ version'[x] \in Nat /\ version'[x] >= version[x]
<1>1. ASSUME NEW s \in Sessions, Bump(s)
      PROVE  \A x \in Sessions : version[x] \in Nat /\ version'[x] \in Nat
                                /\ version'[x] >= version[x]
  BY <1>1, Grown DEF TypeOK
<1>2. CASE UNCHANGED version
  BY <1>2 DEF TypeOK
<1>3. ASSUME NEW c \in Calls, Serve(c)
      PROVE  UNCHANGED version \/ \E s \in Sessions : Bump(s)
  BY <1>3, Answers DEF Serve
<1> QED
  BY <1>1, <1>2, <1>3
     DEF Next, vars, Change, News, Open, Break, AnswerRefresh, HandleEvent, Refreshed, Leave,
       Join, CallServer, Answer, Fail, Return

\* What a GET or a call brings is the version of a moment.
LEMMA ReachedStep ==
  ASSUME TypeOK, Reached, [Next]_vars
  PROVE  Reached'
<1>0. \A x \in Sessions : version[x] \in Nat /\ version'[x] \in Nat /\ version'[x] >= version[x]
  BY VersionsGrow
<1> DEFINE
      Shows(k) == k.session # None => k.version <= version'[k.session]
      Sound(k) == /\ k.answer.version <= version'[k.session]
                  /\ Shows(k.from)
                  /\ k.op = "push" /\ k.answer.state \in {"served", "done"} =>
                       /\ k.base + 1 <= version'[k.session]
                       /\ k.from.session = k.session => k.from.version <= k.base
<1>1. Shows(canvas)
  BY <1>0 DEF TypeOK, Canvas, Reached
<1>2. inFlightRefresh # None => inFlightRefresh.answer.version <= version'[inFlightRefresh.session]
  BY <1>0 DEF TypeOK, Refresh, Outcome, Reached
<1>3. ASSUME NEW c \in Calls, calls[c] # None PROVE Sound(calls[c])
  <2>1. /\ calls[c].session \in Sessions /\ calls[c].answer.version \in Nat
        /\ calls[c].from.session \in Sessions \cup {None} /\ calls[c].from.version \in Nat
        /\ calls[c].base \in Nat
    BY <1>3 DEF TypeOK, Call, Canvas, Outcome
  <2> QED
    BY <1>0, <1>3, <2>1 DEF Reached
<1>4. ASSUME Shows(canvas'),
             inFlightRefresh' # None =>
               inFlightRefresh'.answer.version <= version'[inFlightRefresh'.session],
             \A c \in Calls : calls'[c] # None => Sound(calls'[c])
      PROVE  Reached'
  BY <1>4 DEF Reached
<1>5. ASSUME UNCHANGED <<canvas, inFlightRefresh, calls>> PROVE Reached'
  BY <1>1, <1>2, <1>3, <1>4, <1>5
<1>6. ASSUME AnswerRefresh PROVE Reached'
  <2>1. PICK a \in {Done(version[inFlightRefresh.session]), Failed} :
          inFlightRefresh' = [inFlightRefresh EXCEPT !.answer = a]
    BY <1>6 DEF AnswerRefresh
  <2>2. inFlightRefresh \in Refresh /\ version[inFlightRefresh.session] \in Nat
        /\ inFlightRefresh.session \in Sessions
    BY <1>6 DEF AnswerRefresh, TypeOK, Refresh
  <2>3. a.version <= version[inFlightRefresh.session] /\ a \in Outcome
    BY <2>2, Outcomes DEF Done, Failed
  <2>4. inFlightRefresh'.session = inFlightRefresh.session /\ inFlightRefresh'.answer = a
    BY <2>1, <2>2, <2>3, AnsweredRefresh
  <2>5. UNCHANGED <<version, canvas, calls>>
    BY <1>6 DEF AnswerRefresh
  <2> QED
    BY <1>1, <1>3, <1>4, <2>3, <2>4, <2>5
<1>7. ASSUME NEW e \in Event PROVE StartRefresh(e).answer.version <= version'[StartRefresh(e).session]
  BY <1>0, StartedRefresh DEF Asked, Event
<1>8. ASSUME HandleEvent PROVE Reached'
  <2>1. inFlightRefresh' = inFlightRefresh \/ \E e \in Event : inFlightRefresh' = StartRefresh(e)
    <3>1. Head(events) \in Event
      BY <1>8 DEF HandleEvent, TypeOK
    <3> QED
      BY <1>8, <3>1 DEF HandleEvent
  <2>2. UNCHANGED <<canvas, calls>>
    BY <1>8 DEF HandleEvent
  <2> QED
    BY <1>1, <1>2, <1>3, <1>4, <1>7, <2>1, <2>2
<1>9. ASSUME Refreshed PROVE Reached'
  <2>1. inFlightRefresh' = None \/ \E e \in Event : inFlightRefresh' = StartRefresh(e)
    BY <1>9 DEF Refreshed, GoOn, TypeOK
  <2>2. canvas' = canvas
        \/ canvas' = [session |-> inFlightRefresh.session, version |-> inFlightRefresh.answer.version]
    BY <1>9 DEF Refreshed
  <2>3. inFlightRefresh # None /\ UNCHANGED calls
    BY <1>9 DEF Refreshed
  <2> QED
    BY <1>1, <1>2, <1>3, <1>4, <1>7, <2>1, <2>2, <2>3
<1>10. ASSUME NEW c \in Calls, NEW op, NEW s \in Sessions, NEW from \in Canvas, NEW base,
              Ask(c, op, s, from, base), Shows(from), UNCHANGED <<canvas, inFlightRefresh>>
       PROVE  Reached'
  <2> DEFINE k == [op |-> op, session |-> s, from |-> from, base |-> base, answer |-> Asked]
  <2>1. calls' = [calls EXCEPT ![c] = k]
    BY <1>10 DEF Ask
  <2>2. Sound(k)
    BY <1>0, <1>10 DEF Asked
  <2> HIDE DEF k
  <2>3. ASSUME NEW d \in Calls, calls'[d] # None PROVE Sound(calls'[d])
    BY <1>3, <2>1, <2>2, <2>3 DEF TypeOK
  <2> QED
    BY <1>1, <1>2, <1>4, <1>10, <2>3
<1>11. ASSUME NEW c \in Calls, NEW s \in Sessions, Join(c, s) PROVE Reached'
  BY <1>10, <1>11 DEF Join, Blank, Canvas
<1>12. ASSUME NEW c \in Calls, NEW op \in Operations, CallServer(c, op) PROVE Reached'
  <2>1. sessionId \in Sessions /\ UNCHANGED <<canvas, inFlightRefresh>>
    BY <1>12 DEF CallServer, TypeOK
  <2>2. CASE Ask(c, op, sessionId, canvas, clientVersion)
    BY <1>1, <1>10, <2>1, <2>2 DEF TypeOK
  <2>3. CASE Ask(c, op, sessionId, Blank, 0)
    BY <1>10, <2>1, <2>3 DEF Blank, Canvas
  <2> QED
    BY <1>12, <2>2, <2>3 DEF CallServer
\* A call takes its next answer.
<1>13. ASSUME NEW c \in Calls, calls[c] # None, NEW a \in Outcome,
              calls' = [calls EXCEPT ![c] = [calls[c] EXCEPT !.answer = a]],
              a.version <= version'[calls[c].session],
              calls[c].op = "push" /\ a.state \in {"served", "done"} =>
                /\ calls[c].base + 1 <= version'[calls[c].session]
                /\ calls[c].from.session = calls[c].session =>
                     calls[c].from.version <= calls[c].base,
              UNCHANGED <<canvas, inFlightRefresh>>
       PROVE  Reached'
  <2> DEFINE k == [calls[c] EXCEPT !.answer = a]
  <2>1. /\ k.session = calls[c].session /\ k.from = calls[c].from /\ k.base = calls[c].base
        /\ k.op = calls[c].op /\ k.answer = a
    BY <1>13 DEF TypeOK, Call
  <2>2. calls' = [calls EXCEPT ![c] = k]
    BY <1>13
  <2> HIDE DEF k
  <2>3. Sound(k)
    BY <1>3, <1>13, <2>1
  <2>4. ASSUME NEW d \in Calls, calls'[d] # None PROVE Sound(calls'[d])
    BY <1>3, <2>2, <2>3, <2>4 DEF TypeOK
  <2> QED
    BY <1>1, <1>2, <1>4, <1>13, <2>4
<1>14. ASSUME NEW c \in Calls, Serve(c) PROVE Reached'
  <2> DEFINE s == calls[c].session
  <2>1. calls[c] # None /\ s \in Sessions /\ UNCHANGED <<canvas, inFlightRefresh>>
    BY <1>14, Answers DEF Serve
  <2>2. /\ Refused \in Outcome /\ Refused.version = 0 /\ Refused.state = "refused"
        /\ Served \in Outcome /\ Served.version = 0 /\ Served.state = "served"
    BY Outcomes DEF Refused, Served
  <2>6. Refused.version <= version'[s] /\ Served.version <= version'[s]
    BY <1>0, <2>1, <2>2
  <2>3. CASE calls' = [calls EXCEPT ![c] = [calls[c] EXCEPT !.answer = Refused]]
    BY <1>13, <2>1, <2>2, <2>3, <2>6
  <2>4. CASE /\ calls' = [calls EXCEPT ![c] = [calls[c] EXCEPT !.answer = Served]]
             /\ calls[c].op # "push"
    BY <1>13, <2>1, <2>2, <2>4, <2>6
  <2>5. CASE /\ calls' = [calls EXCEPT ![c] = [calls[c] EXCEPT !.answer = Served]]
             /\ calls[c].base = version[s] /\ Bump(s)
    <3>1. version'[s] = version[s] + 1
      <4>1. version' = [version EXCEPT ![s] = @ + 1]
        BY <2>5 DEF Bump
      <4> QED
        BY <2>1, <4>1 DEF TypeOK
    <3>2. calls[c].from.session = s => calls[c].from.version <= calls[c].base
      BY <2>1, <2>5, NoneAssumption DEF Reached
    <3>3. calls[c].base + 1 <= version'[s]
      BY <1>0, <2>1, <2>5, <3>1
    <3> QED
      BY <1>13, <2>1, <2>2, <2>5, <2>6, <3>2, <3>3
  <2> QED
    BY <1>14, <2>3, <2>4, <2>5, Zenon DEF Serve
<1>15. ASSUME NEW c \in Calls, Answer(c) PROVE Reached'
  <2> DEFINE a == Done(version[calls[c].session])
  <2>1. /\ calls[c] # None /\ UNCHANGED <<version, canvas, inFlightRefresh>>
        /\ calls' = [calls EXCEPT ![c] = [calls[c] EXCEPT !.answer = a]]
        /\ calls[c].op = "push" => calls[c].answer.state = "served"
    BY <1>15 DEF Answer, Served
  <2>2. a \in Outcome /\ a.version = version[calls[c].session]
    BY <1>0, <2>1, Answers, Outcomes DEF Done
  <2>3. a.version <= version'[calls[c].session]
    BY <1>0, <2>1, <2>2, Answers
  <2> HIDE DEF a
  <2> QED
    BY <1>3, <1>13, <2>1, <2>2, <2>3
<1>16. ASSUME NEW c \in Calls, Fail(c) PROVE Reached'
  <2>1. /\ calls[c] # None /\ UNCHANGED <<canvas, inFlightRefresh>>
        /\ calls' = [calls EXCEPT ![c] = [calls[c] EXCEPT !.answer = Failed]]
    BY <1>16 DEF Fail
  <2>2. Failed \in Outcome /\ Failed.version = 0 /\ Failed.state = "failed"
    BY Outcomes DEF Failed
  <2>3. Failed.version <= version'[calls[c].session]
    BY <1>0, <2>1, <2>2, Answers
  <2> QED
    BY <1>13, <2>1, <2>2, <2>3
<1>17. ASSUME NEW c \in Calls, Return(c) PROVE Reached'
  <2>1. calls[c] # None /\ UNCHANGED inFlightRefresh
        /\ \A d \in Calls : calls'[d] # None => calls'[d] = calls[d]
    BY <1>17 DEF Return, TypeOK
  <2>2. Sound(calls[c])
    BY <1>3, <2>1
  <2>3. \/ canvas' = canvas
        \/ canvas' = [session |-> calls[c].session, version |-> calls[c].answer.version]
        \/ /\ calls[c].op = "push" /\ calls[c].answer.state = "done"
           /\ canvas' = [session |-> calls[c].session, version |-> calls[c].base + 1]
    BY <1>17 DEF Return, Joined, Pushed, Accepted, Edited, Rejected
  <2>4. Shows(canvas')
    BY <1>1, <2>2, <2>3
  <2> QED
    BY <1>2, <1>3, <1>4, <2>1, <2>4
<1> QED
  <2>1. ASSUME \/ \E s \in Sessions : Change(s) \/ News(s)
               \/ Open \/ Break \/ Leave
               \/ UNCHANGED vars
        PROVE  Reached'
    BY <1>5, <2>1 DEF Change, News, Open, Break, Leave, vars
  <2> QED
    BY <1>6, <1>8, <1>9, <1>11, <1>12, <1>14, <1>15, <1>16, <1>17, <2>1 DEF Next

\* What can become of the canvas when a call returns: nothing; a join; or an answer
\* that, unless it is late, is about the session shown and no older than its graph.
LEMMA Returned ==
  ASSUME TypeOK, Reached, NEW c \in Calls, Return(c)
  PROVE  /\ UNCHANGED <<server, refreshing>>
         /\ \/ UNCHANGED <<store, canvas, stream, told, holes>>
            \/ Joined(c)
            \/ /\ UNCHANGED <<stream, told>>
               /\ holes \subseteq holes'
               /\ "late" \notin holes' =>
                    /\ sessionId' = sessionId /\ sessionId = calls[c].session
                    /\ canvas.session = sessionId =>
                         canvas'.session = sessionId /\ canvas'.version >= canvas.version
<1>1. CASE UNCHANGED <<store, canvas, stream, told, holes>>
  BY <1>1 DEF Return
<1>2. CASE Joined(c)
  BY <1>2 DEF Return
<1>3. ASSUME Pushed(c) \/ Accepted(c) \/ Edited(c) \/ Rejected(c),
             UNCHANGED <<stream, told>>, calls[c].answer.state = "done",
             holes' = IF \/ sessionId # calls[c].session
                         \/ Overtaken(calls[c].session, calls[c].answer.version)
                      THEN holes \cup {"late"} ELSE holes
      PROVE  /\ holes \subseteq holes'
             /\ "late" \notin holes' =>
                  /\ sessionId' = sessionId /\ sessionId = calls[c].session
                  /\ canvas.session = sessionId =>
                       canvas'.session = sessionId /\ canvas'.version >= canvas.version
  <2>1. "late" \notin holes' =>
          /\ sessionId = calls[c].session
          /\ ~Overtaken(calls[c].session, calls[c].answer.version)
    BY <1>3
  <2>2. calls[c].answer.version \in Nat /\ canvas.version \in Nat
    BY Answers DEF Return, TypeOK, Canvas
  <2>3. sessionId = calls[c].session => sessionId' = sessionId
    BY <1>3 DEF Pushed, Accepted, Edited, Rejected
  <2>4. ASSUME sessionId = calls[c].session, canvas.session = sessionId,
               canvas.version <= calls[c].answer.version
        PROVE  canvas'.session = sessionId /\ canvas'.version >= canvas.version
    <3>1. CASE Pushed(c) /\ canvas = calls[c].from
      <4>1. calls[c].base \in Nat /\ calls[c] # None /\ calls[c].op = "push"
        BY <3>1, Answers DEF Return, Pushed, Call
      <4>2. canvas.version <= calls[c].base
        BY <1>3, <2>4, <3>1, <4>1 DEF Reached
      <4> QED
        BY <2>2, <2>4, <3>1, <4>1, <4>2 DEF Pushed
    <3>2. CASE Pushed(c) /\ canvas # calls[c].from
      BY <2>2, <2>4, <3>2 DEF Pushed
    <3>3. CASE Accepted(c) \/ Edited(c) \/ Rejected(c)
      BY <2>2, <2>4, <3>3 DEF Accepted, Edited, Rejected
    <3> QED
      BY <1>3, <3>1, <3>2, <3>3
  <2> QED
    BY <1>3, <2>1, <2>2, <2>3, <2>4 DEF Overtaken
<1> QED
  BY <1>1, <1>2, <1>3, Zenon DEF Return

\* What a refresh leaves: the session shown, and, unless its GET failed or is
\* late, a graph on the canvas no older than before and than its answer.
LEMMA Refreshes ==
  ASSUME TypeOK, Refreshed
  PROVE  /\ UNCHANGED <<server, sessionId, stream, calls, told>>
         /\ holes \subseteq holes'
         /\ sessionId # inFlightRefresh.session => UNCHANGED canvas
         /\ sessionId = inFlightRefresh.session /\ holes' \cap {"failed", "late"} = {} =>
              \/ ~inFlightRefresh.graph /\ UNCHANGED canvas
              \/ /\ inFlightRefresh.answer # Failed
                 /\ canvas'.session = sessionId
                 /\ canvas'.version = inFlightRefresh.answer.version
                 /\ canvas.session = sessionId => canvas'.version >= canvas.version
         /\ canvas'.session \in {canvas.session, sessionId}
<1>1. inFlightRefresh.answer.version \in Nat /\ canvas.version \in Nat
  BY DEF Refreshed, TypeOK, Canvas, Refresh, Outcome
<1> QED
  BY <1>1 DEF Refreshed, StillThere, Overtaken

\* The canvas stays with its session.
LEMMA ShownStep ==
  ASSUME TypeOK, Reached, ShowsItsSession, [Next]_vars
  PROVE  ShowsItsSession'
<1>1. CASE UNCHANGED <<sessionId, canvas, subscription>> /\ holes \subseteq holes'
  BY <1>1 DEF ShowsItsSession
<1>2. CASE Refreshed
  BY <1>2, Refreshes DEF ShowsItsSession
<1>3. CASE Leave
  BY <1>3 DEF Leave, ShowsItsSession
<1>4. ASSUME NEW c \in Calls, Return(c) PROVE ShowsItsSession'
  <2>1. CASE Joined(c)
    BY <2>1 DEF Joined, ShowsItsSession
  <2> QED
    BY <1>4, <2>1, Returned DEF ShowsItsSession
<1> QED
  <2>1. ASSUME NEW s \in Sessions, Change(s) \/ News(s) PROVE ShowsItsSession'
    BY <1>1, <2>1, Grown DEF Change, News
  <2>2. ASSUME Open \/ Break \/ AnswerRefresh \/ HandleEvent PROVE ShowsItsSession'
    BY <1>1, <2>2 DEF Open, Break, AnswerRefresh, HandleEvent
  <2>3. ASSUME NEW c \in Calls,
               \/ \E s \in Sessions : Join(c, s)
               \/ \E op \in Operations : CallServer(c, op)
               \/ Answer(c) \/ Fail(c)
        PROVE  ShowsItsSession'
    BY <1>1, <2>3 DEF Join, CallServer, Answer, Fail
  <2>4. ASSUME NEW c \in Calls, Serve(c) PROVE ShowsItsSession'
    <3>1. holes \subseteq holes'
      BY <2>4 DEF Serve, Bump
    <3> QED
      BY <1>1, <2>4, <3>1 DEF Serve
  <2> QED
    BY <1>1, <1>2, <1>3, <1>4, <2>1, <2>2, <2>3, <2>4 DEF Next, vars

\* The server and the network tell of nothing that has not happened.
LEMMA BumpTells ==
  ASSUME NEW s \in Sessions, TypeOK, Told, Bump(s), UNCHANGED <<sessionId, told>>
  PROVE  Told'
<1>1. version[s] + 1 \in Nat /\ version'[s] = version[s] + 1
  <2>1. version' = [version EXCEPT ![s] = @ + 1]
    BY DEF Bump
  <2> QED
    BY <2>1 DEF TypeOK
<1>2. version' \in [Sessions -> Nat] /\ \A x \in Sessions : version'[x] >= version[x]
  BY Grown
<1>3. ASSUME NEW i \in DOMAIN events, events[i].told # None
      PROVE  events[i].told <= version'[events[i].session]
  <2>1. events[i] \in Event
    BY DEF TypeOK
  <2>2. events[i].told \in Nat /\ events[i].session \in Sessions
    BY <1>3, <2>1 DEF Event
  <2>3. events[i].told <= version[events[i].session]
    BY <1>3 DEF Told
  <2> QED
    BY <1>2, <2>2, <2>3 DEF TypeOK
<1>4. \A i \in DOMAIN events' :
        events'[i].told # None => events'[i].told <= version'[events'[i].session]
  <2> DEFINE e == [session |-> s, told |-> version[s] + 1]
  <2>1. e \in Event /\ e.session = s /\ e.told = version'[s]
    BY <1>1 DEF Event
  <2>2. Send(s, e)
    BY DEF Bump
  <2> HIDE DEF e
  <2>3. CASE events' = events
    BY <1>3, <2>3
  <2>4. CASE events' = Append(events, e)
    <3>1. ASSUME NEW i \in DOMAIN events', i \notin DOMAIN events PROVE events'[i] = e
      BY <2>4, <3>1 DEF TypeOK
    <3>2. ASSUME NEW i \in DOMAIN events PROVE events'[i] = events[i]
      BY <2>1, <2>4 DEF TypeOK
    <3>3. version'[s] <= version'[s]
      BY <1>2
    <3> QED
      BY <1>3, <2>1, <3>1, <3>2, <3>3
  <2> QED
    BY <2>2, <2>3, <2>4 DEF Send
<1>5. sessionId # None /\ "late" \notin holes' => told <= version'[sessionId]
  <2>1. holes \subseteq holes'
    BY DEF Bump
  <2> QED
    BY <1>2, <2>1 DEF Told, TypeOK
<1> QED
  BY <1>4, <1>5 DEF Told

\* News that are not about the graph tell of no version.
LEMMA TellTells ==
  ASSUME NEW s \in Sessions, TypeOK, Told, Tell(s), UNCHANGED <<version, sessionId, told, holes>>
  PROVE  Told'
<1> DEFINE e == [session |-> s, told |-> None]
<1>1. e \in Event /\ e.told = None
  BY DEF Event
<1>2. Send(s, e)
  BY DEF Tell
<1> HIDE DEF e
<1>3. CASE events' = events
  BY <1>3 DEF Told
<1>4. CASE events' = Append(events, e)
  <2>1. ASSUME NEW i \in DOMAIN events', i \notin DOMAIN events PROVE events'[i] = e
    BY <1>4, <2>1 DEF TypeOK
  <2>2. ASSUME NEW i \in DOMAIN events PROVE events'[i] = events[i]
    BY <1>1, <1>4 DEF TypeOK
  <2> QED
    BY <1>1, <2>1, <2>2 DEF Told
<1> QED
  BY <1>2, <1>3, <1>4 DEF Send

\* A version is told of once it is reached, and versions do not fall.
LEMMA ToldStep ==
  ASSUME TypeOK, Reached, Told, [Next]_vars
  PROVE  Told'
<1>1. ASSUME UNCHANGED <<version, sessionId, told, events>>, holes \subseteq holes' PROVE Told'
  BY <1>1 DEF Told
<1>2. ASSUME NEW s \in Sessions, Change(s) PROVE Told'
  BY <1>2, BumpTells DEF Change
<1>3. ASSUME NEW s \in Sessions, News(s) PROVE Told'
  BY <1>3, TellTells DEF News
<1>4. ASSUME Open PROVE Told'
  BY <1>1, <1>4 DEF Open
<1>5. ASSUME Break PROVE Told'
  <2>1. \A i \in DOMAIN events' : FALSE
    BY <1>5, NoEvents DEF Break
  <2>2. UNCHANGED <<version, sessionId, told>> /\ holes \subseteq holes'
    BY <1>5 DEF Break
  <2> QED
    BY <2>1, <2>2 DEF Told
<1>6. ASSUME AnswerRefresh PROVE Told'
  BY <1>1, <1>6 DEF AnswerRefresh
<1>7. ASSUME HandleEvent PROVE Told'
  <2>1. /\ 1 \in DOMAIN events /\ Head(events) = events[1]
        /\ \A i \in DOMAIN events' : i + 1 \in DOMAIN events /\ events'[i] = events[i + 1]
    BY <1>7 DEF HandleEvent, TypeOK
  <2>2. UNCHANGED <<version, sessionId, holes>>
    BY <1>7 DEF HandleEvent
  <2>3. \A i \in DOMAIN events' :
          events'[i].told # None => events'[i].told <= version'[events'[i].session]
    BY <2>1, <2>2 DEF Told
  <2>4. sessionId # None /\ "late" \notin holes => told' <= version[sessionId]
    BY <1>7, <2>1 DEF HandleEvent, Told, IsGraphEvent
  <2> QED
    BY <2>2, <2>3, <2>4 DEF Told
<1>8. ASSUME Refreshed PROVE Told'
  BY <1>1, <1>8, Refreshes
<1>9. ASSUME Leave PROVE Told'
  <2>1. \A i \in DOMAIN events' : FALSE
    BY <1>9, NoEvents DEF Leave
  <2> QED
    BY <1>9, <2>1 DEF Told, Leave
<1>10. ASSUME NEW c \in Calls, NEW s \in Sessions, Join(c, s) PROVE Told'
  BY <1>1, <1>10 DEF Join
<1>11. ASSUME NEW c \in Calls, NEW op \in Operations, CallServer(c, op) PROVE Told'
  BY <1>1, <1>11 DEF CallServer
<1>12. ASSUME NEW c \in Calls, Serve(c) PROVE Told'
  <2>1. calls[c].session \in Sessions /\ UNCHANGED <<sessionId, told>>
    BY <1>12, Answers DEF Serve
  <2>2. CASE Bump(calls[c].session)
    BY <2>1, <2>2, BumpTells
  <2>3. CASE Tell(calls[c].session) /\ UNCHANGED <<version, holes>>
    BY <2>1, <2>3, TellTells
  <2>4. CASE UNCHANGED <<version, events, holes>>
    BY <1>1, <2>1, <2>4
  <2> QED
    BY <1>12, <2>2, <2>3, <2>4, Zenon DEF Serve
<1>13. ASSUME NEW c \in Calls, Answer(c) \/ Fail(c) PROVE Told'
  BY <1>1, <1>13 DEF Answer, Fail
<1>14. ASSUME NEW c \in Calls, Return(c) PROVE Told'
  <2>1. UNCHANGED version
    BY <1>14 DEF Return
  <2>2. CASE Joined(c)
    <3>1. \A i \in DOMAIN events' : FALSE
      BY <2>2, NoEvents DEF Joined
    <3>2. told' = 0 /\ sessionId' \in Sessions
      BY <1>14, <2>2, Answers DEF Joined, Return
    <3>3. told' <= version'[sessionId']
      BY <2>1, <3>2 DEF TypeOK
    <3> QED
      BY <3>1, <3>3 DEF Told
  <2> QED
    BY <1>14, <2>1, <2>2, Returned DEF Told
<1> QED
  BY <1>1, <1>2, <1>3, <1>4, <1>5, <1>6, <1>7, <1>8, <1>9, <1>10, <1>11, <1>12, <1>13,
     <1>14 DEF Next, vars

\* A graph told of reaches the canvas by the next refresh or by the one after: the
\* event is queued behind a refresh or starts one, and none overwrites it there.
LEMMA OnItsWayStep ==
  ASSUME ClientInv, [Next]_vars
  PROVE  OnItsWay'
<1> USE DEF ClientInv
<1>1. ASSUME UNCHANGED <<sessionId, canvas, told, refreshing>>, holes \subseteq holes'
      PROVE  OnItsWay'
  BY <1>1 DEF OnItsWay
<1>2. ASSUME AnswerRefresh PROVE OnItsWay'
  <2>1. PICK a \in {Done(version[inFlightRefresh.session]), Failed} :
          inFlightRefresh' = [inFlightRefresh EXCEPT !.answer = a]
    BY <1>2 DEF AnswerRefresh
  <2>2. inFlightRefresh \in Refresh /\ inFlightRefresh # None /\ a \in Outcome
    <3>1. inFlightRefresh \in Refresh /\ inFlightRefresh # None
      BY <1>2 DEF AnswerRefresh, TypeOK
    <3>2. version[inFlightRefresh.session] \in Nat
      BY <3>1 DEF TypeOK, Refresh
    <3> QED
      BY <3>1, <3>2, Outcomes
  <2>3. /\ inFlightRefresh' # None
        /\ inFlightRefresh'.session = inFlightRefresh.session
        /\ inFlightRefresh'.graph = inFlightRefresh.graph
        /\ inFlightRefresh'.answer = a
    BY <2>1, <2>2, AnsweredRefresh, NoneAssumption
  <2>4. UNCHANGED <<sessionId, canvas, told, queuedEvent, holes>>
    BY <1>2 DEF AnswerRefresh
  <2>5. sessionId # None /\ "late" \notin holes /\ inFlightRefresh.session = sessionId =>
          a = Failed \/ a.version >= told
    BY DEF Done, Told, TypeOK
  <2> QED
    BY <2>2, <2>3, <2>4, <2>5 DEF OnItsWay
<1>3. ASSUME HandleEvent PROVE OnItsWay'
  <2> DEFINE e == Head(events)
  <2>1. e \in Event
    BY <1>3 DEF HandleEvent, TypeOK
  <2>2. UNCHANGED <<sessionId, canvas, holes>>
    BY <1>3 DEF HandleEvent
  <2>3. CASE sessionId # e.session
    BY <1>3, <2>3, <1>1 DEF HandleEvent
  <2>4. CASE sessionId = e.session /\ inFlightRefresh # None
    <3>1. UNCHANGED inFlightRefresh /\ queuedEvent' = Queued(queuedEvent, e)
          /\ told' = IF IsGraphEvent(e) THEN e.told ELSE told
      BY <1>3, <2>4 DEF HandleEvent
    <3>2. CASE IsGraphEvent(e)
      BY <2>1, <2>2, <2>4, <3>1, <3>2, NoneAssumption DEF OnItsWay, Queued
    <3>3. CASE ~IsGraphEvent(e)
      BY <2>2, <3>1, <3>3 DEF OnItsWay, Queued
    <3> QED
      BY <3>2, <3>3
  <2>5. CASE sessionId = e.session /\ inFlightRefresh = None
    <3>1. queuedEvent' = queuedEvent /\ queuedEvent = None /\ inFlightRefresh' = StartRefresh(e)
          /\ told' = IF IsGraphEvent(e) THEN e.told ELSE told
      BY <1>3, <2>5 DEF HandleEvent, TypeOK
    <3>2. CASE IsGraphEvent(e)
      BY <2>1, <2>2, <2>5, <3>1, <3>2, StartedRefresh, NoneAssumption DEF OnItsWay, IsGraphEvent
    <3>3. CASE ~IsGraphEvent(e)
      BY <2>2, <2>5, <3>1, <3>3 DEF OnItsWay
    <3> QED
      BY <3>2, <3>3
  <2> QED
    BY <2>3, <2>4, <2>5
<1>4. ASSUME Refreshed PROVE OnItsWay'
  <2> SUFFICES ASSUME sessionId' # None, holes' \cap {"failed", "late"} = {}
               PROVE  \/ canvas'.version >= told'
                      \/ /\ inFlightRefresh' # None
                         /\ inFlightRefresh'.session = sessionId'
                         /\ inFlightRefresh'.graph
                         /\ inFlightRefresh'.answer = Asked
    BY DEF OnItsWay
  <2>1. /\ UNCHANGED <<sessionId, told>> /\ holes \cap {"failed", "late"} = {}
        /\ canvas.session = sessionId /\ sessionId # None
    BY <1>4, Refreshes DEF ShowsItsSession
  <2>2. canvas.version \in Nat /\ told \in Nat /\ inFlightRefresh.answer.version \in Nat
        /\ inFlightRefresh.answer # Asked
    BY <1>4 DEF Refreshed, TypeOK, Canvas, Refresh, Outcome
  <2>3. UNCHANGED canvas \/ canvas'.version >= canvas.version
    BY <1>4, <2>1, Refreshes
  <2>4. CASE canvas.version >= told
    <3>1. canvas'.version \in Nat
      BY <1>4, <2>2, Refreshes DEF Refreshed, StillThere
    <3> QED
      BY <2>1, <2>2, <2>3, <2>4, <3>1
  <2>5. CASE queuedEvent # None /\ queuedEvent.session = sessionId /\ IsGraphEvent(queuedEvent)
    <3>1. queuedEvent \in Event
      BY <2>5 DEF TypeOK
    <3>2. inFlightRefresh' = StartRefresh(queuedEvent)
      BY <1>4, <2>5 DEF Refreshed, GoOn
    <3> QED
      BY <2>1, <2>5, <3>1, <3>2, StartedRefresh, NoneAssumption DEF IsGraphEvent
  <2>6. CASE /\ inFlightRefresh.session = sessionId /\ inFlightRefresh.graph
             /\ inFlightRefresh.answer = Failed \/ inFlightRefresh.answer.version >= told
    BY <1>4, <2>1, <2>6, Refreshes
  <2> QED
    BY <2>1, <2>2, <2>4, <2>5, <2>6 DEF OnItsWay
<1>5. ASSUME NEW c \in Calls, Return(c) PROVE OnItsWay'
  <2>1. CASE Joined(c)
    <3>1. canvas'.version \in Nat /\ told' = 0
      BY <1>5, <2>1, Answers DEF Joined, Return
    <3> QED
      BY <3>1 DEF OnItsWay
  <2>2. ASSUME UNCHANGED told, holes \subseteq holes',
               "late" \notin holes' =>
                 /\ sessionId' = sessionId
                 /\ canvas.session = sessionId => canvas'.version >= canvas.version
        PROVE  OnItsWay'
    <3>1. told \in Nat /\ canvas.version \in Nat
      BY DEF TypeOK, Canvas
    <3>2. canvas'.version \in Nat
      <4>1. TypeOK'
        BY TypeStep
      <4> QED
        BY <4>1 DEF TypeOK, Canvas
    <3>3. UNCHANGED refreshing
      BY <1>5 DEF Return
    <3> QED
      BY <2>2, <3>1, <3>2, <3>3 DEF OnItsWay, ShowsItsSession
  <2>3. CASE UNCHANGED <<store, canvas, stream, told, holes>>
    BY <1>1, <1>5, <2>3 DEF Return
  <2> QED
    BY <1>5, <2>1, <2>2, <2>3, Returned
<1> QED
  <2>1. ASSUME Leave PROVE OnItsWay'
    BY <2>1 DEF Leave, OnItsWay
  <2>2. ASSUME NEW s \in Sessions, Change(s) \/ News(s) PROVE OnItsWay'
    BY <1>1, <2>2, Grown DEF Change, News
  <2>3. ASSUME Open \/ Break PROVE OnItsWay'
    BY <1>1, <2>3 DEF Open, Break
  <2>4. ASSUME NEW c \in Calls,
               \/ \E s \in Sessions : Join(c, s)
               \/ \E op \in Operations : CallServer(c, op)
               \/ Answer(c) \/ Fail(c)
        PROVE  OnItsWay'
    BY <1>1, <2>4 DEF Join, CallServer, Answer, Fail
  <2>5. ASSUME NEW c \in Calls, Serve(c) PROVE OnItsWay'
    <3>1. holes \subseteq holes'
      BY <2>5 DEF Serve, Bump
    <3> QED
      BY <1>1, <2>5, <3>1 DEF Serve
  <2> QED
    BY <1>1, <1>2, <1>3, <1>4, <1>5, <2>1, <2>2, <2>3, <2>4, <2>5 DEF Next, vars

\* The five parts of the invariant are kept together.
LEMMA Step == ASSUME ClientInv, [Next]_vars PROVE ClientInv'
BY TypeStep, ReachedStep, ShownStep, ToldStep, OnItsWayStep DEF ClientInv

\* The invariant of a tab, from which its properties follow.
LEMMA Invariant == Spec => []ClientInv
<1>1. Init => ClientInv
  BY Start
<1>2. ClientInv /\ [Next]_vars => ClientInv'
  BY Step
<1> QED
  BY <1>1, <1>2, PTL DEF Spec

\* The server answers a push after it has carried it out.
LEMMA LaterStep ==
  ASSUME TypeOK, Reached, AnswersAreLater, [Next]_vars
  PROVE  AnswersAreLater'
<1> DEFINE Later(k) == k.op = "push" /\ k.answer.state = "done" => k.base + 1 <= k.answer.version
<1>1. ASSUME NEW c \in Calls, NEW k, calls' = [calls EXCEPT ![c] = k], k # None => Later(k)
      PROVE  AnswersAreLater'
  BY <1>1 DEF AnswersAreLater, TypeOK
<1>2. ASSUME UNCHANGED calls PROVE AnswersAreLater'
  BY <1>2 DEF AnswersAreLater
<1>3. ASSUME NEW c \in Calls, NEW op, NEW s, NEW from, NEW base, Ask(c, op, s, from, base)
      PROVE  AnswersAreLater'
  <2> DEFINE k == [op |-> op, session |-> s, from |-> from, base |-> base, answer |-> Asked]
  <2>1. calls' = [calls EXCEPT ![c] = k]
    BY <1>3 DEF Ask
  <2>2. Later(k)
    BY DEF Asked
  <2> HIDE DEF k
  <2> QED
    BY <1>1, <2>1, <2>2
<1>4. ASSUME NEW c \in Calls, calls[c] # None, NEW a \in Outcome,
             calls' = [calls EXCEPT ![c] = [calls[c] EXCEPT !.answer = a]],
             calls[c].op = "push" /\ a.state = "done" => calls[c].base + 1 <= a.version
      PROVE  AnswersAreLater'
  <2> DEFINE k == [calls[c] EXCEPT !.answer = a]
  <2>1. k.base = calls[c].base /\ k.op = calls[c].op /\ k.answer = a
    BY <1>4 DEF TypeOK, Call
  <2>2. calls' = [calls EXCEPT ![c] = k]
    BY <1>4
  <2> HIDE DEF k
  <2>3. Later(k)
    BY <1>4, <2>1
  <2> QED
    BY <1>1, <2>2, <2>3
<1>5. ASSUME NEW c \in Calls, Serve(c) PROVE AnswersAreLater'
  <2>1. \E a \in {Refused, Served} : calls' = [calls EXCEPT ![c] = [calls[c] EXCEPT !.answer = a]]
    BY <1>5, Zenon DEF Serve
  <2>2. calls[c] # None
    BY <1>5 DEF Serve
  <2>3. \A a \in {Refused, Served} : a \in Outcome /\ a.state # "done"
    BY Outcomes DEF Refused, Served
  <2> QED
    BY <1>4, <2>1, <2>2, <2>3
<1>6. ASSUME NEW c \in Calls, Answer(c) PROVE AnswersAreLater'
  <2> DEFINE a == Done(version[calls[c].session])
  <2>1. /\ calls[c] # None
        /\ calls' = [calls EXCEPT ![c] = [calls[c] EXCEPT !.answer = a]]
        /\ calls[c].op = "push" => calls[c].answer.state = "served"
    BY <1>6 DEF Answer, Served
  <2>2. a \in Outcome /\ a.version = version[calls[c].session]
    BY <2>1, Answers, Outcomes DEF Done, TypeOK
  <2>3. calls[c].op = "push" => calls[c].base + 1 <= a.version
    BY <2>1, <2>2 DEF Reached
  <2> HIDE DEF a
  <2> QED
    BY <1>4, <2>1, <2>2, <2>3
<1>7. ASSUME NEW c \in Calls, Fail(c) PROVE AnswersAreLater'
  BY <1>4, <1>7, Outcomes DEF Fail, Failed
<1>8. ASSUME NEW c \in Calls, Return(c) PROVE AnswersAreLater'
  BY <1>1, <1>8 DEF Return
<1> QED
  <2>1. ASSUME NEW c \in Calls, NEW s \in Sessions, Join(c, s) PROVE AnswersAreLater'
    BY <1>3, <2>1 DEF Join
  <2>2. ASSUME NEW c \in Calls, NEW op \in Operations, CallServer(c, op) PROVE AnswersAreLater'
    BY <1>3, <2>2 DEF CallServer
  <2>3. ASSUME \/ \E s \in Sessions : Change(s) \/ News(s)
               \/ Open \/ Break \/ AnswerRefresh \/ HandleEvent \/ Refreshed \/ Leave
               \/ UNCHANGED vars
        PROVE  AnswersAreLater'
    BY <1>2, <2>3 DEF Change, News, Open, Break, AnswerRefresh, HandleEvent, Refreshed, Leave, vars
  <2> QED
    BY <1>5, <1>6, <1>7, <1>8, <2>1, <2>2, <2>3 DEF Next

\* What the steps that are not the store's own leave of it.
LEMMA StoreIsLeft ==
  ASSUME TypeOK, [Next]_vars,
         ~Refreshed, ~Leave, \A c \in Calls : ~Return(c)
  PROVE  UNCHANGED <<store, canvas>> /\ holes \subseteq holes'
<1>1. ASSUME NEW c \in Calls, Serve(c)
      PROVE  UNCHANGED <<store, canvas>> /\ holes \subseteq holes'
  BY <1>1 DEF Serve, Bump
<1>2. ASSUME NEW s \in Sessions, Change(s) \/ News(s)
      PROVE  UNCHANGED <<store, canvas>> /\ holes \subseteq holes'
  BY <1>2, Grown DEF Change, News
<1> QED
  BY <1>1, <1>2
     DEF Next, vars, Open, Break, AnswerRefresh, HandleEvent, Join, CallServer, Answer, Fail

\* Whatever the store takes for its version comes with a graph no newer, and was
\* the session's.
LEMMA HeldStep ==
  ASSUME ClientInv, AnswersAreLater, VersionIsHeld, [Next]_vars
  PROVE  VersionIsHeld'
<1> USE DEF ClientInv
<1>0. \A x \in Sessions : version[x] \in Nat /\ version'[x] \in Nat /\ version'[x] >= version[x]
  BY VersionsGrow
<1>1. canvas.version \in Nat /\ (sessionId # None => clientVersion \in Nat /\ sessionId \in Sessions)
  BY DEF TypeOK, Canvas
<1>2. CASE UNCHANGED <<store, canvas>> /\ holes \subseteq holes'
  BY <1>0, <1>1, <1>2 DEF VersionIsHeld
<1>3. CASE Refreshed
  <2> SUFFICES ASSUME sessionId' # None, "late" \notin holes'
               PROVE  canvas'.version <= clientVersion' /\ clientVersion' <= version'[sessionId']
    BY DEF VersionIsHeld
  <2>1. UNCHANGED <<version, sessionId>> /\ "late" \notin holes /\ inFlightRefresh # None
    BY <1>3, Refreshes DEF Refreshed
  <2>2. CASE UNCHANGED <<clientVersion, canvas>>
    BY <2>1, <2>2 DEF VersionIsHeld
  <2>3. ASSUME sessionId = inFlightRefresh.session,
               clientVersion' = inFlightRefresh.answer.version,
               canvas' = IF inFlightRefresh.graph
                         THEN [session |-> sessionId, version |-> inFlightRefresh.answer.version]
                         ELSE canvas,
               ~Overtaken(sessionId, inFlightRefresh.answer.version)
        PROVE  canvas'.version <= clientVersion' /\ clientVersion' <= version'[sessionId']
    <3>1. inFlightRefresh.answer.version \in Nat
      BY <2>1 DEF TypeOK, Refresh, Outcome
    <3>2. inFlightRefresh.answer.version <= version[sessionId]
      BY <2>1, <2>3 DEF Reached
    <3>3. canvas.version <= inFlightRefresh.answer.version
      BY <1>1, <2>1, <2>3, <3>1 DEF Overtaken, ShowsItsSession
    <3> QED
      BY <2>1, <2>3, <3>1, <3>2, <3>3
  <2> QED
    BY <1>3, <2>2, <2>3 DEF Refreshed, StillThere
<1>4. CASE Leave
  BY <1>4 DEF Leave, VersionIsHeld
<1>5. ASSUME NEW c \in Calls, Return(c) PROVE VersionIsHeld'
  <2> DEFINE s == calls[c].session
             v == calls[c].answer.version
  <2>1. /\ calls[c] # None /\ s \in Sessions /\ v \in Nat /\ UNCHANGED version
        /\ v <= version[s]
    BY <1>5, Answers DEF Return, Reached
  <2>2. CASE Joined(c)
    BY <2>1, <2>2 DEF Joined, VersionIsHeld
  <2>3. CASE UNCHANGED <<store, canvas, holes>>
    BY <1>2, <2>3
  <2>4. ASSUME Pushed(c) \/ Accepted(c) \/ Edited(c) \/ Rejected(c),
               calls[c].answer.state = "done",
               "late" \notin holes, sessionId = s, ~Overtaken(s, v)
        PROVE  sessionId' = s /\ clientVersion' = v /\ canvas'.version <= v
    <3>1. canvas.version <= v
      BY <1>1, <2>1, <2>4, NoneAssumption DEF Overtaken, ShowsItsSession
    <3>2. calls[c].op = "push" => calls[c].base + 1 <= v
      BY <2>1, <2>4 DEF AnswersAreLater
    <3> QED
      BY <2>1, <2>4, <3>1, <3>2 DEF Pushed, Accepted, Edited, Rejected
  <2> QED
    BY <1>5, <2>1, <2>2, <2>3, <2>4 DEF Return, VersionIsHeld
<1> QED
  BY <1>2, <1>3, <1>4, <1>5, StoreIsLeft

\* A change of the session is put on the stream or is a gap.
LEMMA BumpIsHeard ==
  ASSUME NEW s \in Sessions, ClientInv, NothingIsMissed, Bump(s),
         UNCHANGED <<sessionId, canvas, told, subscription>>
  PROVE  NothingIsMissed'
<1> SUFFICES ASSUME sessionId # None, holes' = {}
             PROVE  NothingIsMissed'
  BY DEF NothingIsMissed
<1> DEFINE e == [session |-> s, told |-> version[s] + 1]
<1>0. version' = [version EXCEPT ![s] = version[s] + 1]
  BY DEF Bump
<1>1. /\ version[s] + 1 \in Nat /\ version' = [version EXCEPT ![s] = version[s] + 1]
      /\ events \in Seq(Event) /\ sessionId \in Sessions /\ DOMAIN version = Sessions
  BY <1>0 DEF ClientInv, TypeOK
<1>2. e \in Event /\ e.told = version[s] + 1 /\ e.told # None
  BY <1>1, NoneAssumption DEF Event
<1>3. Send(s, e)
  BY DEF Bump
<1> HIDE DEF e
<1>4. holes = {} /\ (subscription = s => opened)
  BY DEF Bump
<1>5. subscription = sessionId
  BY <1>4 DEF ClientInv, ShowsItsSession
<1>6. CASE s = sessionId
  <2>1. events' = Append(events, e)
    BY <1>3, <1>4, <1>5, <1>6 DEF Send
  <2>2. /\ DOMAIN events' = 1 .. Len(events) + 1 /\ events'[Len(events) + 1] = e
        /\ Len(events) \in Nat
    BY <1>1, <1>2, <2>1
  <2>3. ASSUME NEW i \in DOMAIN events', events'[i].told # None,
               \A j \in DOMAIN events' : i < j => events'[j].told = None
        PROVE  i = Len(events) + 1
    BY <1>2, <2>2, <2>3
  <2>4. Len(events) + 1 \in DOMAIN events' /\ events'[Len(events) + 1].told # None
    BY <1>2, <2>2
  <2>5. version'[sessionId] = e.told
    BY <1>1, <1>2, <1>6
  <2> QED
    BY <1>2, <2>2, <2>3, <2>4, <2>5 DEF NothingIsMissed
<1>7. CASE s # sessionId
  <2>1. events' = events /\ version'[sessionId] = version[sessionId]
    BY <1>1, <1>3, <1>5, <1>7 DEF Send
  <2> QED
    BY <1>4, <2>1 DEF NothingIsMissed
<1> QED
  BY <1>6, <1>7

\* News of another kind take no graph event away.
LEMMA TellIsHeard ==
  ASSUME NEW s \in Sessions, ClientInv, NothingIsMissed, Tell(s),
         UNCHANGED <<version, sessionId, canvas, told, holes>>
  PROVE  NothingIsMissed'
<1> DEFINE e == [session |-> s, told |-> None]
<1>1. e \in Event /\ e.told = None /\ events \in Seq(Event)
  BY DEF Event, ClientInv, TypeOK
<1>2. Send(s, e)
  BY DEF Tell
<1> HIDE DEF e
<1>3. CASE events' = events
  BY <1>3 DEF NothingIsMissed
<1>4. CASE events' = Append(events, e)
  <2>1. /\ DOMAIN events = 1 .. Len(events) /\ Len(events) \in Nat
        /\ DOMAIN events' = 1 .. Len(events) + 1 /\ events'[Len(events) + 1] = e
        /\ \A i \in DOMAIN events : events'[i] = events[i]
    BY <1>1, <1>4
  <2>2. \A i \in DOMAIN events' : events'[i].told # None =>
          i \in DOMAIN events /\ events'[i] = events[i]
    BY <1>1, <2>1
  <2>3. DOMAIN events \subseteq DOMAIN events'
    BY <2>1
  <2> QED
    BY <2>1, <2>2, <2>3 DEF NothingIsMissed
<1> QED
  BY <1>2, <1>3, <1>4 DEF Send

\* The canvas falls behind through a hole only.
LEMMA MissedStep ==
  ASSUME ClientInv, NothingIsMissed, [Next]_vars
  PROVE  NothingIsMissed'
<1>1. ASSUME UNCHANGED <<version, sessionId, canvas, told, events>>, holes \subseteq holes'
      PROVE  NothingIsMissed'
  BY <1>1 DEF NothingIsMissed
<1>2. ASSUME NEW s \in Sessions, Change(s) PROVE NothingIsMissed'
  BY <1>2, BumpIsHeard DEF Change
<1>3. ASSUME NEW s \in Sessions, News(s) PROVE NothingIsMissed'
  BY <1>3, TellIsHeard DEF News
<1>4. ASSUME Break PROVE NothingIsMissed'
  <2>1. CASE events = <<>>
    BY <1>1, <1>4, <2>1 DEF Break
  <2>2. CASE events # <<>>
    BY <1>4, <2>2 DEF Break, NothingIsMissed
  <2> QED
    BY <2>1, <2>2
<1>5. ASSUME HandleEvent PROVE NothingIsMissed'
  <2> SUFFICES ASSUME sessionId # None, holes = {}
               PROVE  NothingIsMissed'
    BY <1>5 DEF HandleEvent, NothingIsMissed
  <2> DEFINE e == Head(events)
             n == Len(events)
  <2>1. /\ n \in Nat /\ DOMAIN events = 1 .. n /\ 1 \in DOMAIN events /\ e = events[1]
        /\ DOMAIN events' = 1 .. n - 1
        /\ \A i \in 1 .. n - 1 : events'[i] = events[i + 1]
    BY <1>5 DEF HandleEvent, ClientInv, TypeOK
  <2>2. UNCHANGED <<version, sessionId, canvas, holes>>
    BY <1>5 DEF HandleEvent
  <2>3. e.session = sessionId
    BY <2>1 DEF ClientInv, TypeOK, ShowsItsSession
  <2>4. told' = IF e.told # None THEN e.told ELSE told
    BY <1>5, <2>3 DEF HandleEvent, IsGraphEvent
  <2> HIDE DEF e, n
  <2>5. ASSUME NEW i \in DOMAIN events', events'[i].told # None,
               \A j \in DOMAIN events' : i < j => events'[j].told = None
        PROVE  events'[i].told = version'[sessionId']
    <3>1. i + 1 \in DOMAIN events /\ events[i + 1].told # None
      BY <2>1, <2>5
    <3>2. ASSUME NEW j \in DOMAIN events, i + 1 < j PROVE events[j].told = None
      <4>1. j - 1 \in DOMAIN events' /\ i < j - 1 /\ events'[j - 1] = events[j]
        BY <2>1, <3>2
      <4> QED
        BY <2>5, <4>1
    <3>3. events[i + 1].told = version[sessionId]
      BY <3>1, <3>2 DEF NothingIsMissed
    <3> QED
      BY <2>1, <2>2, <3>3
  <2>6. ASSUME \A i \in DOMAIN events' : events'[i].told = None
        PROVE  told' = version'[sessionId'] \/ canvas'.version >= version'[sessionId']
    <3>1. ASSUME NEW j \in DOMAIN events, 1 < j PROVE events[j].told = None
      <4>1. j - 1 \in DOMAIN events' /\ events'[j - 1] = events[j]
        BY <2>1, <3>1
      <4> QED
        BY <2>6, <4>1
    <3>2. CASE e.told # None
      <4>1. events[1].told = version[sessionId]
        BY <2>1, <3>1, <3>2 DEF NothingIsMissed
      <4> QED
        BY <2>1, <2>2, <2>4, <3>2, <4>1
    <3>3. CASE e.told = None
      <4>1. \A i \in DOMAIN events : events[i].told = None
        BY <2>1, <3>1, <3>3
      <4> QED
        BY <2>2, <2>4, <3>3, <4>1 DEF NothingIsMissed
    <3> QED
      BY <3>2, <3>3
  <2> QED
    BY <2>5, <2>6 DEF NothingIsMissed
\* A canvas that is not overtaken does not go back.
<1>6. ASSUME UNCHANGED <<version, sessionId, told, events>>, holes \subseteq holes',
             holes' = {} => canvas'.version >= canvas.version
      PROVE  NothingIsMissed'
  <2> SUFFICES ASSUME sessionId # None, holes' = {}
               PROVE  NothingIsMissed'
    BY <1>6 DEF NothingIsMissed
  <2>1. canvas.version \in Nat /\ canvas'.version \in Nat /\ version[sessionId] \in Nat
    <3>1. TypeOK'
      BY TypeStep DEF ClientInv
    <3> QED
      BY <3>1 DEF ClientInv, TypeOK, Canvas
  <2>2. canvas.version >= version[sessionId] => canvas'.version >= version[sessionId]
    BY <1>6, <2>1
  <2> QED
    BY <1>6, <2>2 DEF NothingIsMissed
<1>7. ASSUME Refreshed PROVE NothingIsMissed'
  <2>1. canvas.version \in Nat
    BY DEF ClientInv, TypeOK, Canvas
  <2>2. sessionId # None /\ holes' = {} => canvas'.version >= canvas.version
    BY <1>7, <2>1, Refreshes DEF ClientInv, ShowsItsSession
  <2>3. CASE sessionId = None
    BY <1>7, <2>3, Refreshes DEF ClientInv, NothingIsMissed
  <2> QED
    BY <1>6, <1>7, <2>2, <2>3, Refreshes DEF ClientInv
<1>8. ASSUME Leave PROVE NothingIsMissed'
  BY <1>8 DEF Leave, NothingIsMissed
<1>9. ASSUME NEW c \in Calls, Serve(c) PROVE NothingIsMissed'
  <2>1. calls[c].session \in Sessions /\ UNCHANGED <<sessionId, canvas, told, subscription>>
    BY <1>9, Answers DEF Serve, ClientInv
  <2>2. CASE Bump(calls[c].session)
    BY <2>1, <2>2, BumpIsHeard
  <2>3. CASE Tell(calls[c].session) /\ UNCHANGED <<version, holes>>
    BY <2>1, <2>3, TellIsHeard
  <2>4. CASE UNCHANGED <<version, events, holes>>
    BY <1>1, <2>1, <2>4
  <2> QED
    BY <1>9, <2>2, <2>3, <2>4, Zenon DEF Serve
<1>10. ASSUME NEW c \in Calls, Return(c) PROVE NothingIsMissed'
  <2>1. CASE Joined(c)
    <3>1. UNCHANGED version /\ calls[c].session \in Sessions
      BY <1>10, Answers DEF Return, ClientInv
    <3>2. \A i \in DOMAIN events' : FALSE
      BY <2>1, NoEvents DEF Joined
    <3>3. sessionId' = calls[c].session /\ canvas'.version = calls[c].answer.version
          /\ (holes' = {} => version[calls[c].session] = calls[c].answer.version)
      BY <2>1 DEF Joined
    <3>4. version[calls[c].session] \in Nat
      BY <3>1 DEF ClientInv, TypeOK
    <3> QED
      BY <3>1, <3>2, <3>3, <3>4 DEF NothingIsMissed
  <2>2. CASE UNCHANGED <<store, canvas, stream, told, holes>>
    BY <1>1, <1>10, <2>2 DEF Return
  <2>3. ASSUME UNCHANGED <<stream, told>>, holes \subseteq holes',
               "late" \notin holes' =>
                 /\ sessionId' = sessionId
                 /\ canvas.session = sessionId => canvas'.version >= canvas.version
        PROVE  NothingIsMissed'
    <3>1. UNCHANGED version
      BY <1>10 DEF Return
    <3>2. CASE holes' = {} /\ sessionId # None
      BY <1>6, <2>3, <3>1, <3>2 DEF ClientInv, ShowsItsSession
    <3>3. CASE holes' # {} \/ sessionId = None
      BY <2>3, <3>3 DEF NothingIsMissed
    <3> QED
      BY <3>2, <3>3
  <2> QED
    BY <1>10, <2>1, <2>2, <2>3, Returned DEF ClientInv
<1> QED
  <2>1. ASSUME NEW c \in Calls,
               \/ \E s \in Sessions : Join(c, s)
               \/ \E op \in Operations : CallServer(c, op)
               \/ Answer(c) \/ Fail(c)
        PROVE  NothingIsMissed'
    BY <1>1, <2>1 DEF Join, CallServer, Answer, Fail
  <2>2. ASSUME Open \/ AnswerRefresh \/ UNCHANGED vars PROVE NothingIsMissed'
    BY <1>1, <2>2 DEF Open, AnswerRefresh, vars
  <2> QED
    BY <1>2, <1>3, <1>4, <1>5, <1>7, <1>8, <1>9, <1>10, <2>1, <2>2 DEF Next

\* The second layer of the invariant, on top of the first.
LEMMA RestInvariant == Spec => []RestInv
<1>1. Init => RestInv
  <2>1. Init => AnswersAreLater
    BY DEF Init, AnswersAreLater
  <2>2. Init => VersionIsHeld /\ NothingIsMissed
    BY DEF Init, VersionIsHeld, NothingIsMissed
  <2> QED
    BY <2>1, <2>2, Start DEF RestInv
<1>2. RestInv /\ [Next]_vars => RestInv'
  <2> SUFFICES ASSUME RestInv, [Next]_vars PROVE RestInv'
    OBVIOUS
  <2>1. AnswersAreLater'
    BY LaterStep DEF RestInv, ClientInv
  <2> QED
    BY <2>1, Step, HeldStep, MissedStep DEF RestInv
<1> QED
  BY <1>1, <1>2, PTL DEF Spec

\* The types of a canvas's store: a session is shown with its version, the stream
\* carries events of the session it was opened for only, and an event is queued
\* only behind a refresh.
THEOREM TypeCorrect == Spec => []TypeOK
<1>1. ClientInv => TypeOK
  BY DEF ClientInv
<1> QED
  BY <1>1, Invariant, PTL

\* A canvas shows the graph of its session, unless a call was answered late:
\* refreshFromServer drops what it fetched for a session that was left.
THEOREM ShowsOwnSession == Spec => []ShowsItsSession
<1>1. ClientInv => ShowsItsSession
  BY DEF ClientInv
<1> QED
  BY <1>1, Invariant, PTL

\* However a burst of events is coalesced, the canvas ends up with the graph of the
\* last graph event it heard or a later one.
THEOREM HeardIsLoaded == Spec => []GraphEventsAreLoaded
<1>1. ClientInv => GraphEventsAreLoaded
  BY DEF ClientInv, TypeOK, ShowsItsSession, OnItsWay, GraphEventsAreLoaded
<1> QED
  BY <1>1, Invariant, PTL

\* A canvas at rest that has no hole shows its session as it is, under the version
\* it is: no order of events, refreshes and calls leaves it behind otherwise.
THEOREM InStep == Spec => []InStepAtRest
<1>1. RestInv => InStepAtRest
  <2> SUFFICES ASSUME RestInv, sessionId # None, events = <<>>, inFlightRefresh = None, holes = {}
               PROVE  /\ clientVersion = version[sessionId]
                      /\ canvas.session = sessionId /\ canvas.version = version[sessionId]
    BY DEF InStepAtRest
  <2>1. /\ version[sessionId] \in Nat /\ canvas.version \in Nat /\ clientVersion \in Nat
        /\ told \in Nat
    BY DEF RestInv, ClientInv, TypeOK, Canvas
  <2>2. told = version[sessionId] \/ canvas.version >= version[sessionId]
    BY NoEvents DEF RestInv, NothingIsMissed
  <2>3. canvas.session = sessionId /\ canvas.version >= told
    BY DEF RestInv, ClientInv, TypeOK, ShowsItsSession, OnItsWay
  <2>4. canvas.version <= clientVersion /\ clientVersion <= version[sessionId]
    BY DEF RestInv, VersionIsHeld
  <2> QED
    BY <2>1, <2>2, <2>3, <2>4
<1> QED
  BY <1>1, RestInvariant, PTL

=============================================================================
