------------------------------ MODULE CanvasClient ------------------------------
(***************************************************************************)
(* One tab of the frontend, and a canvas that watches it. The tab's        *)
(* SocketProvider (frontend/src/store/SocketContext.tsx) makes a socket    *)
(* for the credentials that the lobby stored, and its emit callbacks are   *)
(* closures over the isConnected of the last render: what they queue, what *)
(* socket.io queues and what is sent at once meet when the socket          *)
(* connects. Canvas.tsx draws with the pointer on one side and replays the *)
(* messages of the room on the other.                                      *)
(*                                                                         *)
(* The canvas service is reduced to its check of the sender's room and     *)
(* identity and to a relay in order; what its handlers do in between is in *)
(* StrokePipeline and CoffeePour.                                          *)
(***************************************************************************)
EXTENDS SequencesExt

CONSTANTS
  Room,         \* rooms that the lobby may enter
  Watched,      \* the room of the canvas that watches
  MaxEvents,    \* bound: messages that the tab emits
  MaxSessions,  \* bound: times that the tab gets credentials
  MaxLosses     \* bound: connections lost, by the tab or the watcher

ASSUME ClientAssumption ==
  /\ Watched \in Room
  /\ {MaxEvents, MaxSessions, MaxLosses} \subseteq Nat

VARIABLES
  sessions,     \* the credentials so far, [room, user]: the store holds the last
  page,         \* "lobby" or "canvas", the page that is mounted
  link,         \* the session's socket: "none", "connecting", "up", "down",
                \* "given up", "kicked" or "refused"
  expired,      \* the service has found the token of the last credentials expired
  sendBuffer,   \* socket.io's own queue of that socket
  pending,      \* pendingEventsRef: it outlives sockets and pages
  isConnected,  \* the React state
  view,         \* its value in the closures of the last render
  active,       \* activeStrokeRef: the stroke being drawn, or 0
  events,       \* what was emitted, [kind, stroke, session, late]; an event is
                \* named by its place, a stroke by its stroke_begin
  wire,         \* of each session, the events on their way to the service
  lost,         \* events lost with the connection they were sent on (history)
  begun,        \* strokes whose hash the canvas service has
  relayed,      \* events relayed to their room, in order            (history)
  kicks,        \* [event, on]: events that the service hung up on   (history)
  watcher,      \* the other canvas: [on, open, drawn, stains, cursor]
  missed,       \* events relayed to its room while it was away      (history)
  losses        \* so far, at most MaxLosses                          (bound)

tabVars == <<sessions, expired, page, view, active, events>>
socketVars == <<link, sendBuffer, pending, isConnected, wire, lost>>
roomVars == <<begun, relayed, kicks, watcher, missed>>
vars == <<tabVars, socketVars, roomVars, losses>>

Kind == {"stroke_begin", "stroke_segment", "stroke_end", "coffee_pour"}
session == Len(sessions)
Event == DOMAIN events

Init ==
  /\ sessions = <<>> /\ expired = FALSE
  /\ page = "lobby" /\ active = 0 /\ events = <<>>
  /\ link = "none" /\ sendBuffer = <<>> /\ pending = <<>>
  /\ isConnected = FALSE /\ view = FALSE
  /\ wire = [s \in 1 .. MaxSessions |-> <<>>] /\ lost = {}
  /\ begun = {} /\ relayed = <<>> /\ kicks = {} /\ missed = {}
  /\ watcher = [on |-> TRUE, open |-> {}, drawn |-> [s \in 1 .. MaxEvents |-> <<>>],
                stains |-> {}, cursor |-> "none"]
  /\ losses = 0
-----------------------------------------------------------------------------
(* Credentials, pages and the socket.                                      *)

\* The provider's effect runs for new credentials: it disconnects the old socket, whose
\* queue goes with it, and makes one that connects on its own.
NewSocket(credentials) ==
  /\ session < MaxSessions
  /\ sessions' = Append(sessions, credentials)
  /\ link' = "connecting" /\ sendBuffer' = <<>>
  /\ isConnected' = FALSE /\ view' = FALSE

\* What createRoom and joinRoom answer: the room, a user that is new, and a token that
\* names both. When the Room Service refuses or cannot be reached the lobby stays as it is.
AuthPayload(room) == [room |-> room, user |-> session + 1]

\* handleCreate and handleJoin of the lobby: the page changes to the canvas of the room.
Enter(room) ==
  /\ page = "lobby"
  /\ NewSocket(AuthPayload(room)) /\ expired' = FALSE
  /\ page' = "canvas"
  /\ UNCHANGED <<active, events, pending, wire, lost, roomVars, losses>>

\* The page is loaded again: memory is gone, and the canvas page takes the credentials
\* back from localStorage.
Reload ==
  /\ page = "canvas"
  /\ NewSocket(Last(sessions))
  /\ pending' = <<>> /\ active' = 0
  /\ UNCHANGED <<expired, page, events, wire, lost, roomVars, losses>>

\* The browser's back and forward. The canvas is unmounted with the stroke that was being
\* drawn; the provider and its socket stay.
\* Mutant: the stroke in progress survives in a ref of the provider.
LeaveDrawing ==
  /\ page = "canvas" /\ page' = "lobby"
  /\ UNCHANGED <<sessions, expired, view, active, events, socketVars, roomVars, losses>>

Leave ==
  /\ page = "canvas" /\ page' = "lobby"
  /\ active' = 0
  /\ UNCHANGED <<sessions, expired, view, events, socketVars, roomVars, losses>>

Mount ==
  /\ page = "lobby" /\ session > 0 /\ page' = "canvas"
  /\ UNCHANGED <<sessions, expired, view, active, events, socketVars, roomVars, losses>>

\* React renders, and the callbacks and the pointer listeners are made anew.
Render ==
  /\ view # isConnected /\ view' = isConnected
  /\ UNCHANGED <<sessions, expired, page, active, events, socketVars, roomVars, losses>>

\* A token that generateJWT signed stays good until it expires.
validateJWT == ~expired

\* socket.io empties its queue and then runs the connect handler, which empties the other.
\* Mutant: the handler flushes on the first connection only (once for on).
ConnectFlushesOnce ==
  /\ link \in {"connecting", "down"} /\ validateJWT /\ link' = "up"
  /\ IF link = "down"
     THEN wire' = [wire EXCEPT ![session] = @ \o sendBuffer] /\ UNCHANGED pending
     ELSE /\ wire' = [wire EXCEPT ![session] = @ \o sendBuffer \o pending]
          /\ pending' = <<>>
  /\ sendBuffer' = <<>> /\ isConnected' = TRUE
  /\ UNCHANGED <<tabVars, lost, roomVars, losses>>

\* Mutant: the queue is sent and not emptied.
ConnectKeepsQueue ==
  /\ link \in {"connecting", "down"} /\ validateJWT /\ link' = "up"
  /\ wire' = [wire EXCEPT ![session] = @ \o sendBuffer \o pending]
  /\ sendBuffer' = <<>> /\ isConnected' = TRUE
  /\ UNCHANGED <<tabVars, pending, lost, roomVars, losses>>

Connect ==
  /\ link \in {"connecting", "down"} /\ validateJWT /\ link' = "up"
  /\ wire' = [wire EXCEPT ![session] = @ \o sendBuffer \o pending]
  /\ sendBuffer' = <<>> /\ pending' = <<>> /\ isConnected' = TRUE
  /\ UNCHANGED <<tabVars, lost, roomVars, losses>>

\* The connection is lost with what is on its way, and socket.io connects again.
Lose ==
  /\ link = "up" /\ losses < MaxLosses
  /\ link' = "down" /\ isConnected' = FALSE
  /\ wire' = [wire EXCEPT ![session] = <<>>]
  /\ lost' = lost \cup ToSet(wire[session])
  /\ losses' = losses + 1
  /\ UNCHANGED <<tabVars, sendBuffer, pending, roomVars>>

\* The middleware finds the token expired, as it may a day after the credentials were
\* given out, and refuses the socket: socket.io does not try again. A reload tries with
\* the same token.
Refused ==
  /\ link \in {"connecting", "down"} /\ link' = "refused"
  /\ expired' = TRUE /\ isConnected' = FALSE
  /\ UNCHANGED <<sessions, page, view, active, events, sendBuffer, pending, wire,
                 lost, roomVars, losses>>

\* The last of the ten reconnection attempts failed.
GiveUp ==
  /\ link \in {"connecting", "down"} /\ link' = "given up"
  /\ isConnected' = FALSE
  /\ UNCHANGED <<tabVars, sendBuffer, pending, wire, lost, roomVars, losses>>
-----------------------------------------------------------------------------
(* Emitting, and the pointer.                                              *)

\* Mutant: what socket.io cannot send at once it drops (volatile).
EmitVolatile(kind, stroke) ==
  LET name == Len(events) + 1 IN
  /\ page = "canvas" /\ name <= MaxEvents
  /\ events' = Append(events, [kind |-> kind, stroke |-> stroke, session |-> session,
                              late |-> ~view /\ link = "up"])
  /\ pending' = IF view THEN pending ELSE Append(pending, name)
  /\ wire' = IF view /\ link = "up" THEN [wire EXCEPT ![session] = Append(@, name)] ELSE wire
  /\ UNCHANGED <<sessions, expired, page, view, link, isConnected, sendBuffer, lost,
                 roomVars, losses>>

\* emitStrokeBegin, emitStrokeSegment, emitStrokeEnd and emitCoffeePour queue unless the
\* last render saw a connection; socket.emit queues on its own unless there is one.
\* "late" marks what the provider queues although the socket is up already.
Emit(kind, stroke) ==
  LET name == Len(events) + 1 IN
  /\ page = "canvas" /\ name <= MaxEvents
  /\ events' = Append(events, [kind |-> kind, stroke |-> stroke, session |-> session,
                              late |-> ~view /\ link = "up"])
  /\ IF ~view THEN pending' = Append(pending, name) /\ UNCHANGED <<sendBuffer, wire>>
     ELSE IF link = "up"
     THEN wire' = [wire EXCEPT ![session] = Append(@, name)] /\ UNCHANGED <<pending, sendBuffer>>
     ELSE sendBuffer' = Append(sendBuffer, name) /\ UNCHANGED <<pending, wire>>
  /\ UNCHANGED <<sessions, expired, page, view, link, isConnected, lost, roomVars, losses>>

\* Pen and eraser: a new stroke takes the ref from one that has not ended (a second finger).
\* The point under the pointer is drawn here and is in no message.
PointerDown ==
  /\ Emit("stroke_begin", Len(events) + 1)
  /\ active' = Len(events) + 1

\* The pour tool. The pan tool emits nothing.
PointerPours == Emit("coffee_pour", 0) /\ UNCHANGED active

PointerMove == active # 0 /\ Emit("stroke_segment", active) /\ UNCHANGED active

PointerUp ==
  /\ active # 0 /\ active' = 0
  /\ Emit("stroke_end", active)
-----------------------------------------------------------------------------
(* The canvas service's side, and the watcher's handlers.                  *)

\* Mutant: the payload's room is the one of the first render (a missing dependency).
RoomOfFirstRender(event) == sessions[1].room

\* The room and the user in an event's payload.
RoomOf(event) == sessions[event.session].room
UserOf(event) == sessions[event.session].user

RemoteStrokeBegin(canvas, stroke) == [canvas EXCEPT !.open = @ \cup {stroke}]

\* A segment of a stroke that is not open is not drawn.
\* Mutant: the points replace those that are there.
RemoteStrokeSegmentLast(canvas, stroke, name) ==
  IF stroke \in canvas.open THEN [canvas EXCEPT !.drawn[stroke] = <<name>>] ELSE canvas

RemoteStrokeSegment(canvas, stroke, name) ==
  IF stroke \in canvas.open THEN [canvas EXCEPT !.drawn[stroke] = Append(@, name)] ELSE canvas

\* The graphics of a stroke: in each of the four styles nothing is drawn before there are
\* two points.
StrokeRendererRender(points) == IF Len(points) < 2 THEN <<>> ELSE points

RemoteStrokeEnd(canvas, stroke) == [canvas EXCEPT !.open = @ \ {stroke}]
StainResult(canvas, name) == [canvas EXCEPT !.stains = @ \cup {name}]

\* What the watcher makes of a message.
Drawn(canvas, event, name) ==
  CASE event.kind = "stroke_begin"   -> RemoteStrokeBegin(canvas, event.stroke)
    [] event.kind = "stroke_segment" -> RemoteStrokeSegment(canvas, event.stroke, name)
    [] event.kind = "stroke_end"     -> RemoteStrokeEnd(canvas, event.stroke)
    [] event.kind = "coffee_pour"    -> StainResult(canvas, name)

Relay(name) ==
  LET event == events[name] IN
  /\ relayed' = Append(relayed, name)
  /\ begun' = IF event.kind = "stroke_begin" THEN begun \cup {name} ELSE begun
  /\ watcher' = IF RoomOf(event) = Watched /\ watcher.on
                THEN Drawn(watcher, event, name) ELSE watcher
  /\ missed' = IF RoomOf(event) = Watched /\ ~watcher.on THEN missed \cup {name} ELSE missed
  /\ UNCHANGED kicks

\* A message arrives on the socket of a session. With another room or user in it, a
\* stroke_begin or coffee_pour ends the connection, for good since the service closed it,
\* and the others are ignored, as is the end of a stroke that has no hash. The handler
\* closes it after the limiter has answered: of what is behind the message, some was
\* received by then and is handled, the rest is lost.
Deliver(on) ==
  /\ wire[on] # <<>>
  /\ LET name == Head(wire[on])
         event == events[name]
         own == RoomOf(event) = sessions[on].room /\ UserOf(event) = sessions[on].user
         hangup == ~own /\ event.kind \in {"stroke_begin", "coffee_pour"}
     IN /\ IF hangup
           THEN \E n \in DOMAIN wire[on] :
                  /\ wire' = [wire EXCEPT ![on] = SubSeq(@, 2, n)]
                  /\ lost' = lost \cup ToSet(SubSeq(wire[on], n + 1, Len(wire[on])))
           ELSE wire' = [wire EXCEPT ![on] = Tail(@)] /\ UNCHANGED lost
        /\ IF hangup
           THEN kicks' = kicks \cup {[event |-> name, on |-> on]}
                /\ UNCHANGED <<begun, relayed, watcher, missed>>
           ELSE IF own /\ (event.kind = "stroke_end" => event.stroke \in begun)
           THEN Relay(name)
           ELSE UNCHANGED roomVars
        /\ IF hangup /\ on = session
           THEN link' = "kicked" /\ isConnected' = FALSE
           ELSE UNCHANGED <<link, isConnected>>
  /\ UNCHANGED <<tabVars, sendBuffer, pending, losses>>

\* The watcher's own connection goes and comes back; its canvas stays mounted.
WatcherAway ==
  /\ watcher.on /\ losses < MaxLosses /\ losses' = losses + 1
  /\ watcher' = [watcher EXCEPT !.on = FALSE]
  /\ UNCHANGED <<tabVars, socketVars, begun, relayed, kicks, missed>>

WatcherBack ==
  /\ ~watcher.on /\ watcher' = [watcher EXCEPT !.on = TRUE]
  /\ UNCHANGED <<tabVars, socketVars, begun, relayed, kicks, missed, losses>>

\* emitCursorMove is throttled and queues nothing; the message changes nothing but the
\* cursor of the watcher, so that one that is lost is a move not made and one that is
\* delayed a later move: it arrives at once.
CursorMove ==
  /\ page = "canvas" /\ view /\ link = "up"
  /\ Last(sessions).room = Watched /\ watcher.on
  /\ watcher' = [watcher EXCEPT !.cursor = "fresh"]
  /\ UNCHANGED <<tabVars, socketVars, begun, relayed, kicks, missed, losses>>

\* Sixty seconds without a move, and the timer that looks every two seconds.
CursorAges ==
  /\ watcher.cursor = "fresh" /\ watcher' = [watcher EXCEPT !.cursor = "old"]
  /\ UNCHANGED <<tabVars, socketVars, begun, relayed, kicks, missed, losses>>

SweepCursors ==
  /\ watcher.cursor = "old" /\ watcher' = [watcher EXCEPT !.cursor = "none"]
  /\ UNCHANGED <<tabVars, socketVars, begun, relayed, kicks, missed, losses>>
-----------------------------------------------------------------------------
Next ==
  \/ \E room \in Room : Enter(room)
  \/ Reload \/ Leave \/ Mount \/ Render
  \/ Connect \/ Refused \/ Lose \/ GiveUp
  \/ PointerDown \/ PointerPours \/ PointerMove \/ PointerUp
  \/ \E on \in 1 .. MaxSessions : Deliver(on)
  \/ WatcherAway \/ WatcherBack
  \/ CursorMove \/ CursorAges \/ SweepCursors

\* React renders, and socket.io connects, is refused or gives up.
Fairness ==
  /\ WF_vars(Render)
  /\ WF_vars(Connect \/ Refused \/ GiveUp)

Spec == Init /\ [][Next]_vars /\ Fairness
-----------------------------------------------------------------------------
(* Properties.                                                             *)

Names(queue) == ToSet(queue)

TabTyped ==
  /\ sessions \in Seq([room : Room, user : 1 .. MaxSessions]) /\ session <= MaxSessions
  /\ page \in {"lobby", "canvas"} /\ (page = "canvas" => session > 0)
  /\ expired \in BOOLEAN /\ view \in BOOLEAN
  /\ events \in Seq([kind : Kind, stroke : 0 .. MaxEvents, session : 1 .. session, late : BOOLEAN])
  /\ Len(events) <= MaxEvents
  /\ active \in Event \cup {0} /\ (page = "lobby" => active = 0)

SocketTyped ==
  /\ link \in {"none", "connecting", "up", "down", "given up", "kicked", "refused"}
  /\ (link # "none" => session > 0)
  /\ (link = "refused" => expired) /\ (link = "up" => ~expired)
  /\ isConnected = (link = "up")
  /\ sendBuffer \in Seq(Event) /\ pending \in Seq(Event)
  /\ wire \in [1 .. MaxSessions -> Seq(Event)] /\ lost \subseteq Event
  /\ \A name \in Names(sendBuffer) :
       /\ events[name].session = session /\ name \notin Names(pending)
       /\ \A on \in 1 .. MaxSessions : name \notin Names(wire[on])

RoomTyped ==
  /\ relayed \in Seq(Event) /\ missed \subseteq Names(relayed)
  /\ begun \subseteq Event /\ kicks \subseteq [event : Event, on : 1 .. MaxSessions]
  /\ watcher \in [on : BOOLEAN, open : SUBSET begun, drawn : [1 .. MaxEvents -> Seq(Event)],
                  stains : SUBSET Event, cursor : {"none", "fresh", "old"}]

\* Every variable has its type, no event is in two queues, a stroke is being drawn on the
\* canvas page only (Canvas.tsx:39-43), and the provider's queue alone outlives its
\* session (SocketContext.tsx:59).
TypeOK == TabTyped /\ SocketTyped /\ RoomTyped /\ losses \in 0 .. MaxLosses

\* No event reaches the room twice, and those of a session reach it in the order in which
\* they were drawn, whatever queue each waited in and however often the connection broke
\* (SocketContext.tsx:85-99, 132-142). The exception: what the provider queued between
\* the connect handler and the next render is overtaken by what follows it.
SentOnceInOrder ==
  \A i, j \in DOMAIN relayed :
    (i < j /\ events[relayed[i]].session = events[relayed[j]].session) =>
      /\ relayed[i] # relayed[j]
      /\ relayed[i] < relayed[j] \/ events[relayed[j]].late

\* A stroke of the watched room of which every event was relayed in its turn while the
\* watcher was there is on its canvas with all its points, the first excepted, in order,
\* and is open there until it ends here (Canvas.tsx:95-127 against 185-289). The tab sees
\* it from the first move and the watcher from the second (StrokeRenderer.ts:24).
WatcherDrawsStroke ==
  \A stroke \in Event :
    LET its == {n \in Event : events[n].stroke = stroke}
        points == {n \in its : events[n].kind = "stroke_segment"}
        drawn == watcher.drawn[stroke]
    IN (/\ events[stroke].kind = "stroke_begin"
        /\ RoomOf(events[stroke]) = Watched
        /\ its \subseteq Names(relayed) \ missed
        /\ \A n \in its : ~events[n].late)
       => /\ Names(drawn) = points
          /\ \A i, j \in DOMAIN drawn : i < j => drawn[i] < drawn[j]
          /\ StrokeRendererRender(drawn) = <<>> <=> Cardinality(points) < 2
          /\ stroke \in watcher.open <=> ~\E n \in its : events[n].kind = "stroke_end"

\* The service hangs up on a tab for one reason only: the provider's queue still held a
\* stroke_begin or coffee_pour of an earlier room or user when the tab entered another
\* (SocketContext.tsx:59, 91-98; index.ts:375-379, 640-641).
KickedOnlyByCarryOver ==
  \A kick \in kicks : /\ events[kick.event].session < kick.on
                      /\ sessions[kick.on].user # UserOf(events[kick.event])

\* What the tab holds or has sent for its present room.
Held == Names(pending) \cup Names(sendBuffer) \cup Names(wire[session])
\* What the service ignores: the end of a stroke whose beginning it has not seen.
Ignored(event) ==
  event.kind = "stroke_end" /\ (events[event.stroke].late \/ event.stroke \in lost)

\* What the tab emits for its present room is in one of the queues, or on its way, until
\* the room has it: through every render that comes late, every reconnection and every
\* attempt given up, it is lost only with the connection it was sent on
\* (SocketContext.tsx:85-109, 132-142). The exception: the service ignores the end of a
\* stroke whose beginning it has not seen, as it was lost or queued between connect and
\* render (index.ts:510-511).
LostOnlyWithConnection ==
  \A name \in Event :
    events[name].session = session =>
      name \in Held \cup Names(relayed) \cup lost \/ Ignored(events[name])

\* What the tab queued without a connection is sent, as long as socket.io does not give
\* up, the token is good and the service does not hang up (SocketContext.tsx:85-99).
Waiting == {name \in Names(pending) : ~events[name].late}
OfflineEventsFlushed ==
  (Waiting # {}) ~> (Waiting = {} \/ link \in {"given up", "kicked", "refused"})
=============================================================================
