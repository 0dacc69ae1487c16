----------------------------- MODULE StrokePipeline -----------------------------
(***************************************************************************)
(* The stroke handlers of one canvas-service process                       *)
(* (services/canvas-service/src/index.ts): stroke_begin, stroke_segment    *)
(* and stroke_end, the persistence task that stroke_end starts, and the    *)
(* Redis keys and PostgreSQL rows they leave behind.                       *)
(*                                                                         *)
(* Each handler is an async function that awaits one Redis command after   *)
(* another, and all handlers share one ioredis connection. The connection  *)
(* answers in the order in which it was written to, so the handlers in     *)
(* flight are exactly the commands that wait on it: conn is that queue,    *)
(* and each command carries the step of the handler that awaits it.        *)
(* Answering a command runs the handler up to its next await, which writes *)
(* its next command at the end of the queue.                               *)
(***************************************************************************)
EXTENDS Naturals, Sequences

CONSTANTS
  Stroke,       \* stroke ids, each drawn once by one client (crypto.randomUUID)
  MaxSegments,  \* bound: stroke_segment events per stroke, one point each
  MaxFaults     \* bound: losses, outages, evictions and crashes in a behaviour

ASSUME PipelineAssumption == MaxSegments \in Nat /\ MaxFaults \in Nat

VARIABLES
  client,         \* [Stroke -> phase and segments emitted by the drawing client]
  conn,           \* commands written to Redis and not answered, oldest first
  lost,           \* commands at the head of conn that ran while the answer got lost
  link,           \* the ioredis connection: "up", or "closed" for good
  cache,          \* [Stroke -> the hash canvas:stroke:<id> and its :points list]
  activeStrokes,  \* the set canvas:room:<id>:active_strokes
  tasks,          \* pendingPersistenceTasks that are waiting for PostgreSQL
  saved,          \* [Stroke -> the batches inserted into stroke_events]
  room,           \* [Stroke -> events relayed to the other participants]
  accepted,       \* [Stroke -> segments let in by the limiter]        (history)
  fault,          \* [Stroke -> kinds of faults the stroke has met]    (history)
  faults          \* faults so far, at most MaxFaults                  (bound)

redisVars == <<cache, activeStrokes>>
faultVars == <<fault, faults>>
vars == <<client, conn, lost, link, cache, activeStrokes, tasks, saved, room,
          accepted, fault, faults>>

Segment == 1..MaxSegments
Point == 0..MaxSegments   \* 0 where an event carries no point
Hour == 3600
LateJoinTtl == 300
Forever == 0      \* TTL of a key on which EXPIRE was never called

\* Mutant: stroke_end forgets SREM.
SuccessorWithoutSrem ==
  [begin_consume   |-> "begin_hset",    begin_hset |-> "begin_sadd",
   begin_sadd      |-> "begin_expire",
   segment_consume |-> "segment_rpush", segment_rpush |-> "segment_expire",
   end_exists      |-> "end_hset",      end_hset   |-> "end_expire",
   end_srem        |-> "end_expire",    end_expire |-> "end_expirePoints"]

\* Mutant: stroke_end shortens the TTL before it writes the status.
SuccessorExpireFirst ==
  [begin_consume   |-> "begin_hset",    begin_hset |-> "begin_sadd",
   begin_sadd      |-> "begin_expire",
   segment_consume |-> "segment_rpush", segment_rpush |-> "segment_expire",
   end_exists      |-> "end_expire",    end_expire |-> "end_hset",
   end_hset        |-> "end_srem",      end_srem   |-> "end_expirePoints"]

\* The step that follows each step within a handler. The steps without a
\* successor are the last await of a handler.
Successor ==
  [begin_consume   |-> "begin_hset",    begin_hset |-> "begin_sadd",
   begin_sadd      |-> "begin_expire",
   segment_consume |-> "segment_rpush", segment_rpush |-> "segment_expire",
   end_exists      |-> "end_hset",      end_hset   |-> "end_srem",
   end_srem        |-> "end_expire",    end_expire |-> "end_expirePoints"]

Step == DOMAIN Successor \cup
        {"begin_expire", "segment_expire", "end_expirePoints", "persist_read"}

Command == [step : Step, stroke : Stroke, n : Point]
Event   == [kind : {"begin", "segment", "end"}, n : Point]
FaultKind == {"undelivered", "aborted", "evicted", "resent", "unsaved"}

\* meta: "statusOnly" is the hash that HSET status leaves when the key is gone.
CacheEntry == [meta : {"none", "active", "completed", "statusOnly"},
               ttl : {Forever, Hour, LateJoinTtl},
               points : Seq(Point),
               pointsTtl : {Forever, Hour, LateJoinTtl}]
NoEntry == [meta |-> "none", ttl |-> Forever, points |-> <<>>, pointsTtl |-> Forever]

TypeOK ==
  /\ client \in [Stroke -> [phase : {"idle", "drawing", "done"}, sent : Point]]
  /\ conn \in Seq(Command)
  /\ lost \in Nat /\ lost <= Len(conn)
  /\ link \in {"up", "closed"}
  /\ cache \in [Stroke -> CacheEntry]
  /\ activeStrokes \subseteq Stroke
  /\ tasks \subseteq [stroke : Stroke, points : Seq(Point)]
  /\ saved \in [Stroke -> Seq(Seq(Point))]
  /\ room \in [Stroke -> Seq(Event)]
  /\ accepted \in [Stroke -> Seq(Point)]
  /\ fault \in [Stroke -> SUBSET FaultKind]
  /\ faults \in 0..MaxFaults

Init ==
  /\ client = [s \in Stroke |-> [phase |-> "idle", sent |-> 0]]
  /\ conn = <<>> /\ lost = 0 /\ link = "up"
  /\ cache = [s \in Stroke |-> NoEntry]
  /\ activeStrokes = {}
  /\ tasks = {}
  /\ saved = [s \in Stroke |-> <<>>]
  /\ room = [s \in Stroke |-> <<>>]
  /\ accepted = [s \in Stroke |-> <<>>]
  /\ fault = [s \in Stroke |-> {}]
  /\ faults = 0

\* One more fault, of this kind, for the strokes of S.
Fault(kind, S) ==
  /\ faults < MaxFaults
  /\ faults' = faults + 1
  /\ fault' = [s \in Stroke |-> IF s \in S THEN fault[s] \cup {kind} ELSE fault[s]]

InFlight == {conn[i].stroke : i \in DOMAIN conn}

-----------------------------------------------------------------------------
(* The drawing client, and the arrival of its events. socket.io delivers   *)
(* the events of a socket in order and at most once: an event that was in  *)
(* flight when the socket dropped never arrives. Events that the client    *)
(* buffers while it is disconnected arrive back to back.                   *)

\* An event reaches its handler, which writes its first command; on a closed
\* connection that command fails at once and the handler gives up.
Deliver(s, c, next) ==
  /\ client' = [client EXCEPT ![s] = next]
  /\ \/ /\ link = "up"
        /\ conn' = Append(conn, c)
        /\ UNCHANGED faultVars
     \/ /\ link = "closed"
        /\ fault' = [fault EXCEPT ![s] = @ \cup {"undelivered"}]
        /\ UNCHANGED <<conn, faults>>
     \/ /\ Fault("undelivered", {s})
        /\ UNCHANGED conn
  /\ UNCHANGED <<lost, link, redisVars, tasks, saved, room, accepted>>

BeginStroke(s) ==
  /\ client[s].phase = "idle"
  /\ Deliver(s, [step |-> "begin_consume", stroke |-> s, n |-> 0],
                [phase |-> "drawing", sent |-> 0])

SendSegment(s) ==
  LET n == client[s].sent + 1 IN
  /\ client[s].phase = "drawing"
  /\ n \in Segment
  /\ Deliver(s, [step |-> "segment_consume", stroke |-> s, n |-> n],
                [phase |-> "drawing", sent |-> n])

\* Mutant: stroke_end is relayed as soon as it arrives.
EndStrokeRelayedAtOnce(s) ==
  /\ client[s].phase = "drawing"
  /\ client' = [client EXCEPT ![s].phase = "done"]
  /\ link = "up"
  /\ conn' = Append(conn, [step |-> "end_exists", stroke |-> s, n |-> 0])
  /\ room' = [room EXCEPT ![s] = Append(@, [kind |-> "end", n |-> 0])]
  /\ UNCHANGED <<lost, link, redisVars, tasks, saved, accepted, faultVars>>

EndStroke(s) ==
  /\ client[s].phase = "drawing"
  /\ Deliver(s, [step |-> "end_exists", stroke |-> s, n |-> 0],
                [client[s] EXCEPT !.phase = "done"])

-----------------------------------------------------------------------------
(* Redis executes a command.                                               *)

\* HSET status on a missing key leaves a hash that holds nothing else. EXPIRE on
\* a missing key does nothing; HSET and RPUSH keep the TTL of a key and create a
\* key without one.
MetaAfter(e, c) ==
  IF c.step = "begin_hset" THEN "active"
  ELSE IF c.step # "end_hset" THEN e.meta
  ELSE IF e.meta \in {"active", "completed"} THEN "completed"
  ELSE "statusOnly"

TtlAfter(exists, ttl, step, toHour, toLateJoin) ==
  IF exists /\ step = toHour THEN Hour
  ELSE IF exists /\ step = toLateJoin THEN LateJoinTtl
  ELSE ttl

\* Mutant: LPUSH instead of RPUSH.
WrittenLpush(e, c) ==
  [meta      |-> MetaAfter(e, c),
   ttl       |-> TtlAfter(e.meta # "none", e.ttl, c.step, "begin_expire", "end_expire"),
   points    |-> IF c.step = "segment_rpush" THEN <<c.n>> \o e.points ELSE e.points,
   pointsTtl |-> TtlAfter(e.points # <<>>, e.pointsTtl, c.step,
                          "segment_expire", "end_expirePoints")]

\* The stroke's keys after command c ran on them.
Written(e, c) ==
  [meta      |-> MetaAfter(e, c),
   ttl       |-> TtlAfter(e.meta # "none", e.ttl, c.step, "begin_expire", "end_expire"),
   points    |-> IF c.step = "segment_rpush" THEN Append(e.points, c.n) ELSE e.points,
   pointsTtl |-> TtlAfter(e.points # <<>>, e.pointsTtl, c.step,
                          "segment_expire", "end_expirePoints")]

Execute(c) ==
  /\ cache' = [cache EXCEPT ![c.stroke] = Written(@, c)]
  /\ activeStrokes' = IF c.step = "begin_sadd" THEN activeStrokes \cup {c.stroke}
                      ELSE IF c.step = "end_srem" THEN activeStrokes \ {c.stroke}
                      ELSE activeStrokes

-----------------------------------------------------------------------------
(* The oldest command is answered and its handler goes on.                 *)

Answering == conn # <<>> /\ lost = 0

\* The handler awaits its next command. EXISTS lets stroke_end go on only when
\* the stroke's hash is there.
Continues(c) ==
  /\ c.step \in DOMAIN Successor
  /\ c.step = "end_exists" => cache[c.stroke].meta # "none"

Continue ==
  LET c == Head(conn) IN
  /\ Answering
  /\ Continues(c)
  /\ Execute(c)
  /\ conn' = Append(Tail(conn), [c EXCEPT !.step = Successor[c.step]])
  /\ accepted' = IF c.step = "segment_consume"
                 THEN [accepted EXCEPT ![c.stroke] = Append(@, c.n)]
                 ELSE accepted
  /\ UNCHANGED <<client, lost, link, tasks, saved, room, faultVars>>

\* The limiter rejects the event (stroke_begin also answers the sender with an
\* error), or stroke_end finds no hash: the handler returns.
Refuse ==
  LET c == Head(conn) IN
  /\ Answering
  /\ \/ c.step \in {"begin_consume", "segment_consume"}
     \/ c.step = "end_exists" /\ ~Continues(c)
  /\ conn' = Tail(conn)
  /\ UNCHANGED <<client, lost, link, redisVars, tasks, saved, room, accepted, faultVars>>

\* The last await of a handler: relay the event to the rest of the room.
\* stroke_end first starts the persistence task, whose HGETALL and LRANGE are
\* written back to back (one command here: nothing of this process runs between).
KindOf == [begin_expire |-> "begin", segment_expire |-> "segment", end_expirePoints |-> "end"]

Relay ==
  LET c == Head(conn)
      read == [c EXCEPT !.step = "persist_read"]
  IN
  /\ Answering
  /\ c.step \in DOMAIN KindOf
  /\ Execute(c)
  /\ conn' = IF c.step = "end_expirePoints" THEN Append(Tail(conn), read) ELSE Tail(conn)
  /\ room' = [room EXCEPT ![c.stroke] = Append(@, [kind |-> KindOf[c.step], n |-> c.n])]
  /\ UNCHANGED <<client, lost, link, tasks, saved, accepted, faultVars>>

\* The persistence task has read the stroke back. Without metadata or points it
\* returns, otherwise it hands the three rows to PostgreSQL in one INSERT.
ReadBack ==
  LET c == Head(conn)
      e == cache[c.stroke]
  IN
  /\ Answering
  /\ c.step = "persist_read"
  /\ conn' = Tail(conn)
  /\ tasks' = IF e.meta \in {"active", "completed"} /\ e.points # <<>>
              THEN tasks \cup {[stroke |-> c.stroke, points |-> e.points]}
              ELSE tasks
  /\ UNCHANGED <<client, lost, link, redisVars, saved, room, accepted, faultVars>>

-----------------------------------------------------------------------------
(* PostgreSQL answers the persistence task.                                *)

Insert(t) ==
  /\ tasks' = tasks \ {t}
  /\ saved' = [saved EXCEPT ![t.stroke] = Append(@, t.points)]
  /\ UNCHANGED <<client, conn, lost, link, redisVars, room, accepted, faultVars>>

\* The error is logged and counted; nothing retries.
InsertFails(t) ==
  /\ tasks' = tasks \ {t}
  /\ Fault("unsaved", {t.stroke})
  /\ UNCHANGED <<client, conn, lost, link, redisVars, saved, room, accepted>>

-----------------------------------------------------------------------------
(* Faults.                                                                 *)

\* The connection drops after Redis ran the next command and before its answer
\* arrived. The first of a run of such commands counts as the fault.
LoseReply ==
  /\ lost < Len(conn) /\ link = "up"
  /\ LET c == conn[lost + 1] IN
     /\ Execute(c)
     /\ lost > 0 \/ faults < MaxFaults
     /\ faults' = IF lost = 0 THEN faults + 1 ELSE faults
     /\ fault' = IF c.step = "segment_rpush"
                 THEN [fault EXCEPT ![c.stroke] = @ \cup {"resent"}]
                 ELSE fault
  /\ lost' = lost + 1
  /\ UNCHANGED <<client, conn, link, tasks, saved, room, accepted>>

\* Mutant: autoResendUnfulfilledCommands off, the waiting handlers never resume.
ReconnectDropsQueue ==
  /\ lost > 0
  /\ lost' = 0 /\ conn' = <<>>
  /\ UNCHANGED <<client, link, redisVars, tasks, saved, room, accepted, faultVars>>

\* Mutant: the queue is dropped and the count of commands to resend is kept.
ReconnectKeepsCount ==
  /\ lost > 0
  /\ conn' = <<>>
  /\ UNCHANGED <<client, lost, link, redisVars, tasks, saved, room, accepted, faultVars>>

\* ioredis connects again and writes every unanswered command once more, in
\* order (autoResendUnfulfilledCommands).
Reconnect ==
  /\ lost > 0
  /\ lost' = 0
  /\ UNCHANGED <<client, conn, link, redisVars, tasks, saved, room, accepted, faultVars>>

\* After 10 attempts retryStrategy returns null: every waiting command fails, the
\* handlers log and return, and so does every later command of this process.
GiveUp ==
  /\ link = "up"
  /\ Fault("aborted", InFlight)
  /\ link' = "closed"
  /\ conn' = <<>> /\ lost' = 0
  /\ UNCHANGED <<client, redisVars, tasks, saved, room, accepted>>

\* The process dies and is started again: handlers and tasks are gone, Redis and
\* PostgreSQL keep what they have.
Crash ==
  /\ Fault("aborted", InFlight \cup {t.stroke : t \in tasks})
  /\ conn' = <<>> /\ lost' = 0 /\ link' = "up" /\ tasks' = {}
  /\ UNCHANGED <<client, redisVars, saved, room, accepted>>

\* A key expires, or allkeys-lru evicts it.
EvictHash(s) ==
  /\ cache[s].meta # "none"
  /\ Fault("evicted", {s})
  /\ cache' = [cache EXCEPT ![s].meta = "none", ![s].ttl = Forever]
  /\ UNCHANGED <<client, conn, lost, link, activeStrokes, tasks, saved, room, accepted>>

EvictPoints(s) ==
  /\ cache[s].points # <<>>
  /\ Fault("evicted", {s})
  /\ cache' = [cache EXCEPT ![s].points = <<>>, ![s].pointsTtl = Forever]
  /\ UNCHANGED <<client, conn, lost, link, activeStrokes, tasks, saved, room, accepted>>

EvictActiveStrokes ==
  /\ activeStrokes # {}
  /\ Fault("evicted", activeStrokes)
  /\ activeStrokes' = {}
  /\ UNCHANGED <<client, conn, lost, link, cache, tasks, saved, room, accepted>>

-----------------------------------------------------------------------------
ClientStep == \E s \in Stroke : BeginStroke(s) \/ SendSegment(s) \/ EndStroke(s)
Answer     == Continue \/ Refuse \/ Relay \/ ReadBack
Database   == \E t \in tasks : Insert(t) \/ InsertFails(t)
Faulty     == \/ LoseReply \/ GiveUp \/ Crash \/ EvictActiveStrokes
              \/ \E s \in Stroke : EvictHash(s) \/ EvictPoints(s)

Next == ClientStep \/ Answer \/ Database \/ Reconnect \/ Faulty

Spec == Init /\ [][Next]_vars

\* Redis answers, ioredis reconnects and PostgreSQL answers; the client need
\* not finish its stroke, and no fault has to happen.
FairSpec == Spec /\ WF_vars(Answer) /\ WF_vars(Reconnect) /\ WF_vars(Database)


-----------------------------------------------------------------------------
(* Properties.                                                             *)

Idle(s) == s \notin InFlight
PointsOf(seq) == {seq[i] : i \in DOMAIN seq}
Increasing(seq) == \A i, j \in DOMAIN seq : i < j => seq[i] < seq[j]

\* Once the handlers of a completed stroke are through, the stroke is no longer
\* listed as active and both keys live for the five minutes of late joiners:
\* no command of stroke_begin or stroke_segment ever lands after its counterpart
\* in stroke_end, whatever the interleaving and however often an outage makes
\* ioredis resend (index.ts:397-403, 447-448, 514-524).
CompletedIsSettled ==
  \A s \in Stroke :
    cache[s].meta = "completed" /\ Idle(s) /\ fault[s] \subseteq {"resent", "unsaved"}
      => /\ s \notin activeStrokes
         /\ cache[s].ttl = LateJoinTtl
         /\ cache[s].points # <<>> => cache[s].pointsTtl = LateJoinTtl

\* The "expiration for safety" of index.ts:402: a key that a stroke left in Redis
\* always has a TTL once nothing is in flight for the stroke, even after
\* evictions and outages, unless a handler was cut off between its write and its
\* EXPIRE.
SafetyNet ==
  \A s \in Stroke :
    Idle(s) /\ "aborted" \notin fault[s]
      => /\ cache[s].meta # "none" => cache[s].ttl # Forever
         /\ cache[s].points # <<>> => cache[s].pointsTtl # Forever

\* What reaches PostgreSQL is the stroke: every segment that the limiter let in
\* is in the batch that is inserted, in the order drawn, although nothing makes
\* stroke_end wait for the segments before it (index.ts:528-586). A resent RPUSH
\* may repeat points but neither lose nor invent one.
BatchIsWholeStroke ==
  LET Whole(s, points) ==
        /\ fault[s] \subseteq {"unsaved"} => points = accepted[s]
        /\ fault[s] \subseteq {"unsaved", "resent"} => PointsOf(points) = PointsOf(accepted[s])
  IN \A s \in Stroke :
       /\ \A i \in DOMAIN saved[s] : Whole(s, saved[s][i])
       /\ \A t \in tasks : t.stroke = s => Whole(s, t.points)
       /\ Len(saved[s]) <= 1

\* The other participants get the segments of a stroke in the order drawn, each
\* once, and stroke_end after all of them: the first stroke_end they see closes
\* a drawing that misses nothing the limiter let in (index.ts:406, 452, 600).
RelayedInOrder ==
  \A s \in Stroke :
    LET segs == {i \in DOMAIN room[s] : room[s][i].kind = "segment"}
        ends == {i \in DOMAIN room[s] : room[s][i].kind = "end"}
    IN /\ \A i, j \in segs : i < j => room[s][i].n < room[s][j].n
       /\ \A i \in ends :
            /\ i = Len(room[s])
            /\ "aborted" \notin fault[s]
                 => {room[s][j].n : j \in segs} = PointsOf(accepted[s])

\* A stroke_end that found its stroke reaches PostgreSQL with at least one
\* segment, or the stroke met a fault (index.ts:510-597).
CompletedGetsSaved ==
  \A s \in Stroke :
    (\E i \in DOMAIN conn : conn[i].stroke = s /\ conn[i].step = "end_hset")
      ~> (saved[s] # <<>> \/ accepted[s] = <<>> \/ fault[s] # {})

\* Requirement 1.3 and design Property 9: a completed stroke is persisted and its
\* completion confirmed. Stated for a stroke whose three kinds of events all
\* arrived, met no fault and were let in: once nothing is in flight, Redis no
\* longer calls it active.
EndedStrokeIsCompleted ==
  \A s \in Stroke :
    client[s].phase = "done" /\ Idle(s) /\ fault[s] = {} => cache[s].meta # "active"

\* "Stroke event ordering preservation": nobody in the room gets a segment of a
\* stroke before the stroke_begin that the client sent first. Canvas.tsx:116
\* drops such a segment for good.
BeginRelayedFirst ==
  \A s \in Stroke :
    \A i, j \in DOMAIN room[s] :
      room[s][i].kind = "begin" /\ room[s][j].kind = "segment" => i < j

=============================================================================
