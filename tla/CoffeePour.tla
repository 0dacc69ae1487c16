------------------------------- MODULE CoffeePour -------------------------------
(***************************************************************************)
(* A coffee pour, from the client's event to the stain that everybody sees *)
(* (services/canvas-service/src/index.ts:615-793): the handler reads the   *)
(* strokes that are being drawn from Redis one by one, asks the physics    *)
(* service through a circuit breaker (physics-client.ts), caches, persists *)
(* and broadcasts its answer, and falls back to a plain stain whenever any *)
(* of that fails. The strokes go on being drawn and finished meanwhile, by *)
(* the handlers that StrokePipeline models in detail, and the process may  *)
(* be shut down, which flushes the persistence tasks (847-869, 976-1009).  *)
(*                                                                         *)
(* Redis answers the commands of different handlers in any order here:     *)
(* strokes and pours reach it from several instances of the service.       *)
(***************************************************************************)
EXTENDS CoffeePhysics

CONSTANTS
  Pour,       \* pour ids, each sent once
  Drawing,    \* the strokes: [id, path, dark, width], each drawn once
  Abandoned,  \* those left by their drawer, of which stroke_end never comes
  CamelCase,  \* whether the physics client's answers have the fields the handler
              \* reads: true of the client that the tests inject
  MaxFaults   \* bound: outages and evictions in a behaviour

ASSUME PourAssumption ==
  /\ MaxFaults \in Nat /\ CamelCase \in BOOLEAN
  /\ IsFiniteSet(Drawing) /\ Abandoned \subseteq Drawing

\* A stroke has points, a color and a width; every schema asks for a positive width.
ASSUME DrawingAssumption ==
  \A s \in Drawing : s \in [id : {s.id}, path : Seq(Int \X Int), dark : 0..100, width : Nat \ {0}]

VARIABLES
  pour,      \* [Pour -> the handler of the pour]
  hash,      \* strokes whose hash canvas:stroke:<id> has its metadata
  points,    \* [Drawing -> the stretch in the list canvas:stroke:<id>:points]
  listed,    \* the set canvas:room:<id>:active_strokes
  unlisted,  \* strokes that were in it when it was evicted           (history)
  pen,       \* [Drawing -> "new", "down" or "up"]: how far it is drawn
  stains,    \* the list canvas:room:<id>:stains, and whether it has a TTL
  breaker,   \* the circuit breaker of the physics client
  tasks,     \* pendingPersistenceTasks of the pours
  saved,     \* pours whose stain event is in PostgreSQL
  link,      \* the ioredis connection: "up", or "closed" for good
  server,    \* the process: "up", "closing", "flushing", "quitting" or "exited"
  flush,     \* the tasks that the shutdown waits for
  unsaved,   \* tasks that PostgreSQL failed, or the flush gave up    (history)
  silent,    \* whether the physics service left a call unanswered   (history)
  faults     \* faults so far, at most MaxFaults                     (bound)

canvasVars == <<hash, points, listed, unlisted, pen>>
taskVars == <<tasks, saved, unsaved>>
serverVars == <<server, flush>>
vars == <<pour, canvasVars, stains, breaker, taskVars, link, serverVars, silent, faults>>

\* What a pour can ask for: an intensity that every check lets pass, or one above the 1
\* that the physics service accepts and at most the 10 that the canvas service accepts.
\* Nothing but the physics service looks at it again, so the choice is left until then.
Intensity == [fit |-> 100, wide |-> 400]   \* hundredths

\* The handler's awaits, in order.
Await == {"limiter", "members", "meta", "srem", "points", "physics", "lpush", "expire"}
RedisAwait == Await \ {"physics"}
Outcome == {"refused", "simulated", "simplified"}

\* The stretches of a stroke: its points but the first from, as far as the one at to.
\* RPUSH adds points at the end, and what Redis evicts is the whole list.
Stretches(s) == {w \in [from : 0..Len(s.path), to : 0..Len(s.path)] : w.from <= w.to}

\* v was read after w: it has the points of w but for those evicted since.
NoLaterThan(w, v) == w.from <= v.from /\ w.to <= v.to

\* A snapshot: the stretch of its path that each stroke in it has.
Snapshots == {r \in UNION {[S -> UNION {Stretches(s) : s \in Drawing}] : S \in SUBSET Drawing} :
                \A s \in DOMAIN r : r[s] \in Stretches(s)}

\* A handler: todo are the strokes still to read, next the one being read, seen the
\* stretch read of each stroke; floor is the stretch that each stroke had when
\* SMEMBERS listed it (history).
Handler ==
  [at : {"unsent", "done", "dead"} \cup Await, outcome : {"none"} \cup Outcome,
   todo : SUBSET Drawing, next : SUBSET Drawing,
   seen : Snapshots, floor : Snapshots]

Nothing == [from |-> 0, to |-> 0]
NoStrokes == [s \in {} |-> Nothing]
Unsent ==
  [at |-> "unsent", outcome |-> "none",
   todo |-> {}, next |-> {}, seen |-> NoStrokes, floor |-> NoStrokes]

TypeOK ==
  /\ pour \in [Pour -> Handler]
  /\ hash \subseteq Drawing /\ listed \subseteq Drawing /\ unlisted \subseteq Drawing
  /\ points \in [Drawing -> [from : Nat, to : Nat]] /\ \A s \in Drawing : points[s] \in Stretches(s)
  /\ pen \in [Drawing -> {"new", "down", "up"}]
  /\ stains \in [list : SUBSET Pour, ttl : BOOLEAN]
  /\ breaker \in [state : {"closed", "open", "halfOpen"}, trial : BOOLEAN]
  /\ tasks \subseteq Pour /\ saved \subseteq Pour
  /\ link \in {"up", "closed"}
  /\ server \in {"up", "closing", "flushing", "quitting", "exited"}
  /\ flush \subseteq Pour /\ unsaved \subseteq Pour
  /\ silent \in BOOLEAN
  /\ faults \in 0..MaxFaults

\* A stroke that was left keeps its hash for an hour, and its place in the list as long
\* as others draw.
Init ==
  /\ pour = [p \in Pour |-> Unsent]
  /\ hash \in SUBSET Abandoned /\ listed = Abandoned /\ unlisted = {}
  /\ points = [s \in Drawing |-> IF s \in Abandoned THEN [from |-> 0, to |-> Len(s.path)]
                                 ELSE Nothing]
  /\ pen = [s \in Drawing |-> IF s \in Abandoned THEN "up" ELSE "new"]
  /\ stains = [list |-> {}, ttl |-> FALSE]
  /\ breaker = [state |-> "closed", trial |-> FALSE]
  /\ tasks = {} /\ saved = {}
  /\ link = "up" /\ server = "up"
  /\ flush = {} /\ unsaved = {}
  /\ silent = FALSE /\ faults = 0

Fault == faults < MaxFaults /\ faults' = faults + 1

-----------------------------------------------------------------------------
(* The strokes, as the stroke handlers leave them in Redis.                *)

\* HSET and SADD; no pour sees the stroke between the two.
Begin(s) ==
  /\ pen[s] = "new" /\ link = "up"
  /\ pen' = [pen EXCEPT ![s] = "down"]
  /\ hash' = hash \cup {s} /\ listed' = listed \cup {s}
  /\ UNCHANGED <<pour, points, unlisted, stains, breaker, taskVars, link, serverVars, silent, faults>>

\* Mutant: one point too many.
DrawPastEnd(s) ==
  /\ pen[s] = "down" /\ link = "up"
  /\ points[s].to <= Len(s.path)
  /\ points' = [points EXCEPT ![s].to = @ + 1]
  /\ UNCHANGED <<pour, hash, listed, unlisted, pen, stains, breaker, taskVars, link, serverVars, silent, faults>>

Draw(s) ==
  /\ pen[s] = "down" /\ link = "up"
  /\ points[s].to < Len(s.path)
  /\ points' = [points EXCEPT ![s].to = @ + 1]
  /\ UNCHANGED <<pour, hash, listed, unlisted, pen, stains, breaker, taskVars, link, serverVars, silent, faults>>

\* stroke_end does nothing when the hash is gone.
End(s) ==
  /\ pen[s] = "down" /\ link = "up"
  /\ pen' = [pen EXCEPT ![s] = "up"]
  /\ listed' = IF s \in hash THEN listed \ {s} ELSE listed
  /\ UNCHANGED <<pour, hash, points, unlisted, stains, breaker, taskVars, link, serverVars, silent, faults>>

\* Redis may evict any key when its memory is full. The hash also goes when an hour
\* passes without stroke_end.
EvictHash(s) ==
  /\ Fault
  /\ s \in hash
  /\ hash' = hash \ {s}
  /\ UNCHANGED <<pour, points, listed, unlisted, pen, stains, breaker, taskVars, link, serverVars, silent>>

EvictPoints(s) ==
  /\ Fault
  /\ points[s].from < points[s].to
  /\ points' = [points EXCEPT ![s].from = points[s].to]
  /\ UNCHANGED <<pour, hash, listed, unlisted, pen, stains, breaker, taskVars, link, serverVars, silent>>

EvictActiveStrokes ==
  /\ Fault
  /\ listed # {}
  /\ listed' = {} /\ unlisted' = unlisted \cup listed
  /\ UNCHANGED <<pour, hash, points, pen, stains, breaker, taskVars, link, serverVars, silent>>

EvictStains ==
  /\ Fault
  /\ stains.list # {}
  /\ stains' = [list |-> {}, ttl |-> FALSE]
  /\ UNCHANGED <<pour, canvasVars, breaker, taskVars, link, serverVars, silent>>

-----------------------------------------------------------------------------
(* The circuit breaker (opossum) around the call of the physics service.   *)

\* While half open it lets one call through.
Rejects == breaker.state # "closed" /\ ~breaker.trial

\* Mutant: every call during the half-open state is a trial.
FiredKeepsTrial == breaker

Fired == [breaker EXCEPT !.trial = FALSE]

\* A failure opens the breaker when more than half of the calls in the window of
\* ten seconds failed, which needs no second call, or when it was the trial. It can
\* stay closed only while another call has not failed.
Failed(p) ==
  \/ breaker' = [state |-> "open", trial |-> FALSE]
  \/ /\ breaker.state = "closed"
     /\ \E q \in Pour \ {p} : \/ pour[q].at \in {"physics", "lpush", "expire"}
                             \/ pour[q].outcome = "simulated"
     /\ UNCHANGED breaker

Succeeded ==
  IF breaker.state = "halfOpen" THEN [state |-> "closed", trial |-> FALSE] ELSE breaker

\* The breaker is shared by the rooms of the process: pours elsewhere open it.
OpenedElsewhere ==
  /\ Fault
  /\ server # "exited"
  /\ breaker.state = "closed"
  /\ breaker' = [state |-> "open", trial |-> FALSE]
  /\ silent' = TRUE
  /\ UNCHANGED <<pour, canvasVars, stains, taskVars, link, serverVars>>

\* After resetTimeout. No call is older than its deadline, which is far shorter.
HalfOpen ==
  /\ server # "exited"
  /\ breaker.state = "open"
  /\ \A p \in Pour : pour[p].at # "physics"
  /\ breaker' = [state |-> "halfOpen", trial |-> TRUE]
  /\ UNCHANGED <<pour, canvasVars, stains, taskVars, link, serverVars, silent, faults>>

-----------------------------------------------------------------------------
(* The handler.                                                            *)

Finish(outcome) == [Unsent EXCEPT !.at = "done", !.outcome = outcome]

\* The catch block: a plain stain for everybody and an error for the sender.
Simplified == Finish("simplified")

Set(p, h) == pour' = [pour EXCEPT ![p] = h]

\* The event reaches the handler; sockets are open until io.close().
Send(p) ==
  /\ pour[p].at = "unsent" /\ server \in {"up", "closing"}
  /\ Set(p, [pour[p] EXCEPT !.at = "limiter"])
  /\ UNCHANGED <<canvasVars, stains, breaker, taskVars, link, serverVars, silent, faults>>

\* The limiter takes the token before anything is validated. A pour is turned away
\* during the cooldown, or when its payload is invalid or names another room or user
\* than its socket's; the last ends in a disconnect.
Consume(p) ==
  LET h == pour[p] IN
  /\ h.at = "limiter" /\ link = "up"
  /\ Set(p, Finish("refused")) \/ Set(p, [h EXCEPT !.at = "members"])
  /\ UNCHANGED <<canvasVars, stains, breaker, taskVars, link, serverVars, silent, faults>>

\* The next stroke, or when all are read the call of the physics service.
ReadOn(p, h) ==
  \/ /\ h.todo # {}
     /\ Set(p, [h EXCEPT !.at = "meta", !.next = {}])
     /\ UNCHANGED breaker
  \/ /\ h.todo = {} /\ Rejects
     /\ Set(p, Simplified)
     /\ UNCHANGED breaker
  \/ /\ h.todo = {} /\ ~Rejects
     /\ Set(p, [h EXCEPT !.at = "physics", !.next = {}])
     /\ breaker' = Fired

Members(p) ==
  /\ pour[p].at = "members" /\ link = "up"
  /\ ReadOn(p, [pour[p] EXCEPT !.todo = listed, !.floor = [s \in listed |-> points[s]]])
  /\ UNCHANGED <<canvasVars, stains, taskVars, link, serverVars, silent, faults>>

\* Mutant: a stroke without points is taken for a dead one.
MetaByPoints(p, s) ==
  LET h == pour[p] IN
  /\ h.at = "meta" /\ link = "up" /\ s \in h.todo
  /\ Set(p, [h EXCEPT !.at = IF points[s].from < points[s].to THEN "points" ELSE "srem",
                      !.todo = @ \ {s}, !.next = {s}])
  /\ UNCHANGED <<canvasVars, stains, breaker, taskVars, link, serverVars, silent, faults>>

\* HGETALL of one of the listed strokes: one without metadata is taken off the list.
Meta(p, s) ==
  LET h == pour[p] IN
  /\ h.at = "meta" /\ link = "up" /\ s \in h.todo
  /\ Set(p, [h EXCEPT !.at = IF s \in hash THEN "points" ELSE "srem",
                      !.todo = @ \ {s}, !.next = {s}])
  /\ UNCHANGED <<canvasVars, stains, breaker, taskVars, link, serverVars, silent, faults>>

Srem(p) ==
  /\ pour[p].at = "srem" /\ link = "up"
  /\ listed' = listed \ pour[p].next
  /\ ReadOn(p, pour[p])
  /\ UNCHANGED <<hash, points, unlisted, pen, stains, taskVars, link, serverVars, silent, faults>>

\* Mutant: LRANGE 1 -1 leaves out the first point.
PointsFromSecond(p) ==
  LET h == pour[p] IN
  /\ h.at = "points" /\ link = "up"
  /\ ReadOn(p, [h EXCEPT !.seen = [s \in DOMAIN @ \cup h.next |->
                                     IF s \notin h.next THEN @[s]
                                     ELSE IF points[s].from = points[s].to THEN points[s]
                                     ELSE [points[s] EXCEPT !.from = @ + 1]]])
  /\ UNCHANGED <<canvasVars, stains, taskVars, link, serverVars, silent, faults>>

\* LRANGE.
Points(p) ==
  LET h == pour[p] IN
  /\ h.at = "points" /\ link = "up"
  /\ ReadOn(p, [h EXCEPT !.seen = [s \in DOMAIN @ \cup h.next |->
                                     IF s \in h.next THEN points[s] ELSE @[s]]])
  /\ UNCHANGED <<canvasVars, stains, taskVars, link, serverVars, silent, faults>>

\* The physics service answers in time.
Answered(p) ==
  /\ pour[p].at = "physics"
  /\ \E intensity \in {Intensity.fit, Intensity.wide} :
       \/ /\ ~InvalidArgument(intensity) /\ CamelCase
          /\ Set(p, [pour[p] EXCEPT !.at = "lpush"])
          /\ breaker' = Succeeded
       \/ /\ InvalidArgument(intensity) \/ ~CamelCase
          /\ Set(p, Simplified)
          /\ Failed(p)
  /\ UNCHANGED <<canvasVars, stains, taskVars, link, serverVars, silent, faults>>

\* Mutant: the plain stain is cached like a simulated one.
UnansweredCached(p) ==
  /\ pour[p].at = "physics"
  /\ Set(p, Simplified)
  /\ Failed(p)
  /\ silent' = TRUE
  /\ stains' = [stains EXCEPT !.list = @ \cup {p}]
  /\ UNCHANGED <<canvasVars, taskVars, link, serverVars, faults>>

\* It is down, or the deadline passes; what it answers later is ignored.
Unanswered(p) ==
  /\ pour[p].at = "physics"
  /\ Set(p, Simplified)
  /\ Failed(p)
  /\ silent' = TRUE
  /\ UNCHANGED <<canvasVars, stains, taskVars, link, serverVars, faults>>

\* Mutant: the persistence task starts before EXPIRE has been answered.
LpushPersists(p) ==
  /\ pour[p].at = "lpush" /\ link = "up"
  /\ Set(p, [pour[p] EXCEPT !.at = "expire"])
  /\ stains' = [stains EXCEPT !.list = @ \cup {p}]
  /\ tasks' = tasks \cup {p}
  /\ UNCHANGED <<canvasVars, breaker, saved, unsaved, link, serverVars, silent, faults>>

Lpush(p) ==
  /\ pour[p].at = "lpush" /\ link = "up"
  /\ Set(p, [pour[p] EXCEPT !.at = "expire"])
  /\ stains' = [stains EXCEPT !.list = @ \cup {p}]
  /\ UNCHANGED <<canvasVars, breaker, taskVars, link, serverVars, silent, faults>>

\* After EXPIRE, which does nothing for a list that is gone, the handler starts the
\* persistence task and broadcasts the stain.
Expire(p) ==
  /\ pour[p].at = "expire" /\ link = "up"
  /\ stains' = [stains EXCEPT !.ttl = stains.list # {}]
  /\ tasks' = tasks \cup {p}
  /\ Set(p, Finish("simulated"))
  /\ UNCHANGED <<canvasVars, breaker, saved, unsaved, link, serverVars, silent, faults>>

\* Mutant: only the limiter's failure is caught.
RedisFailsUncaught(p) ==
  LET h == pour[p] IN
  /\ h.at = "limiter" /\ link = "closed"
  /\ Set(p, Finish("refused"))
  /\ UNCHANGED <<canvasVars, stains, breaker, taskVars, link, serverVars, silent, faults>>

\* Every Redis command fails once the connection is closed. The limiter's failure
\* is taken for a cooldown.
RedisFails(p) ==
  LET h == pour[p] IN
  /\ h.at \in RedisAwait /\ link = "closed"
  /\ Set(p, IF h.at = "limiter" THEN Finish("refused") ELSE Simplified)
  /\ UNCHANGED <<canvasVars, stains, breaker, taskVars, link, serverVars, silent, faults>>

-----------------------------------------------------------------------------
(* PostgreSQL, the connection to Redis, and the shutdown.                  *)

Persist(p) ==
  /\ p \in tasks
  /\ tasks' = tasks \ {p}
  /\ saved' = saved \cup {p}
  /\ UNCHANGED <<pour, canvasVars, stains, breaker, unsaved, link, serverVars, silent, faults>>

\* The error is logged and counted.
PersistFails(p) ==
  /\ Fault
  /\ p \in tasks
  /\ tasks' = tasks \ {p}
  /\ unsaved' = unsaved \cup {p}
  /\ UNCHANGED <<pour, canvasVars, stains, breaker, saved, link, serverVars, silent>>

\* retryStrategy gives up: the commands that wait fail, whether or not they ran.
GiveUp ==
  /\ Fault
  /\ link = "up" /\ link' = "closed"
  /\ \E pushed \in SUBSET {p \in Pour : pour[p].at = "lpush"} : \E ttl \in BOOLEAN :
       /\ ttl = stains.ttl \/ (stains.list \cup pushed # {} /\ \E p \in Pour : pour[p].at = "expire")
       /\ stains' = [list |-> stains.list \cup pushed, ttl |-> stains.ttl \/ ttl]
  /\ UNCHANGED <<pour, canvasVars, breaker, taskVars, serverVars, silent>>

\* SIGTERM: the HTTP server stops listening.
Shutdown ==
  /\ Fault
  /\ server = "up" /\ server' = "closing"
  /\ UNCHANGED <<pour, canvasVars, stains, breaker, taskVars, link, flush, silent>>

\* Mutant: the tasks are not waited for.
CloseSocketsNoFlush ==
  /\ server = "closing"
  /\ flush' = tasks
  /\ server' = "quitting"
  /\ UNCHANGED <<pour, canvasVars, stains, breaker, taskVars, link, silent, faults>>

\* io.close(), and flushPendingTasks takes the tasks that are there: handlers still
\* at work may start more.
CloseSockets ==
  /\ server = "closing"
  /\ flush' = tasks
  /\ server' = IF tasks = {} THEN "quitting" ELSE "flushing"
  /\ UNCHANGED <<pour, canvasVars, stains, breaker, taskVars, link, silent, faults>>

Flushed ==
  /\ server = "flushing" /\ flush \cap tasks = {}
  /\ server' = "quitting"
  /\ UNCHANGED <<pour, canvasVars, stains, breaker, taskVars, link, flush, silent, faults>>

\* Mutant: the flush has no limit.
FlushKeepsWaiting ==
  /\ server = "flushing" /\ flush \cap tasks # {}
  /\ UNCHANGED vars

\* Ten seconds.
FlushTimeout ==
  /\ server = "flushing" /\ flush \cap tasks # {}
  /\ server' = "quitting"
  /\ unsaved' = unsaved \cup (flush \cap tasks)
  /\ UNCHANGED <<pour, canvasVars, stains, breaker, tasks, saved, link, flush, silent, faults>>

Quit ==
  /\ server = "quitting" /\ link' = "closed" /\ link = "up"
  /\ UNCHANGED <<pour, canvasVars, stains, breaker, taskVars, serverVars, silent, faults>>

\* process.exit: handlers and tasks end where they are.
Exit ==
  /\ server = "quitting" /\ link = "closed"
  /\ server' = "exited"
  /\ pour' = [p \in Pour |-> IF pour[p].at \in Await THEN [Unsent EXCEPT !.at = "dead"]
                              ELSE pour[p]]
  /\ tasks' = {}
  /\ UNCHANGED <<canvasVars, stains, breaker, saved, unsaved, link, flush, silent, faults>>

-----------------------------------------------------------------------------
Handle(p) ==
  \/ Consume(p) \/ Members(p) \/ (\E s \in Drawing : Meta(p, s)) \/ Srem(p) \/ Points(p)
  \/ Answered(p) \/ Unanswered(p) \/ Lpush(p) \/ Expire(p) \/ RedisFails(p)

Terminate == CloseSockets \/ Flushed \/ FlushTimeout \/ Quit \/ Exit

Next ==
  \/ \E s \in Drawing : Begin(s) \/ Draw(s) \/ End(s) \/ EvictHash(s) \/ EvictPoints(s)
  \/ EvictActiveStrokes \/ EvictStains
  \/ \E p \in Pour : Send(p) \/ Handle(p) \/ Persist(p) \/ PersistFails(p)
  \/ OpenedElsewhere \/ HalfOpen
  \/ GiveUp \/ Shutdown \/ Terminate

\* Redis answers or the connection is given up, the deadline ends every call, and a
\* shutdown that has begun has a limit for each of its waits. PostgreSQL may hang.
Fairness == (\A p \in Pour : WF_vars(Handle(p))) /\ WF_vars(Terminate)

Spec == Init /\ [][Next]_vars /\ Fairness

-----------------------------------------------------------------------------
(* Properties.                                                             *)

\* A stain that a pour has shown to the room as simulated is never forgotten
\* silently: it is in PostgreSQL, on its way there, reported as failed, or its
\* handler finished after the shutdown had chosen what to wait for
\* (index.ts:713-742, 847-869).
NoStainForgotten ==
  \A p \in Pour : pour[p].outcome = "simulated" =>
    \/ p \in tasks \cup saved \cup unsaved
    \/ server = "exited" /\ p \notin flush

\* The cached stain and the one on the screens differ only when the connection to
\* Redis broke between LPUSH and the broadcast (index.ts:699-708, 762-787).
CachedIsShown ==
  \A p \in stains.list :
    \/ pour[p].outcome = "simulated" \/ pour[p].at \in {"expire", "dead"}
    \/ link = "closed" /\ pour[p].outcome \in {"none", "simplified"}

\* The strokes are read one by one while they grow and while Redis may evict their
\* points; what the simulation sees of each is no older than the moment the pour listed
\* them, and lacks only points that were evicted (index.ts:647-685).
SnapshotIsRecent ==
  \A p \in Pour : \A s \in DOMAIN pour[p].seen :
    /\ s \in DOMAIN pour[p].floor
    /\ NoLaterThan(pour[p].floor[s], pour[p].seen[s])
    /\ NoLaterThan(pour[p].seen[s], points[s])

\* Cleaning up the active strokes never hides one that still has its metadata from
\* later pours (index.ts:656-662); only the eviction of the whole set does.
CleanupSparesStrokes ==
  \A s \in Drawing : pen[s] = "down" /\ s \in hash => s \in listed \cup unlisted

\* A half-open breaker lets a single call through, so a physics service that is
\* still down costs the room one late stain (physics-client.ts:70-76).
TrialIsAlone ==
  breaker.state = "halfOpen" => Cardinality({p \in Pour : pour[p].at = "physics"}) <= 1

\* The sender is told that the physics service is unavailable (index.ts:789-791) only
\* after it left a call unanswered, or when Redis is gone.
FallbackMeansUnavailable ==
  (\E p \in Pour : pour[p].outcome = "simplified") => silent \/ link = "closed"

\* Every pour that reaches its handler is settled, unless the process exits first:
\* no failure leaves the sender waiting (index.ts:762-792).
EveryPourSettled ==
  \A p \in Pour : pour[p].at \in Await ~> pour[p].at \in {"done", "dead"}

\* A shutdown ends even when PostgreSQL never answers (index.ts:847-869, 976-1009).
ShutdownEnds == server = "closing" ~> server = "exited"

\* The handler keeps the promise, where the stains in PostgreSQL are
\* those kept.
outcomeBar == [p \in Pour |-> pour[p].outcome]
Abstract == INSTANCE PourPromise WITH outcome <- outcomeBar, kept <- saved
KeepsPromise == Abstract!Promise

-----------------------------------------------------------------------------
(* The simulations of the snapshots.                                       *)

\* What the physics service is asked: of each stroke what was read of it.
Request(r) == {[s EXCEPT !.path = SubSeq(@, r[s].from + 1, r[s].to)] : s \in DOMAIN r}
Requests == {Request(r) : r \in Snapshots}
Simulated == [q \in Requests |-> RunSimulation(q, Intensity.fit)]
Answers == {Request(pour[p].seen) : p \in {q \in Pour : pour[q].at \in {"lpush", "expire"}}}

\* In every simulation that a pour can ask for, coffee is neither lost nor made, no
\* cell holds less than none, and the strokes share out what was absorbed
\* (fluid.go:198-258).
Conserves == [q \in Requests |-> \A n \in 0..Steps : Conserved(Simulated[q][n], Intensity.fit)]
VolumeConserved == \A q \in Answers : Conserves[q]

\* The outlines of every stain come back to where they start, so that they can be
\* filled (stain.go:46-185).
Closes ==
  [q \in Requests |-> \A chain \in ExtractStainPolygons(Simulated[q][Steps].volume) :
                        Closed(chain)]
OutlinesClosed == \A q \in Answers : Closes[q]

\* A stroke on the grid is marked without gaps, as the comment at fluid.go:102 asks.
Covers == [q \in Requests |-> \A s \in q : Gapless(s)]
StrokesUnbroken == \A q \in Answers : Covers[q]

=============================================================================
