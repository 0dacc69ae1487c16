# Coffee & Canvas: TLA+ models, checks and proofs

Coffee & Canvas is a shared drawing surface. Browsers send strokes over
socket.io to the *canvas service*, which relays them to the room, caches them in
Redis and writes finished strokes to PostgreSQL; a *room service* (GraphQL)
creates rooms, seats users and serves the history; a *physics service* (Go, gRPC)
computes how poured coffee spreads. This directory holds TLA+ models of the parts
whose behaviour depends on order, failure or concurrency, the TLC runs over them,
and proofs that TLAPS checks. `PROJECT.json` lists the same things in a form
that tools can read: for each definition the source lines it models, for each
hazard of the code the properties that watch it, for each checked property a
mutant (a plausible bug, written in TLA+ beside the definition it changes) that
violates it.

    tlc -workers 2 -config MCStrokePipeline.cfg MCStrokePipeline.tla
    tlapm StrokePipelineProofs.tla
    tlapm RoomServiceProofs.tla
    tlapm PresenceProofs.tla
    tlapm CoffeePhysicsProofs.tla
    tlapm CoffeePourProofs.tla
    tlapm CanvasHistoryProofs.tla
    tlapm CanvasClientProofs.tla
    tlapm FiniteSetLemmas.tla

`index.ts` below is `src/services/canvas-service/src/index.ts`, `resolvers.ts` is
`src/services/room-service/src/resolvers.ts` and `database.ts` is
`src/shared/src/utils/database.ts`.

## Inventory

| Part | State | Operations | Talks to |
|------|-------|------------|----------|
| Canvas service, strokes (`index.ts` 346-609) | Redis `canvas:stroke:<id>` and its `:points`, the set `active_strokes`, `pendingPersistenceTasks`, rows of `stroke_events` | `stroke_begin`, `stroke_segment`, `stroke_end`, persistence task | Redis (one ioredis connection), PostgreSQL, the room over socket.io |
| Canvas service, presence (`index.ts` 322-339, 797-836) | Redis set `active_users`, socket listeners | `connection`, `disconnect` | Redis, the room |
| Canvas service, coffee (`index.ts` 615-793, `physics-client.ts`) | circuit breaker, rows of `stain` | `coffee_pour`, fallback stain | Redis, physics service, PostgreSQL |
| Canvas service, shutdown (`index.ts` 847-869, 976-1009) | `pendingPersistenceTasks` | `flushPendingTasks`, `shutdown` | Redis, PostgreSQL |
| Room service, seats (`resolvers.ts` 231-386, `database.ts`) | tables `rooms` and `users`, the pg pool | `createRoom`, `joinRoom` | PostgreSQL |
| Room service, history (`canvas-history.ts`) | 30 s page cache in Redis | `getCanvasHistory`, `reconstructCanvasState` | PostgreSQL, Redis |
| Physics service (Go: `fluid.go`, `stain.go`, `server.go`) | none between calls | `ComputeSpread` | - |
| Browser (`SocketContext.tsx`, `Canvas.tsx`, `lobby.tsx`) | credentials, socket, socket.io's queue and `pendingEventsRef`, the closures of the last render, strokes and cursors on screen | pointer handlers, remote handlers, reconnection, change of room, reload | canvas service, room service |
| Tokens (`auth.ts` of two services) | none; a token expires | `generateJWT`, `validateJWT` | rooms, history and the socket middleware |
| Limiters, metrics, chunk keys, rendering | counters, none | - | - |

What is hard about them:

- **Interleaved handlers.** All handlers of an instance of the canvas service are
  async functions over one ioredis connection. Between two awaits of one handler
  any other handler may run, of the same stroke too: nothing makes `stroke_end`
  wait for the `stroke_begin` and `stroke_segment` before it. What orders them is
  only that the connection answers in the order in which it was written to, and
  how many awaits each handler has.
- **Outages of Redis.** ioredis reconnects and writes unanswered commands again, so
  a command may run twice; after ten attempts `retryStrategy` gives up and every
  waiting handler fails at its await. Keys may be evicted (`allkeys-lru`) at any time.
- **Several instances and several sockets per user** share one set of user ids.
- **Transactions.** Requests to the room service race for seats and codes on a
  bounded pool; a COMMIT may succeed with its answer lost.
- **Closures of the last render.** The browser decides with React state whether to send or to
  queue; the socket itself may already know better.
- **Failure that nobody retries**: a failed INSERT, a stroke evicted before it was
  read back, a crash before the task ran.

The properties that make each part correct:

- strokes: a completed stroke leaves the list of active strokes and its keys expire;
  no key is left without a TTL; what is saved is what was drawn; what is relayed is
  in order; a completed stroke is saved;
- presence: arrivals before departures; the set is the users who are here;
- seats: capacity, distinct colors, all or nothing, no request that waits for ever;
- history: a page is what its query asks for, pages overlap and leave out events only where the
  milliseconds of the cursor explain it, and the drawing rebuilt from them is the drawing;
- coffee: each pour is settled once, what is shown is kept or reported, the breaker tries one call
  at a time, and the strokes are read no older than they were listed;
- browser: what was drawn while offline arrives, once, in order, in the room it was drawn in, and nothing
  is lost but with a connection; another
  canvas shows a stroke as it was drawn;
- shutdown: it ends, and forgets no stain silently;
- physics: fluid is neither created nor lost; outlines are closed; strokes have no gaps.

## Modules

| Module | What it models |
|--------|----------------|
| `StrokePipeline` | the stroke handlers of one process over its Redis connection |
| `StrokePipelineProofs` | its type correctness, `SafetyNet`, the order of its handlers, and with it `CompletedIsSettled`, `RelayedInOrder` and `BatchIsWholeStroke`, and that an ended stroke is on its way to PostgreSQL, proved |
| `Presence` | connection and disconnect over several instances |
| `PresenceProofs` | its types, the order of its notices and the two ways in which the set can be wrong, proved |
| `RoomSeats` | abstract: rooms open with their creator, people take free seats |
| `RoomService` | `createRoom` and `joinRoom` query by query; implements `RoomSeats` |
| `RoomServiceProofs` | types, capacity, colors, atomicity, refinement of `RoomSeats`, and that no requests wait in a circle, proved |
| `CoffeePhysics` | the algorithms of the physics service, on a small grid in integers |
| `PourPromise` | abstract: a pour is refused or shown, once, and only a simulated stain is kept |
| `CoffeePour` | `coffee_pour`, the circuit breaker, the persistence of stains, the shutdown, beside the strokes in Redis; extends `CoffeePhysics`, implements `PourPromise` |
| `CoffeePhysicsProofs` | lemmas about those algorithms, proved: a step keeps the coffee there is, marks have no gaps, outlines close, the border stays dry |
| `CoffeePourProofs` | the types of `CoffeePour`, its invariants over handlers, cache, breaker and simulations, refinement of `PourPromise`, and that every await and every wait counts, proved; extends `CoffeePhysicsProofs` |
| `CanvasHistory` | the check of a request's token, inserts, the paged query and its cache, compression and reconstruction |
| `CanvasHistoryProofs` | its types, what a page holds, what pages repeat and skip, the rebuilt canvas and `CursorAdvances`, proved |
| `CanvasClient` | one tab: lobby, sockets, both queues, renders and pointer; and a canvas that watches it |
| `CanvasClientProofs` | its types, `SentOnceInOrder`, `LostOnlyWithConnection`, `WatcherDrawsStroke` and `KickedOnlyByCarryOver`, proved |
| `FiniteSetLemmas` | facts about data that the library lacks: `Max` and `Min`, induction over a set, that recursive functions and folds exist, totals of finite sets; no model |
| `MC...` | model values and symmetry for TLC |

### StrokePipeline

`conn` is the queue of commands written to Redis and not yet answered. As every
handler has at most one command in flight, the queue *is* the set of handlers in
flight: an element holds the step at which its handler awaits (`begin_consume`,
`begin_hset`, ..., named after handler and command). An action answers the oldest
command: it executes it on `cache` and `activeStrokes` and runs the handler to its
next await (`Continue`), out of a return (`Refuse`), or to its end, where the event
is relayed (`Relay`). `Successor` is the order of the awaits, read off the handlers;
the awaits of a handler that differ only in their arguments share the actions.
The limiter is a command as well (it keeps its counters in Redis) and answers yes
or no freely. `stroke_end` starts the persistence task: `ReadBack` is its HGETALL
and LRANGE, which are written back to back and so are not interleaved by this process,
`Insert` and `InsertFails` its one INSERT of three rows.

The client sends the events of a stroke in order (`BeginStroke`, `SendSegment`,
`EndStroke`), and never waits for the service. Point numbers stand for
the payloads of segments, strokes for their ids.

Two answers that arrive in one packet resume their handlers in the order of the
promises behind them, and the limiter's promise is a few microtasks deeper than a command's. The model
resumes handlers in the order of the answers. What it loses is a swap of two writes
within one round trip, between a handler behind the limiter and one that is not; the
properties compare steps that are at least a round trip apart (a segment's RPUSH is the second
round of its handler, the read of the persistence task the sixth of `stroke_end`).

Faults are separate actions, `MaxFaults` of them in a behaviour: an event that is
never delivered; `LoseReply`, after which `Reconnect` resends; `GiveUp`; `Crash`;
evictions and expiry of each key; a failing INSERT. The history variable `fault`
records per stroke what it met, so that a property can say which faults it
tolerates: `BatchIsWholeStroke` does not tolerate an eviction, and says so,
but does hold of a stroke beside the one that met it.

### Presence

A socket is `new`, `adding` (awaiting SADD), `listening` (the disconnect listener is
there), `left` or `dead`; `up` says whether its transport is. The listener is
installed behind the await, so a socket that goes down while `adding` leaves without
one. Each instance has its own queue; the answers of two instances interleave. A crash
or a closed connection may find any prefix of the queue executed (`Reached`).

### RoomSeats and RoomService

A request has a program counter over the queries of its transaction: pool, `find`
(`SELECT ... FOR UPDATE`), `count`, `list`, `insertRoom`, `insertUser`, `commit`,
`rollback`. `rooms` and `users` are what is committed; `holder` is the transaction that
has locked a room's row or has inserted one with that code and not committed, for
which PostgreSQL makes an INSERT of the same code wait. `Committed` makes the rows of
a transaction visible at once. `ColorFor` computes what `assignUserColor` returns;
the character sum of the room's UUID is a number from `Seed`.

`RoomSeats` is what the service promises to its clients: `Open` and `Take`, each
indivisible. `RoomService` implements it under the mapping that forgets handlers, locks
and pool (`ImplementsSeats`).

### CoffeePhysics and CoffeePour

`CoffeePhysics` is pure: a grid is a record of volumes and of what each stroke has absorbed, and
`RunSimulation` a function from steps to grids. Volumes are hundredths, the smallest amount
that the Go code still moves, and products are rounded down to it; the code's floats are not. The
table of the marching squares, the chaining of edges and the rasterising of a line are the code's.

In `CoffeePour` a handler's `at` names the await it is in. Redis answers the awaits of different handlers in any
order, as strokes and pours may be on different instances. Of the stroke handlers it keeps what a pour can see of
them: hash, list of points and membership in `active_strokes`. The points in the list are a stretch of the stroke's
path: RPUSH adds at its end, and an eviction takes the whole list, so what a pour reads may begin in the middle of a
stroke. Redis may evict each of these keys and the room's list of stains, at any moment (`EvictHash`, `EvictPoints`,
`EvictActiveStrokes`, `EvictStains`). `breaker` is opossum's state with its trial call; `tasks` is
`pendingPersistenceTasks`, `server` how far a shutdown has come. A late answer of a call that was given up changes
nothing, as opossum settled its promise. `CamelCase` says whether the answers of the physics client have the field
names that the handler reads: the clients in the tests do, the real one does not. The intensity matters only to the
physics service, so it is chosen where that answers. A stroke whose drawer left is there from the beginning, with its
place in the list and with or without its hash, which has an hour.

The simulations do not depend on the interleaving: the snapshots of the strokes that pours can
take are enumerated, each is simulated once, and the properties of the algorithms are
asserted of those that a reachable pour asks for. `PourPromise` is implemented under the mapping that
keeps the outcome of each pour and the stains in PostgreSQL.

A completed stroke leaves `active_strokes`, so a pour soaks strokes that are being drawn and no
finished one; `canvas:room:<id>:stains` is written and never read. Both are what the code does and
are modelled so.

### CanvasHistory

`created` is the NOW() of the transaction that inserted a batch and `committed` what queries see: rows get older than
their visibility. Time is in fractions of a millisecond, because the cursor travels as an ISO string and is cut to
milliseconds (`ToMs`) while the rows are not. A reader asks for chunks, follows the cursor and receives pages, from
the cache or from a query whose ties may fall either way (`Selections`). A page is the set of its events; of their
order only `endFirst` is kept, the strokes whose end comes before their segment, as it decides what
`compressCanvasState` drops. A hit succeeds only for a page of one event, of which the reader did not ask for
`createdAt`: the dates of a cached page are strings, on which the sort of two or more events and the resolver of
`createdAt` call methods of a Date. `Reconstruct` is what `reconstructCanvasState` makes of everything received, with
repetitions. `Ask` is a request with an `Authorization` header: `Admitted` says whether its token is one Bearer token,
signed, not expired and for the room of the query; otherwise the reader is refused.

No caller in the repository but the tests reconstructs: the frontend never asks for the history. The model
joins the query that the resolver runs with the reconstruction that its documentation
describes for its clients.

### CanvasClient

`sessions` are the credentials that the lobby put in the store; each makes a socket. An event waits in one of three
places: `pending` (the provider's ref, which outlives pages, sockets and rooms), `sendBuffer` (socket.io's, which dies
with its socket) and `wire`. `isConnected` is the React state and `view` its value in the callbacks of the last
render; `Render` is a step of its own, so a message may be emitted on a socket that has gone (it lands in
`sendBuffer`) or be queued although the connect handler has just flushed (it stays in `pending` until the next
connection). An event is named by its place in `events`, a stroke by its `stroke_begin`. `Deliver` is the service: it
compares room and user of the payload with those of the socket, hangs up on a `stroke_begin` or `coffee_pour` that
differs, ignores the other kinds, and relays in order. It hangs up after the limiter's answer, so of what was sent
behind that message any part may have been received and is handled. `lost` remembers what was lost with a connection.
What the handlers do to the order is `StrokePipeline`'s subject. `expired` is what the service thinks of the token of
the last credentials: once it refuses them (`Refused`) socket.io gives up for good, and a reload brings the same token
back. The watcher keeps the open strokes and what is drawn of each, and misses what is relayed while it is away;
`StrokeRendererRender` is what one sees of it.

A second `pointerdown` replaces a stroke in progress and `Leave` unmounts one: neither sends
`stroke_end`. The first point of a stroke is in no message, so another canvas lacks it, and the renderer draws
nothing before there are two points: a click, and a stroke with one move, are visible
to nobody else. `WatcherDrawsStroke` says so. A stroke left without its `stroke_end` stays open on the
watcher's canvas, which `WatcherDrawsStroke` accepts: nothing in the repository says that every stroke ends.

## Runs

| Run | Checks | Instance |
|-----|--------|----------|
| `pipeline` | `TypeOK`, `CompletedIsSettled`, `SafetyNet` | 2 strokes, 1 segment each, 1 fault; 1.5 M states |
| `pipeline_long` | `BatchIsWholeStroke`, `RelayedInOrder`, `CompletedGetsSaved` | 1 stroke, 3 segments, 2 faults; 0.4 M states |
| `ended` | `EndedStrokeIsCompleted`, violated | 1 stroke, 1 segment, no fault |
| `order` | `BeginRelayedFirst`, violated | 1 stroke, 1 segment, no fault |
| `presence` | `TypeOK`, `JoinedBeforeLeft`, `GhostsAreMissedDisconnects`, `MissingAfterSecondSocket` | 3 sockets, 2 users, 2 instances, 1 fault |
| `presence_stale` | `NoStalePresence`, violated | 1 socket, no fault |
| `pour` | `TypeOK`, `NoStainForgotten`, `CachedIsShown`, `SnapshotIsRecent`, `CleanupSparesStrokes`, `TrialIsAlone`, `VolumeConserved`, `OutlinesClosed`, `StrokesUnbroken`, `EveryPourSettled`, `ShutdownEnds`, `KeepsPromise` | 2 pours, a stroke of two points and an abandoned one that meet in a cell, 1 fault, a 7 by 7 grid, 3 steps; 0.6 M states |
| `pour_shape` | `FallbackMeansUnavailable`, violated | the same strokes, with the field names of the real client, no fault |
| `history` | `TypeOK`, `PageAnswersItsQuery`, `RepeatsInOneMillisecond`, `SkipsOnlyAtCursor`, `RebuiltAsDrawn`, `CursorAdvances` | a stroke (3 rows) and 2 stains, 2 chunks, 2 readers, pages of 4, 1 fault; 1.9 M states |
| `history_cached` | `FailuresAreFaults`, violated | the same rows, no fault |
| `client` | `TypeOK`, `SentOnceInOrder`, `LostOnlyWithConnection`, `WatcherDrawsStroke`, `KickedOnlyByCarryOver`, `OfflineEventsFlushed` | 3 messages, 2 sessions in 2 rooms, 1 lost connection of the tab or the watcher; 2.5 M states |
| `rooms` | `TypeOK`, `CapacityHolds`, `ColorsDistinct`, `AllOrNothing`, `EveryRequestAnswered`, `ImplementsSeats` | 3 requests, 2 codes, 2 colors, pool of 2, 2 attempts, 1 fault; 0.3 M states |

Why the bounds are enough. The handlers of two strokes share nothing but the
connection and the set of active strokes, in which they touch their own member only:
two strokes show every interference, and a stroke with three segments has more commands
in flight than the longest handler has awaits, so each overtaking the code allows
happens in it. With two faults a resend is followed by an eviction or a crash. Three
sockets are two of one user, on the same instance or on two, beside one of another.
Three requests on a room of capacity two are a creator and two joins that race for one
seat; two colors run out at the third user in a room of capacity three; two clients in
the pool and three requests make one wait. Two attempts are a collision that is
retried and one that is not.

Two pours race for the half-open breaker and the snapshot of one stroke. The abandoned stroke begins with its hash
or without: without, the clean-up of the list happens beside a stroke that is being drawn; with it, both strokes are
simulated, and share a cell whose coffee they divide. On a grid of seven cells a side coffee reaches the border.
Pages of four hold a stroke and a stain: the five rows need two pages, with the boundary inside or
outside a batch, and inside or outside a millisecond of two time units. Two readers
fill each other's cache. Three messages are a whole stroke, or two of a stroke and one that
overtakes them; two sessions are the least that carries an event from one room
into another. One session with four messages has also been checked.

### Fairness

- `StrokePipeline!FairSpec`: Redis answers what it is asked, ioredis reconnects after
  a drop, and PostgreSQL answers the INSERT, each weakly fair. The client is not fair: it
  may stop in the middle of a stroke. Faults are not fair.
- `RoomService!FairSpec`: for each request, the query it waits for is eventually
  executed when it can be. Weak fairness is enough for the instance in which locks are
  held once per transaction; requests need not arrive, and no timeout is relied upon:
  `EveryRequestAnswered` shows that requests do not wait in a circle even where nothing
  times out.
- `CoffeePour!Fairness`: Redis, the physics client and PostgreSQL answer each handler (with an error or
  after the deadline at the latest), and the shutdown's own steps run, its ten second limit among
  them. Nothing makes a stroke grow or a pour be sent.
- `CanvasClient!Fairness`: React renders after a change of state, and socket.io connects, is refused or gives up. That
  the network comes back is not assumed; nor is a render before the next pointer event.
- `Presence` and `CanvasHistory` state safety only; `CursorAdvances` is the step that makes following the
  cursor end.

## Where the code differs from its documents

- `EndedStrokeIsCompleted` (run `ended`). `stroke_end` may look for the stroke's hash
  before `stroke_begin` has written it (`index.ts` 510 and 386). The end of a short stroke
  is then dropped: it is not relayed, not persisted, and the stroke stays active.
  Requirement 1.3 says that a completed stroke is persisted and confirmed.
- `BeginRelayedFirst` (run `order`). `stroke_begin` has one await more than
  `stroke_segment`, so the first segment may reach the room first, where the canvas drops
  it. The design lists stroke event ordering among its key properties.
- `NoStalePresence` (run `presence_stale`). The disconnect listener is installed behind an
  await. A socket that closes in between leaves its user active, although the comment
  at `index.ts` 828 says the listener is there to prevent stale presence.

- `FallbackMeansUnavailable` (run `pour_shape`). The proto loader keeps the field names of
  `physics.proto`, so the handler's test of `stainPolygons` fails for every answer: the
  room gets the plain stain and the sender reads that the physics service is unavailable.
- `FailuresAreFaults` (run `history_cached`). A page from the cache has strings for dates. The
  compression calls `getTime` on them to sort, and the resolver of `createdAt` calls `toISOString`
  (`resolvers.ts:399-401`): the second read within thirty seconds fails, of a page of one event only if
  `createdAt` is selected.

Five more that no run of their own shows, as the properties that hold name them as their exceptions or, the last,
the theorem as its hypothesis:

- `CANVAS_HISTORY_IMPLEMENTATION.md` promises consistent results under concurrent modifications. The
  cursor is cut to milliseconds and the condition is `created_at >` it: rows of the cursor's millisecond
  come again (`RepeatsInOneMillisecond`), rows exactly on a whole millisecond and rows that
  commit late are left out (`SkipsOnlyAtCursor`), and where the rest of a millisecond
  fills a page the next cursor is the same again (`CursorAdvances`).
- `reconnection.test.ts:41` says that what is buffered offline is flushed in order upon reconnection. It is, but what
  is emitted between the connect handler and the next render goes to the same queue after its flush, waits there until
  the connection is lost and made again, and is overtaken by everything that follows (the exception in
  `SentOnceInOrder`). If it is a `stroke_begin`, the stroke is drawn nowhere else.
- The queue is not emptied when the tab enters another room or enters the same room as a new user. Its
  first `stroke_begin` or `coffee_pour` then makes the service hang up, which socket.io does not
  reconnect (`KickedOnlyByCarryOver`): the tab goes on drawing for itself.
- `color-assignment.ts:30` says of colors that are all taken "shouldn't happen with 12 colors and max 50 users". A room of
  fifty has more users than colors, and the thirteenth gets one that another has: `ColorsDistinct` asks for distinct colors
  only in rooms with no more users than colors.
- `fluid.go:102` says "Also mark intermediate cells between consecutive points to ensure no gaps". A point outside
  the simulated square is skipped together with the line that leads to it (`fluid.go:91-93`), so a stroke that leaves the
  square and returns has a gap where it left (the hypothesis `EntersOnce` of `StrokesAreUnbroken`).

What holds nevertheless, and is worth knowing for a fix: once a `stroke_end` *does* find its
stroke, everything after it is in order. `stroke_end` has exactly as many awaits before its
end as keep it behind the segments before it (`RelayedInOrder`, `BatchIsWholeStroke`) and
behind the EXPIRE and SADD of its `stroke_begin` (`CompletedIsSettled`). These are
properties of the number of awaits, and an await more or less in a handler may break
them: the mutants of `Successor` and `EndStroke` show it.

## Proofs

`StrokePipelineProofs` proves, for any set of strokes and any numbers of
segments and faults,

- `TypeCorrect`: `Spec => []TypeOK`. The work is in the queue (`ShiftKeeps`: answering the
  oldest command and writing one keeps the type and every other command) and in `lost`,
  which never exceeds the queue.
- `SafetyNetHolds`: `Spec => []SafetyNet`. `SafetyNet` speaks of strokes with nothing in
  flight, so it is not inductive: the step that answers the last command must know that a
  TTL has been set by then. The strengthening is `ExpirePending`: a key that
  has no TTL has, for a stroke that was not cut off, a command in the queue at or before the
  EXPIRE of its handler. The steps up to the EXPIRE, and the command itself when its answer is
  lost, keep it; Redis executing the EXPIRE discharges it; an eviction discharges it
  as the key is gone. `TypeOK` is the other half of the invariant.
- `CompletedIsSettledHolds`, `RelayedInOrderHolds`, `BatchIsWholeStrokeHolds`: the three properties by which
  handlers that never wait for each other still leave a stroke in order.
- `EndReachesDatabaseHolds`: a stroke with a segment whose end the room was told is saved, waits for PostgreSQL or
  is being read back, unless it met a fault other than a resent command. `CompletedGetsSaved` adds that
  Redis and PostgreSQL answer.

The argument of those three properties is one of numbers of awaits. `Rank` is how many awaits a handler has behind it,
`Arrival` the place of its event in its stroke. `HandlersInOrder`: a handler that came later is never further along
than one that came earlier, and of two that are equally far the earlier is nearer the head of the queue. It survives
because the connection answers its oldest command and the handler rejoins at the end (`OrderedMove`), and it fails as
soon as a handler of a later event has fewer awaits to its end than one before it has left, as `BeginRelayedFirst` and
`EndedStrokeIsCompleted` show of the pairs for which the code has that. On top of it each property has a strengthening
that says of whatever is not yet so which command will make it so: `Settling` (a completed stroke that is still
listed, or whose key still has its hour, has the SREM or EXPIRE in flight), `Relaying` (relayed segments are older
than those in flight, and an accepted one is relayed, in flight or cut off) and `Saving` (the same for the points in
Redis and in a batch that was read). `IncreasingPrefix` is the lemma that makes sets of segments into sequences: two
increasing sequences with the same elements are equal. The fourth theorem needs both of the last two, as they say that
nothing else of an ended stroke is in flight and that its points are in Redis, and `Lives`: from the EXISTS of
`stroke_end` on, only an eviction takes the stroke's metadata away, so the persistence task finds what it needs.

`RoomServiceProofs` proves, for any finite set of requests and any codes, capacities, number of
colors, attempts and clients in the pool,

- `RoomTypeCorrect`, `CapacityAlways`, `ColorsAlwaysDistinct`, `AtomicAlways`: `TypeOK`,
  `CapacityHolds`, `ColorsDistinct` and `AllOrNothing` always hold;
- `ServiceImplementsSeats`: `Spec => ImplementsSeats`.

None of the four is inductive: the step that commits must know what the earlier queries
of its transaction saw, and that it is still true. `Invariant` adds this as `Position`
and `Locked`: a transaction between its locking query and its COMMIT holds the row of its room;
a join has found the room, then a free seat (`HasSeat`) and then a free color
(`Fresh`), a create has found no room with its code; a retry has attempts left; and a request has a
user exactly when it committed. `QuietStep` says that a step that commits nothing and leaves
the locks of the others alone keeps all this; each action but two is an instance of it.
`CommittedKeeps` is the step that commits: because two transactions never hold the
same row, what the others know about their rooms survives. The refinement follows:
`CommitImplements` maps a COMMIT, its answer lost or not, to `Open` or `Take`, and every other step
is invisible. `ColorForIsFree` shows that `assignUserColor` returns a color and a
free one if there is one; it rests on `Ranks`, by which every index below the size of a
finite set of numbers is the rank of one of its members (ranks are an injection into an
interval of the same size, hence onto).

Two more theorems are what `EveryRequestAnswered` rests on, for any number of clients in the pool.
`NoCircularWait`: as long as a request is unanswered, some request is `Ready`, that is, finds the client or the row that
its next query waits for. `Held` is the invariant: the clients out of the pool are those of the open transactions, and
whoever holds a row is past its last wait. `EveryStepCounts`: each step of a request lowers `Left`, a bound on the steps
that it still has, six for each attempt at most; no step of another request raises it. Together they leave to
TLC only that a fair scheduler takes the step that is there, which is a statement about ENABLED.

`PresenceProofs` proves, for any sets of sockets, users and instances and any number of faults,

- `PresenceTypeCorrect` and `JoinedAlwaysBeforeLeft`: `TypeOK` and `JoinedBeforeLeft` always hold;
- `GhostsAlwaysMissed` and `MissingAlwaysAfterSecond`: while nothing fails, the set of active users is
  wrong only in the two ways that `GhostsAreMissedDisconnects` and `MissingAfterSecondSocket` name.

The last two speak of users about whom no command is in flight, so the invariant has to say what the
commands in flight will do. `Commands`, `Single` and `Awaited`: a command waits at the instance of its
socket, SADD exactly once and exactly while its handler awaits it, SREM only after the socket left.
`Reasoned`: an active user has a socket that is adding or listening, or an SREM in flight.
`Counted`: the user of a listening socket is active, or has a socket that left. `Heard` ties what the
room was told to the socket's place in its handler; with it `JoinedBeforeLeft` is no longer a matter of
order. Disconnecting needs the SREM that it writes as the new reason; answering an SREM needs that the
socket it is about has left. `FaultKeeps` is what a crash and a lost connection have in common.

`CoffeePourProofs` proves, for any finite set of strokes with finite paths, any pours and any number of faults,

- `TypeCorrect`, `NothingForgotten`, `CacheShows`, `SnapshotsAreRecent`, `CleanupIsSafe`, `TrialsAreAlone`:
  the invariants about handlers, cache and breaker;
- `CoffeeIsConserved`, `StrokesAreUnbroken`, `OutlinesAreClosed`: the invariants about the simulations, the last two
  with a hypothesis each;
- `PourKeepsPromise`: `Spec => KeepsPromise`, the refinement of `PourPromise`;
- `ReadersHaveAStroke`, `EveryAwaitCounts`, `EveryWaitEnds`: what `EveryPourSettled` and `ShutdownEnds` rest on.

A pour holds across its awaits what it read before them, so `Invariant` says what stays true of it meanwhile. It has
three parts that do not need each other. `Kept`: what PostgreSQL has or is given, and what the shutdown waits for, was
shown (`TasksWereShown`), and a cached stain that was not shown belongs to a handler that is at, or was cut off at,
the EXPIRE behind it (`CachedWhen`). `Reading`: what a handler has still to read was listed when it looked and was
begun (`OnlyBegun`, `ReadIsListed`), and what it took for dead has no hash again (`DeadStaysDead`) -- which is why its
SREM hides no stroke that is being drawn, and none is missing from the list but by the eviction of the whole set.
`NoLaterThan` compares two stretches of a stroke, that of the reading and that at SMEMBERS or the present one: both
ends only move forward, the end with RPUSH and the beginning with an eviction, so `SnapshotIsRecent` says that a
reading has every point that was listed and not evicted since. `TrialOrCall`: a half-open breaker has either its trial
left or one call under way. The refinement uses the first: `OutcomeStep` maps the end of a handler to `Refuse` or
`Show`, a finished INSERT to `Keep`, and everything else to a stutter.

`AwaitsLeft` bounds what a handler still has to wait for, `StepsToExit` the same of a shutdown. Every step of a handler
lowers the first (`HandleMoves`), every step of a shutdown the second, and nothing raises either: a pour is settled after two
awaits for each stroke and five more, because the list of strokes that it reads is fixed at SMEMBERS.

The simulations. TLC simulates what two small strokes can come to; the lemmas of `CoffeePhysicsProofs` are
about any strokes on a grid of any radius, and `RequestIs` says that every request of a reachable pour is one
that they cover.

- *The coffee is conserved.* `Balanced` says of a state of the run that what is on the paper and what the
  strokes have absorbed is what was poured. A cell gives away no more than it has: what the strokes get of it
  is what it loses (`StrokesGet`), what its neighbours get is what it keeps back from itself
  (`SpreadConserves`), and the fall to the row below is one exchange after another (`FallenIs`,
  `FallConserves`). Every share is rounded down, and the proof shows that it is taken where it is added
  *after* rounding. `RunIsBalanced` is the induction over the steps.
- *Strokes have no gaps.* The code takes a sample every half cell; `SamplesAreClose` and `TruncatedSteps` say
  that two samples in turn fall into the same cell or into neighbours, so a line is connected
  (`LineIsConnected`), a chain of lines that share their ends too (`ChainIsConnected`), and
  `ConnectedIsGapless` makes of that what `StrokesUnbroken` asks for. The hypothesis is `EntersOnce`: once it
  has left the square the stroke does not return. Without it the claim is not true of the code: a segment that
  ends outside is skipped whole (`fluid.go:91-93`), also the part of it that is inside, whereas the comment at
  `fluid.go:102` promises "no gaps".
- *Outlines are closed.* An outline is followed from edge to edge until no edge is left to follow. That it
  ends where it began needs that every point has two edges or none (`Paired`); `ChainsAreClosed` is then that
  a chain which has used one edge of a point and not the other ends there (`Traced`, `Grown`).
  `EdgesArePaired` gets `Paired` from the table of the marching squares: in each of the sixteen cases the
  drawn sides are those whose ends differ, each once (`SidesAreJoined`), so two squares that share a side
  agree on it (`MidpointIsShared`). It fails for a side on the border of the grid, which belongs to one
  square, so the border has to stay below the threshold. The hypothesis `Radius >= Steps \div 4 + 9` is what
  makes it (`BorderIsDry`), and nothing short of a bound on how far coffee runs would do. The argument gives
  each cell a weight that at most doubles in one direction from a cell to its neighbours and does not grow in
  the others (`Slope`). The weighed total of the coffee then grows by a factor of at most 9/8 in a spread,
  49/48 in a fall and 7/6 in a step (`SpreadWeighs`, `FallWeighs`, `StepWeighs`); doubling from the centre
  towards a border, a wet cell at the border would weigh more than that allows. The service runs 15 steps, so
  it needs 12 cells on each side, and its radius is `ceil(20 * intensity) + 10` (`fluid.go:56`): that covers every
  pour the canvas service sends, as the schema asks for an intensity of 0.1 (`validation.ts:56`) and the physics
  service refuses more than 1 (`RunIsOutlined` is about any intensity up to that). Another caller of the physics
  service may ask for 0.05 or less. There, and on the small grid of the run `pour`, the theorem says nothing; on that
  grid TLC checks `OutlinesClosed`.

Strokes have a positive width in all this (`DrawingAssumption`), as in the schema that they pass
(`src/shared/src/validation.ts:14-25`). The physics service itself accepts a width of 0, for which a share is 0/0.

`CanvasHistoryProofs` proves, for any finite set of strokes and stains, any chunks, any readers, any limit of 1 to
500, any granularity of time and any number of faults,

- `TypeCorrect`, `PagesAnswerTheirQueries`, `RepeatsAreAtCursor`, `SkipsAreAtCursor`, `CanvasIsRebuilt`;
- `CursorsAdvance`: the action property `CursorAdvances`.

`GoodPage` is what a page is for the query that made it, and `GoodPagePersists` that later inserts do not spoil it,
as rows never change and `asOf` remembers which there were. So a page may come from
anyone's cache, and the rest is about one reader. `GoodReader`: what it has seen is committed; outside the milliseconds
of its cursors it has seen nothing twice; while it reads (`HalfRead`) it has seen nothing after
the millisecond of its cursor and has everything up to it, excepted what shares a time with a cursor; when it is
done (`AllRead`) it has all of that. `AnswerIsGood` is the step that receives a page. `Milliseconds` and
`LaterMillisecond` are the arithmetic of the cut, `FiniteSetLemmas` has the `Max` of a page.

`CanvasClientProofs` proves, for any rooms and any numbers of sessions, events and lost connections,

- `TypeCorrect`, `SentOnce`, `NothingElseIsLost`, `WatcherFollows` and `KicksAreCarriedOver`.

The events of a session stand in one line: what has reached the room, its wire, socket.io's queue, the provider's
queue. `InLine` says that the line is in order, late events excepted, and that nothing is in it twice. To keep that,
two facts about the queues are needed. `QueuesMeet`: socket.io's queue is empty while there is a connection, and while
there is one, or the last render saw one, the provider's holds late events only, so that what is sent or goes to
socket.io overtakes nothing else. `CarriedOver`: an event on a wire or in the provider's queue belongs to that session
or to an earlier one with another user; it gives `KickedOnlyByCarryOver`, as the service hangs up on events that are
not the session's own. `NothingElseIsLost` says that each step moves an event along the line or loses it with a
connection. The one other way out of the line is the end of a stroke that the service has not begun; that its begin
was lost or late (`EndIgnored`) follows from the line, in which it would otherwise have come first, and from
`RelayedBegan`, as what was relayed was begun. `StrokesHaveShape` names a stroke by its begin and has its end last.
`Watching` then gives the watcher's canvas as a function of the line: nothing of a stroke whose begin has not been
relayed, else its relayed segments in order, open until its end was relayed. The type invariant is part of the
argument: the deaths of socket.io's queue with its session, and a kicked or refused link, are in it.

Assumptions: each component declares one about its constants (`PipelineAssumption`, `RoomAssumption`,
`PresenceAssumption`, `PourAssumption`, `DrawingAssumption`, `PhysicsAssumption`, `HistoryAssumption`,
`ClientAssumption`), which TLC evaluates in its runs; the proofs use nothing else, but for the hypotheses of
`StrokesAreUnbroken` and `OutlinesAreClosed`. They say that bounds are natural numbers, that sets which the
code holds in memory or in a table are finite, that a page has 1 to 500 events (`canvas-history.ts` clamps
it), that stains name strokes, and that a stroke has integer points, a shade and a positive width.

Induction. The library's induction theorems take an operator as parameter and cannot be instantiated here. An
induction over a *set* needs none: the least number, or the smallest subset, for which a claim fails exists by
`WFMin`, which is about relations and sets. `FiniteSetLemmas` has induction, the existence of recursively defined
functions (`RecursionExists`, `FoldExists`, `IterationExists`, `LeftFoldExists`) and totals in that form, and the
proofs about the simulation rest on them.

Left to TLC:

- the liveness properties `CompletedGetsSaved`, `EveryRequestAnswered`, `EveryPourSettled`, `ShutdownEnds`
  and `OfflineEventsFlushed`: fairness and ENABLED are out of the prover's reach. Of the first four what
  is not fairness is proved, as said above;
- `OutlinesClosed` where the border is near, and `StrokesUnbroken` of the strokes that leave the square and return, of which
  the run has none;
- the five runs that show a difference between code and document, as a proof cannot show a violation.

## Plan

1. *Done*: strokes, presence, seats, coffee with physics and shutdown, history, browser.
2. *Done*: every invariant that a run checks is a theorem, those of the simulations included, and so
   are both refinements, the action property of the cursor and the safety halves of four liveness properties.
3. Still worth proving: a bound for `OutlinesAreClosed` that covers intensities up to 0.05, which the canvas
   service does not send.
4. One composition is left: `CanvasClient` in front of `StrokePipeline`, in place of its relay in order.
   The state spaces of the two are too large for a run of both. `SentOnceInOrder` is what the first would guarantee
   of its wire and the client steps of `StrokePipeline` what the second assumes of it.

## Not modelled

- How a JWT is signed and verified: a library's. That a token expires, is for another room, or is missing is
  modelled. The development token of the canvas service has no user in the frontend.
- Payload schemas: stateless, but for that of a pour, whose bounds decide what the physics service is sent.
- Metrics, logging, the toolbar, the markup of the lobby, PixiJS and the viewport: no state that
  another part reads. How often `cursor_move` is throttled: it carries no state.
- `RedisManager` and `redis-utils` in `src/shared` and the queries by viewport of
  `database.ts`: no service calls them. `getStats` of `database.ts`: only the `/health` of the room service calls it, to
  report what it reads.
- The cursors that the watcher removes from its screen after a minute are in `CanvasClient`, without a property of their own.
- `serializeCanvasState` and the rounding of coordinates: only tests call it; no property depends on it.
- Opacity, colours and blur of stains: floating point of no consequence to any property here.
- Credentials of several tabs in one localStorage: a reload takes those of the last room that any tab entered.
- Presence notices in the browser: `user-joined` and `user-left` have no handler there.
- Triggers and spatial indexes of the database, `getRoomInfo`: no control flow that the modelled
  operations depend on.
- Redis persistence: a restart of Redis is seen by the service as an outage, with
  eviction of what was not yet on disk.
