------------------------------ MODULE CanvasHistory ------------------------------
(***************************************************************************)
(* The canvas history of the room service: the stroke_events that the      *)
(* canvas service inserts, the pages that getCanvasHistory cuts out of     *)
(* them (services/room-service/src/canvas-history.ts:159-230 and           *)
(* resolvers.ts:92-145) with a cursor of milliseconds and a cache of       *)
(* thirty seconds in Redis, and the canvas rebuilt from the pages          *)
(* (canvas-history.ts:239-281, 329-524).                                   *)
(*                                                                         *)
(* A row's created_at is the NOW() of its INSERT: the rows of one batch    *)
(* share it, and a batch becomes visible later than that, when it commits. *)
(* Time is counted in units of which Fraction make a millisecond.          *)
(***************************************************************************)
EXTENDS Integers, FiniteSets, FiniteSetsExt

CONSTANTS
  Stroke,     \* strokes, each persisted as one batch of begin, segment and end
  Stain,      \* stains, each persisted as one row
  Target,     \* [Stain -> the strokes it changes]
  Chunk,      \* chunk keys
  ChunkOf,    \* [Stroke \cup Stain -> the chunk of its first point, or its origin]
  Reader,     \* clients of the GraphQL API, each reads the history once
  Limit,      \* events in a page, clamped to 1..500 by the code
  Fraction,   \* units of time in a millisecond; PostgreSQL has 1000
  Ttl,        \* the thirty seconds of a cached page, in units
  MaxClock,   \* bound: units of time that pass
  MaxFaults   \* bound: failed commands and queries in a behaviour

Batch == Stroke \cup Stain

ASSUME HistoryAssumption ==
  /\ IsFiniteSet(Batch) /\ Stroke \cap Stain = {}
  /\ Target \in [Stain -> SUBSET Stroke] /\ ChunkOf \in [Batch -> Chunk]
  /\ Limit \in 1..500
  /\ {Fraction, Ttl} \subseteq Nat \ {0} /\ {MaxClock, MaxFaults} \subseteq Nat

VARIABLES
  now,        \* the clock
  created,    \* [Batch -> created_at of its rows, or Never]
  committed,  \* the batches that queries see
  cache,      \* the pages in Redis: [key -> page and when it expires]
  reader,     \* [Reader -> the request of the reader, and what it has received]
  faults      \* faults so far, at most MaxFaults                       (bound)

vars == <<now, created, committed, cache, reader, faults>>

Never == -1
Start == -1               \* the cursor of a first page: no condition on created_at
Time == 0..MaxClock
Cursor == {Start} \cup Time

Kinds(b) == IF b \in Stroke THEN {"begin", "segment", "end"} ELSE {"stain"}
Event == UNION {{b} \X Kinds(b) : b \in Batch}

\* Mutant: the cursor has no milliseconds.
ToSeconds(t) == t - (t % (2 * Fraction))

\* The cursor travels as an ISO string, which has milliseconds.
ToMs(t) == t - (t % Fraction)

\* A page: its events, whether there are more and their cursor. Of the order of the
\* events only endFirst matters, the strokes whose end precedes their segment. asOf
\* are the batches its query could see (history).
Page == [events : SUBSET Event, endFirst : SUBSET Stroke, hasMore : BOOLEAN,
         cursor : Cursor, asOf : SUBSET Batch]
NoPage == [events |-> {}, endFirst |-> {}, hasMore |-> FALSE, cursor |-> Start, asOf |-> Batch]

Key == (SUBSET Chunk) \X Cursor

\* A reader: got is how often it has received each event, where 2 is twice or more;
\* cursors are the ones it has sent, base the batches that all its pages could see and
\* lost the strokes of which a page had the end before the segment (history).
Idle ==
  [at |-> "idle", chunks |-> {}, cursor |-> Start, page |-> NoPage,
   cursors |-> {}, got |-> [e \in Event |-> 0], base |-> Batch, lost |-> {}]

Failed == [Idle EXCEPT !.at = "failed"]
Refused == [Idle EXCEPT !.at = "refused"]

Places == {"idle", "get", "query", "set", "done", "refused", "failed"}

Request ==
  [at : Places, chunks : SUBSET Chunk, cursor : Cursor, page : Page, cursors : SUBSET Time,
   got : [Event -> 0..2], base : SUBSET Batch, lost : SUBSET Stroke]

TypeOK ==
  /\ now \in Time
  /\ created \in [Batch -> Time \cup {Never}]
  /\ committed \subseteq {b \in Batch : created[b] # Never}
  /\ DOMAIN cache \subseteq Key
  /\ \A k \in DOMAIN cache :
       /\ cache[k].expires \in now + 1..now + Ttl
       /\ cache[k].page \in Page /\ Cardinality(cache[k].page.events) \in 1..Limit
  /\ reader \in [Reader -> Request]
  /\ faults \in 0..MaxFaults

Init ==
  /\ now = 0
  /\ created = [b \in Batch |-> Never] /\ committed = {}
  /\ cache = [k \in {} |-> NoPage]
  /\ reader = [r \in Reader |-> Idle]
  /\ faults = 0

Fault == faults < MaxFaults /\ faults' = faults + 1

-----------------------------------------------------------------------------
(* Time, and the persistence tasks of the canvas service.                  *)

\* Mutant: a page is served for one unit too long.
FreshTooLong == {k \in DOMAIN cache : cache[k].expires >= now + 1}

Fresh == {k \in DOMAIN cache : cache[k].expires > now + 1}

Tick ==
  /\ now < MaxClock
  /\ now' = now + 1
  /\ cache' = [k \in Fresh |-> cache[k]]
  /\ UNCHANGED <<created, committed, reader, faults>>

Insert(b) ==
  /\ created[b] = Never
  /\ created' = [created EXCEPT ![b] = now]
  /\ UNCHANGED <<now, committed, cache, reader, faults>>

Commit(b) ==
  /\ created[b] # Never /\ b \notin committed
  /\ committed' = committed \cup {b}
  /\ UNCHANGED <<now, created, cache, reader, faults>>

-----------------------------------------------------------------------------
(* The query, and the compression of a page.                                *)

At(e) == created[e[1]]

\* What the WHERE clause lets through.
Matching(chunks, cursor) ==
  {e \in Event : e[1] \in committed /\ ChunkOf[e[1]] \in chunks /\ At(e) > cursor}

\* Mutant: the query has no ORDER BY.
SelectionsUnordered(chunks, cursor) ==
  LET rows == Matching(chunks, cursor)
  IN  kSubset(Min({Limit, Cardinality(rows)}), rows)

\* ORDER BY created_at ASC LIMIT Limit + 1: rows of one created_at come in any order.
\* The extra row only tells that there are more.
Selections(chunks, cursor) ==
  LET rows == Matching(chunks, cursor)
      n == Min({Limit, Cardinality(rows)})
  IN  {s \in kSubset(n, rows) : \A e \in s, d \in rows \ s : At(e) <= At(d)}

HasMore(chunks, cursor) == Cardinality(Matching(chunks, cursor)) > Limit

\* Mutant: the cursor is that of the first event.
NextCursorOfFirst(events, more) == IF more THEN ToMs(Min({At(e) : e \in events})) ELSE Start

NextCursor(events, more) == IF more THEN ToMs(Max({At(e) : e \in events})) ELSE Start

\* The sort by created_at is stable, so that the end of a stroke may come before the
\* segment it shares its created_at with.
Ties(events) == {b \in Stroke : {<<b, "segment">>, <<b, "end">>} \subseteq events}

\* Mutant: the segments of every stroke that ends on the page are dropped.
CompressEnded(page) == page.events \ {<<b, "segment">> : b \in Ties(page.events)}

\* A segment that comes after the end of its stroke is dropped.
Compress(page) == page.events \ {<<b, "segment">> : b \in page.endFirst}

-----------------------------------------------------------------------------
(* getCanvasHistory.                                                        *)

SetReader(r, s) == reader' = [reader EXCEPT ![r] = s]

\* Mutant: the key of the cache lacks the cursor.
KeyWithoutCursor(s) == <<s.chunks, Start>>

KeyOf(s) == <<s.chunks, s.cursor>>

Received(got, events) ==
  [e \in Event |-> IF e \in events THEN Min({got[e] + 1, 2}) ELSE got[e]]

\* The answer reaches the reader, who asks for the next page as long as there is one.
Answer(s, page) ==
  [s EXCEPT !.at = IF page.hasMore THEN "get" ELSE "done",
            !.page = NoPage,
            !.cursor = page.cursor,
            !.cursors = IF page.hasMore THEN @ \cup {page.cursor} ELSE @,
            !.got = Received(@, Compress(page)),
            !.base = @ \cap page.asOf,
            !.lost = @ \cup page.endFirst]

\* A token, and the Authorization header of a request, which may lack a token.
Token == [signed : BOOLEAN, expired : BOOLEAN, room : {"this", "another"}]
Header == [scheme : {"Bearer", "Basic"}, tokens : {{}} \cup {{t} : t \in Token}]

\* The token of the header, if it is one Bearer token, and if the token is also good.
extractJWTFromRequest(header) == IF header.scheme = "Bearer" THEN header.tokens ELSE {}
validateJWT(tokens) == {t \in tokens : t.signed /\ ~t.expired}
Admitted(header) == "this" \in {t.room : t \in validateJWT(extractJWTFromRequest(header))}

\* The token must be good and for this room. Without chunks the answer is empty.
Ask(r) ==
  /\ reader[r].at = "idle"
  /\ \E header \in Header, chunks \in SUBSET Chunk :
       SetReader(r, IF ~Admitted(header) THEN Refused
                    ELSE [Idle EXCEPT !.chunks = chunks,
                                      !.at = IF chunks = {} THEN "done" ELSE "get"])
  /\ UNCHANGED <<now, created, committed, cache, faults>>

\* A cached page comes back from JSON with strings for dates. Sorting two events or more
\* calls getTime on them; with a single event the resolver of its createdAt still calls
\* toISOString, when the query selects that field.
Hit(r) ==
  LET s == reader[r] IN
  /\ s.at = "get" /\ KeyOf(s) \in DOMAIN cache
  /\ LET page == cache[KeyOf(s)].page IN
     \/ SetReader(r, Failed)
     \/ Cardinality(page.events) = 1 /\ SetReader(r, Answer(s, page))
  /\ UNCHANGED <<now, created, committed, cache, faults>>

Miss(r) ==
  LET s == reader[r] IN
  /\ s.at = "get" /\ KeyOf(s) \notin DOMAIN cache
  /\ SetReader(r, [s EXCEPT !.at = "query"])
  /\ UNCHANGED <<now, created, committed, cache, faults>>

\* An empty page is answered at once, any other goes to the cache first.
Query(r) ==
  LET s == reader[r]
      more == HasMore(s.chunks, s.cursor)
  IN
  /\ s.at = "query"
  /\ \E events \in Selections(s.chunks, s.cursor) : \E endFirst \in SUBSET Ties(events) :
       LET page == [events |-> events, endFirst |-> endFirst, hasMore |-> more,
                    cursor |-> NextCursor(events, more), asOf |-> committed]
       IN  SetReader(r, IF events = {} THEN Answer(s, page)
                        ELSE [s EXCEPT !.at = "set", !.page = page])
  /\ UNCHANGED <<now, created, committed, cache, faults>>

Stored(s) ==
  [k \in DOMAIN cache \cup {KeyOf(s)} |->
     IF k = KeyOf(s) THEN [page |-> s.page, expires |-> now + Ttl] ELSE cache[k]]

Store(r) ==
  LET s == reader[r] IN
  /\ s.at = "set"
  /\ cache' = Stored(s)
  /\ SetReader(r, Answer(s, s.page))
  /\ UNCHANGED <<now, created, committed, faults>>

\* GET, the query or SET fails, the last one whether or not Redis ran it: the reader
\* gets an error, even when the page had been read.
Fail(r) ==
  LET s == reader[r] IN
  /\ Fault
  /\ s.at \in {"get", "query", "set"}
  /\ \/ UNCHANGED cache
     \/ s.at = "set" /\ cache' = Stored(s)
  /\ SetReader(r, Failed)
  /\ UNCHANGED <<now, created, committed>>

Serve(r) == Hit(r) \/ Miss(r) \/ Query(r) \/ Store(r)

Next ==
  \/ Tick
  \/ \E b \in Batch : Insert(b) \/ Commit(b)
  \/ \E r \in Reader : Ask(r) \/ Serve(r) \/ Fail(r)

Spec == Init /\ [][Next]_vars

-----------------------------------------------------------------------------
(* The canvas rebuilt from events.                                          *)

\* Each stain is applied to the strokes that it names: how often.
Blurs(got, b) == [s \in {t \in Stain : b \in Target[t]} |-> got[<<s, "stain">>]]

\* The rows are picked by kind, whatever their order. points are the copies of the path
\* in the segments; the end that the canvas service saves has no points of its own.
Rebuilt(got, b) == [points |-> got[<<b, "segment">>], blurs |-> Blurs(got, b)]

\* A stroke needs its begin.
Reconstruct(got) ==
  [b \in {d \in Stroke : got[<<d, "begin">>] > 0} |-> Rebuilt(got, b)]

-----------------------------------------------------------------------------
(* Properties.                                                              *)

Busy(r) == reader[r].at \in {"get", "query", "set"}
Paged(r) == reader[r].at = "done"

\* Whatever a reader is answered, from the database or from a page another reader
\* left in the cache, are the first events of its chunks after its cursor, as one
\* query saw them (canvas-history.ts:181, database.ts:436-468).
PageAnswersItsQuery ==
  \A k \in DOMAIN cache :
    LET page == cache[k].page
        rows == {e \in Event : e[1] \in page.asOf /\ ChunkOf[e[1]] \in k[1] /\ At(e) > k[2]}
    IN  /\ page.events \subseteq rows
        /\ page.hasMore = (rows \ page.events # {})
        /\ \A e \in rows \ page.events, d \in page.events : At(d) <= At(e)

\* Pages overlap only inside the millisecond of their cursor
\* (canvas-history.ts:205-208, database.ts:453-459).
RepeatsInOneMillisecond ==
  \A r \in Reader : \A e \in reader[r].page.events :
    reader[r].got[e] > 0 => At(e) < reader[r].cursor + Fraction

\* A reader who has followed the cursors to the end has every event that all its
\* queries could see, except those that share a whole millisecond with the last event
\* of a page, and the points of a stroke whose end came first
\* (canvas-history.ts:192-215, 352-364).
SkipsOnlyAtCursor ==
  \A r \in Reader : Paged(r) =>
    \A e \in Event :
      e[1] \in reader[r].base /\ ChunkOf[e[1]] \in reader[r].chunks =>
        \/ reader[r].got[e] > 0
        \/ At(e) \in reader[r].cursors
        \/ e[2] = "segment" /\ e[1] \in reader[r].lost

\* A stroke is rebuilt once with the path that was saved and each stain is applied to
\* it once, in whatever order their rows came, unless a cursor fell into their
\* millisecond (canvas-history.ts:419-524).
RebuiltAsDrawn ==
  \A r \in Reader : Paged(r) =>
    LET s == reader[r]
        canvas == Reconstruct(s.got)
        whole(b) == b \in s.base /\ ChunkOf[b] \in s.chunks /\ ToMs(created[b]) \notin s.cursors
    IN  \A b \in Stroke : whole(b) =>
          /\ b \in DOMAIN canvas
          /\ canvas[b].points = IF b \in s.lost THEN 0 ELSE 1
          /\ \A t \in Stain : whole(t) /\ b \in Target[t] => canvas[b].blurs[t] = 1

\* The reader is given another page, whose cursor is later, or else the rest of the
\* millisecond of its cursor fills a page.
Advance(r) ==
  LET s == reader[r] IN
  Busy(r) /\ reader'[r] # s /\ reader'[r].at = "get" =>
    \/ reader'[r].cursor > s.cursor
    \/ Cardinality({e \in Matching(s.chunks, s.cursor) : At(e) < s.cursor + Fraction}) >= Limit

\* The cursor moves on from page to page, so that following it ends, unless the rest
\* of its millisecond fills a page: then the next cursor is the same again
\* (canvas-history.ts:205-208).
CursorAdvances == [][\A r \in Reader : Advance(r)]_vars

\* Reading the history fails only when Redis or PostgreSQL does.
FailuresAreFaults == (\E r \in Reader : reader[r].at = "failed") => faults > 0

=============================================================================
