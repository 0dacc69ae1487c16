--------------------------- MODULE CanvasHistoryProofs ---------------------------
(***************************************************************************)
(* Proofs about CanvasHistory: types, what a page holds, what a reader of  *)
(* several pages repeats and misses, the canvas it rebuilds and the        *)
(* progress of its cursor, for every number of strokes, stains, chunks and *)
(* readers, any limit and any granularity of time.                         *)
(*                                                                         *)
(* Two invariants carry the proofs. GoodPage ties a page, in the hands of  *)
(* a reader or in the cache, to the query that would give it: PagesAreGood *)
(* needs nothing but that rows which a query saw keep their created_at.    *)
(* GoodReader says what a reader has after each page: everything that its  *)
(* queries could see up to its cursor, except what shares the millisecond  *)
(* of a cursor, and nothing beyond the millisecond of the last cursor.     *)
(***************************************************************************)
EXTENDS CanvasHistory, FiniteSetLemmas

-----------------------------------------------------------------------------
(* The invariants.                                                          *)

\* The rows that a query with these chunks and cursor finds among the batches asOf.
Rows(asOf, chunks, cursor) ==
  {e \in Event : e[1] \in asOf /\ ChunkOf[e[1]] \in chunks /\ At(e) > cursor}

\* What every page owes to its query: it has the first rows, as many as the limit when
\* there are more, and its cursor is the millisecond of the last.
GoodPage(page, chunks, cursor) ==
  LET rows == Rows(page.asOf, chunks, cursor) IN
  /\ page.asOf \subseteq committed
  /\ page.events \subseteq rows
  /\ page.hasMore = (rows \ page.events # {})
  /\ \A e \in rows \ page.events, d \in page.events : At(d) <= At(e)
  /\ page.endFirst \subseteq Ties(page.events)
  /\ page.cursor = NextCursor(page.events, page.hasMore)
  /\ Cardinality(page.events) <= Limit
  /\ page.hasMore => Cardinality(page.events) = Limit

\* A reader has a page only when it is about to cache it.
HeldPage(s) ==
  IF s.at = "set" THEN GoodPage(s.page, s.chunks, s.cursor) /\ s.page.events # {}
                  ELSE s.page = NoPage

\* The pages in the cache, and those that readers hold.
PagesAreGood ==
  /\ \A k \in DOMAIN cache : GoodPage(cache[k].page, k[1], k[2])
  /\ \A r \in Reader : HeldPage(reader[r])

\* The segment of a stroke whose end came first.
LostSegment(s, e) == e[2] = "segment" /\ e[1] \in s.lost

\* The event was on a page of the reader.
Seen(s, e) == s.got[e] > 0 \/ LostSegment(s, e)

\* The reader has the event, or may be without it.
Kept(s, e) == Seen(s, e) \/ At(e) \in s.cursors

\* The event is one that all queries of the reader could see.
Visible(s, e) == e[1] \in s.base /\ ChunkOf[e[1]] \in s.chunks

\* What is left for a reader who has a page to come: it has seen nothing yet, or its
\* cursor is one that it has sent, it has seen nothing after the millisecond of that
\* cursor, and what comes before is kept.
HalfRead(s) ==
  \/ s.cursor = Start /\ \A e \in Event : ~Seen(s, e)
  \/ /\ s.cursor \in s.cursors
     /\ s.base \subseteq committed
     /\ \A e \in Event : Seen(s, e) => At(e) < s.cursor + Fraction
     /\ \A e \in Event : Visible(s, e) /\ At(e) <= s.cursor => Kept(s, e)

\* A reader who has read to the end keeps everything.
AllRead(s) ==
  /\ s.chunks = {} \/ s.base \subseteq committed
  /\ \A e \in Event : Visible(s, e) => Kept(s, e)

\* What a reader has seen is committed, its cursors are whole milliseconds, and outside
\* the milliseconds of the cursors it has seen nothing twice.
GoodReader(s) ==
  /\ \A e \in Event : Seen(s, e) => e[1] \in committed
  /\ \A c \in s.cursors : ToMs(c) = c
  /\ \A e \in Event : ToMs(At(e)) \notin s.cursors =>
       s.got[e] <= 1 /\ (LostSegment(s, e) => s.got[e] = 0)
  /\ s.at \in {"get", "query", "set"} => HalfRead(s)
  /\ s.at = "done" => AllRead(s)

ReadersAreGood == \A r \in Reader : GoodReader(reader[r])

-----------------------------------------------------------------------------
(* Time, finite sets and the counters of a reader.                          *)

\* A multiple has no remainder.
LEMMA MultipleHasNoRemainder ==
  ASSUME NEW q \in Nat, NEW F \in Nat \ {0}
  PROVE  (F * q) % F = 0
<1>1. PICK x \in Nat : x = F * q
  OBVIOUS
<1>2. PICK p \in Nat : x = F * p + (x % F) /\ x % F \in 0..F - 1
  <2>1. x \div F \in Nat /\ x = F * (x \div F) + (x % F) /\ x % F \in 0..F - 1
    OBVIOUS
  <2> QED
    BY <2>1
<1>3. p <= q
  <2>1. SUFFICES ASSUME q < p PROVE FALSE
    OBVIOUS
  <2>2. F * q + F <= F * p
    BY <2>1
  <2> QED
    BY <1>1, <1>2, <2>2
<1>4. q <= p
  <2>1. SUFFICES ASSUME p < q PROVE FALSE
    OBVIOUS
  <2>2. F * p + F <= F * q
    BY <2>1
  <2> QED
    BY <1>1, <1>2, <2>2
<1>5. F * p = x
  BY <1>1, <1>3, <1>4
<1>6. x % F = 0
  <2> DEFINE y == F * p
             m == x % F
  <2>1. y = x /\ x = y + m /\ m \in Nat
    BY <1>2, <1>5
  <2> HIDE DEF y, m
  <2>2. m = 0
    BY <2>1
  <2> QED
    BY <2>2 DEF m
<1> QED
  BY <1>1, <1>6

\* A time lies in the millisecond that ToMs gives it, and that one is whole.
LEMMA Milliseconds ==
  ASSUME NEW t \in Nat
  PROVE  ToMs(t) \in Nat /\ ToMs(t) <= t /\ t < ToMs(t) + Fraction /\ ToMs(ToMs(t)) = ToMs(t)
<1>1. Fraction \in Nat \ {0}
  BY HistoryAssumption
<1>2. t % Fraction \in 0..Fraction - 1 /\ t % Fraction <= t
  BY <1>1
<1>3. (t - (t % Fraction)) % Fraction = 0
  <2>1. t \div Fraction \in Nat /\ t - (t % Fraction) = Fraction * (t \div Fraction)
    BY <1>1
  <2> QED
    BY <1>1, <2>1, MultipleHasNoRemainder
<1> QED
  BY <1>1, <1>2, <1>3 DEF ToMs

\* A whole millisecond is no later than that of a later time, and the same if it is the
\* one the time lies in.
LEMMA LaterMillisecond ==
  ASSUME NEW t \in Nat, NEW c \in Nat, ToMs(c) = c, c <= t
  PROVE  c <= ToMs(t) /\ (t < c + Fraction => ToMs(t) = c)
<1>1. Fraction \in Nat \ {0}
  BY HistoryAssumption
<1> DEFINE F == Fraction
           q == t \div F
           p == c \div F
<1>2. q \in Nat /\ p \in Nat
  BY <1>1
<1>3. t = F * q + (t % F) /\ t % F \in 0..F - 1
  BY <1>1
<1>4. c = F * p /\ ToMs(t) = F * q
  <2>1. c = F * p + (c % F) /\ c % F = 0
    BY <1>1 DEF ToMs
  <2> QED
    BY <1>1, <1>2, <1>3, <2>1 DEF ToMs
<1>5. p <= q
  <2>1. SUFFICES ASSUME q < p PROVE FALSE
    BY <1>2
  <2>2. F * q + F <= F * p
    <3> HIDE DEF q, p
    <3> QED
      BY <1>1, <1>2, <2>1
  <2> HIDE DEF q, p
  <2> QED
    BY <1>1, <1>2, <1>3, <1>4, <2>2
<1>6. F * p <= F * q
  <2> HIDE DEF q, p
  <2> QED
    BY <1>1, <1>2, <1>5
<1>7. ASSUME t < c + F PROVE p = q
  <2>1. SUFFICES ASSUME p < q PROVE FALSE
    BY <1>2, <1>5
  <2>2. F * p + F <= F * q
    <3> HIDE DEF q, p
    <3> QED
      BY <1>1, <1>2, <2>1
  <2> HIDE DEF q, p
  <2> QED
    BY <1>1, <1>2, <1>3, <1>4, <1>7, <2>2
<1> HIDE DEF q, p
<1> QED
  BY <1>4, <1>6, <1>7

\* There are finitely many events.
LEMMA EventsAreFinite == IsFiniteSet(Event)
<1> DEFINE kinds == {"begin", "segment", "end", "stain"}
<1>1. IsFiniteSet(kinds)
  <2>1. IsFiniteSet({}) /\ IsFiniteSet({"begin"})
    BY FS_EmptySet, FS_Singleton
  <2>2. IsFiniteSet({"begin"} \cup {"segment"})
    BY <2>1, FS_AddElement
  <2>3. IsFiniteSet(({"begin"} \cup {"segment"}) \cup {"end"})
    BY <2>2, FS_AddElement
  <2>4. IsFiniteSet((({"begin"} \cup {"segment"}) \cup {"end"}) \cup {"stain"})
    BY <2>3, FS_AddElement
  <2>5. kinds = (({"begin"} \cup {"segment"}) \cup {"end"}) \cup {"stain"}
    OBVIOUS
  <2> QED
    BY <2>4, <2>5
<1>2. Event \subseteq Batch \X kinds
  BY DEF Event, Kinds
<1> HIDE DEF kinds
<1>3. IsFiniteSet(Batch \X kinds)
  BY <1>1, FS_Product, HistoryAssumption
<1> QED
  BY <1>2, <1>3, FS_Subset

\* The batch of an event, and the events of a stroke and of a stain.
LEMMA EventParts ==
  /\ \A e \in Event : e = <<e[1], e[2]>> /\ e[1] \in Batch
  /\ \A b \in Stroke : {<<b, "begin">>, <<b, "segment">>, <<b, "end">>} \subseteq Event
  /\ \A t \in Stain : <<t, "stain">> \in Event
<1>1. \A e \in Event : e = <<e[1], e[2]>> /\ e[1] \in Batch
  BY DEF Event
<1>2. ASSUME NEW b \in Stroke
      PROVE  {<<b, "begin">>, <<b, "segment">>, <<b, "end">>} \subseteq Event
  BY DEF Event, Kinds, Batch
<1>3. ASSUME NEW t \in Stain PROVE <<t, "stain">> \in Event
  BY HistoryAssumption DEF Event, Kinds, Batch
<1> QED
  BY <1>1, <1>2, <1>3

\* A pair is finite.
LEMMA PairIsFinite ==
  ASSUME NEW x, NEW y
  PROVE  IsFiniteSet({x, y})
<1>1. IsFiniteSet({x} \cup {y})
  BY FS_Singleton, FS_AddElement
<1>2. {x, y} = {x} \cup {y}
  OBVIOUS
<1> QED
  BY <1>1, <1>2

\* A counter of a reader stops at 2.
LEMMA CountUp ==
  ASSUME NEW n \in 0..2
  PROVE  Min({n + 1, 2}) = IF n = 0 THEN 1 ELSE 2
<1> DEFINE S == {n + 1, 2}
<1>1. S \in SUBSET Int /\ S # {}
  OBVIOUS
<1>2. IsFiniteSet(S)
  BY PairIsFinite
<1>3. \A y \in S : Min(S) <= y
  <2> HIDE DEF S
  <2> QED
    BY <1>1, <1>2, MinProperties
<1>4. Min(S) \in S
  <2> HIDE DEF S
  <2> QED
    BY <1>1, <1>2, MinProperties
<1>5. Min(S) <= n + 1 /\ Min(S) <= 2 /\ (Min(S) = n + 1 \/ Min(S) = 2)
  BY <1>3, <1>4
<1> HIDE DEF S
<1>6. Min(S) = IF n = 0 THEN 1 ELSE 2
  BY <1>5
<1> QED
  BY <1>6 DEF S

\* What reading a page does to the counters.
LEMMA ReceivedCounts ==
  ASSUME NEW got \in [Event -> 0..2], NEW events
  PROVE  /\ Received(got, events) \in [Event -> 0..2]
         /\ \A e \in Event :
              Received(got, events)[e] = IF e \in events THEN (IF got[e] = 0 THEN 1 ELSE 2)
                                                         ELSE got[e]
<1>1. \A e \in Event : Min({got[e] + 1, 2}) = IF got[e] = 0 THEN 1 ELSE 2
  BY CountUp
<1> QED
  BY <1>1 DEF Received

-----------------------------------------------------------------------------
(* Pages.                                                                   *)

\* Every event has a time or Never, and a committed one has a time.
LEMMA Times ==
  ASSUME TypeOK
  PROVE  /\ \A e \in Event : At(e) \in Int
         /\ \A e \in Event : e[1] \in committed => At(e) \in Time /\ At(e) \in Nat
<1>1. MaxClock \in Nat
  BY HistoryAssumption
<1>2. \A e \in Event : e[1] \in Batch
  BY EventParts
<1>3. created \in [Batch -> Time \cup {Never}] /\ \A b \in committed : created[b] # Never
  BY DEF TypeOK
<1> QED
  BY <1>1, <1>2, <1>3 DEF At, Time, Never

\* The times of the events of a page are a finite set of integers.
LEMMA TimesOfPage ==
  ASSUME TypeOK, NEW events \in SUBSET Event, events # {}
  PROVE  \E d \in events : /\ Max({At(e) : e \in events}) = At(d)
                           /\ \A e \in events : At(e) <= At(d)
<1> DEFINE S == {At(e) : e \in events}
           f == [e \in events |-> At(e)]
<1>1. S \in SUBSET Int /\ S # {}
  BY Times
<1>2. IsFiniteSet(S)
  <2>1. IsFiniteSet(events)
    BY EventsAreFinite, FS_Subset
  <2>2. f \in Surjection(events, S)
    <3>1. f \in [events -> S] /\ \A y \in S : \E e \in events : f[e] = y
      OBVIOUS
    <3> HIDE DEF f, S
    <3> QED
      BY <3>1 DEF Surjection
  <2> HIDE DEF f, S
  <2> QED
    BY <2>1, <2>2, FS_Surjection
<1>3. Max(S) \in S /\ \A y \in S : y <= Max(S)
  <2> HIDE DEF S
  <2> QED
    BY <1>1, <1>2, MaxProperties
<1>4. PICK d \in events : Max(S) = At(d)
  <2> HIDE DEF f
  <2> QED
    BY <1>3
<1>5. \A e \in events : At(e) \in S
  OBVIOUS
<1> HIDE DEF f
<1>6. \A e \in events : At(e) <= At(d)
  <2> HIDE DEF S
  <2> QED
    BY <1>3, <1>4, <1>5
<1> QED
  BY <1>4, <1>6

\* The cursor of a page that is not the last one is the millisecond of its last event.
LEMMA CursorOfPage ==
  ASSUME TypeOK, NEW page, NEW chunks, NEW cursor, GoodPage(page, chunks, cursor), page.hasMore = TRUE
  PROVE  \E d \in page.events : /\ page.cursor = ToMs(At(d))
                                /\ \A e \in page.events : At(e) <= At(d)
<1>1. page.events \in SUBSET Event
  BY DEF GoodPage, Rows
<1>2. page.events # {}
  <2>1. Cardinality(page.events) = Limit /\ Limit # 0
    BY HistoryAssumption DEF GoodPage
  <2> QED
    BY <2>1, FS_EmptySet
<1>3. page.cursor = ToMs(Max({At(e) : e \in page.events}))
  BY DEF GoodPage, NextCursor
<1>4. PICK d \in page.events : /\ Max({At(e) : e \in page.events}) = At(d)
                               /\ \A e \in page.events : At(e) <= At(d)
  BY <1>1, <1>2, TimesOfPage
<1> QED
  BY <1>3, <1>4

\* What a query finds makes a good page.
LEMMA QueryGivesGoodPage ==
  ASSUME TypeOK, NEW chunks, NEW cursor \in Cursor,
         NEW events \in Selections(chunks, cursor), NEW endFirst \in SUBSET Ties(events),
         NEW page, page = [events |-> events, endFirst |-> endFirst,
                           hasMore |-> HasMore(chunks, cursor),
                           cursor |-> NextCursor(events, HasMore(chunks, cursor)),
                           asOf |-> committed]
  PROVE  page \in Page /\ GoodPage(page, chunks, cursor)
<1> DEFINE rows == Matching(chunks, cursor)
           n == Min({Limit, Cardinality(rows)})
<1>1. rows = Rows(committed, chunks, cursor) /\ rows \subseteq Event
  BY DEF Matching, Rows
<1>2. IsFiniteSet(rows) /\ Cardinality(rows) \in Nat
  BY <1>1, EventsAreFinite, FS_Subset, FS_CardinalityType
<1>3. /\ events \subseteq rows /\ Cardinality(events) = n
      /\ \A e \in events, d \in rows \ events : At(e) <= At(d)
  <2> HIDE DEF rows
  <2>1. events \in kSubset(n, rows) /\ \A e \in events, d \in rows \ events : At(e) <= At(d)
    BY DEF Selections, rows
  <2> QED
    BY <2>1 DEF kSubset
<1>4. Limit \in Nat \ {0}
  BY HistoryAssumption
<1>5. n = IF Cardinality(rows) > Limit THEN Limit ELSE Cardinality(rows)
  <2> DEFINE c == Cardinality(rows)
             S == {Limit, c}
  <2>1. S \in SUBSET Int /\ S # {} /\ c \in Nat
    BY <1>2, <1>4
  <2>2. IsFiniteSet(S)
    BY PairIsFinite
  <2>3. Min(S) \in S /\ \A y \in S : Min(S) <= y
    <3> HIDE DEF S
    <3> QED
      BY <2>1, <2>2, MinProperties
  <2>4. n = Min(S)
    OBVIOUS
  <2> HIDE DEF n, c
  <2>5. n = IF c > Limit THEN Limit ELSE c
    BY <1>4, <2>1, <2>3, <2>4
  <2> QED
    BY <2>5 DEF c
<1>6. HasMore(chunks, cursor) = (Cardinality(rows) > Limit)
  BY DEF HasMore
<1> HIDE DEF rows, n
<1>7. HasMore(chunks, cursor) = (rows \ events # {})
  <2>1. CASE Cardinality(rows) > Limit
    <3>1. events # rows
      BY <1>2, <1>3, <1>4, <1>5, <2>1
    <3> QED
      BY <1>3, <1>6, <2>1, <3>1
  <2>2. CASE ~(Cardinality(rows) > Limit)
    <3>1. events = rows
      BY <1>2, <1>3, <1>5, <2>2, FS_Subset
    <3> QED
      BY <1>6, <2>2, <3>1
  <2> QED
    BY <2>1, <2>2
<1>8. HasMore(chunks, cursor) \in BOOLEAN
  BY <1>6
<1>9. GoodPage(page, chunks, cursor)
  <2>1. Cardinality(events) <= Limit /\ (HasMore(chunks, cursor) => Cardinality(events) = Limit)
    <3>1. CASE Cardinality(rows) > Limit
      BY <1>3, <1>4, <1>5, <3>1
    <3>2. CASE ~(Cardinality(rows) > Limit)
      <4>1. ~HasMore(chunks, cursor)
        BY <3>2 DEF HasMore, rows
      <4>2. Cardinality(events) = Cardinality(rows) /\ Cardinality(rows) <= Limit
        BY <1>2, <1>3, <1>4, <1>5, <3>2
      <4> QED
        BY <4>1, <4>2
    <3> QED
      BY <3>1, <3>2
  <2>2. rows = Rows(page.asOf, chunks, cursor)
    BY <1>1
  <2> QED
    BY <1>3, <1>7, <2>1, <2>2 DEF GoodPage
<1>10. page.cursor \in Cursor
  <2>1. CASE page.hasMore = TRUE
    <3>1. PICK d \in page.events : page.cursor = ToMs(At(d))
      BY <1>9, <2>1, CursorOfPage
    <3>2. d \in Event /\ d[1] \in committed
      BY <1>9, <3>1 DEF GoodPage, Rows
    <3>3. At(d) \in 0..MaxClock /\ At(d) \in Nat /\ MaxClock \in Nat
      BY <3>2, Times, HistoryAssumption DEF Time
    <3>4. ToMs(At(d)) \in 0..MaxClock
      BY <3>3, Milliseconds
    <3> QED
      BY <3>1, <3>4 DEF Cursor, Time
  <2>2. CASE page.hasMore = FALSE
    BY <2>2 DEF NextCursor, Cursor
  <2> QED
    BY <1>8, <2>1, <2>2
<1>11. /\ events \in SUBSET Event /\ endFirst \in SUBSET Stroke /\ committed \in SUBSET Batch
       /\ NextCursor(events, HasMore(chunks, cursor)) \in Cursor
  <2>1. NextCursor(events, HasMore(chunks, cursor)) \in Cursor
    BY <1>10
  <2> QED
    BY <1>1, <1>3, <2>1 DEF Ties, TypeOK
<1>12. page \in Page
  BY <1>8, <1>11 DEF Page
<1> QED
  BY <1>9, <1>12

-----------------------------------------------------------------------------
(* Pages stay good.                                                         *)

\* Nothing is uncommitted, and what is committed keeps its created_at.
Persists == committed \subseteq committed' /\ \A b \in committed : created'[b] = created[b]

\* Only an INSERT writes created_at, and only that of a new batch.
LEMMA NextPersists ==
  ASSUME TypeOK, [Next]_vars
  PROVE  Persists
<1>1. CASE Tick
  BY <1>1 DEF Tick, Persists
<1>2. ASSUME NEW b \in Batch, Insert(b) PROVE Persists
  BY <1>2 DEF Insert, Persists, TypeOK
<1>3. ASSUME NEW b \in Batch, Commit(b) PROVE Persists
  BY <1>3 DEF Commit, Persists
<1>4. ASSUME NEW r \in Reader, Ask(r) \/ Serve(r) \/ Fail(r) PROVE Persists
  BY <1>4 DEF Ask, Serve, Hit, Miss, Query, Store, Fail, Persists
<1>5. CASE UNCHANGED vars
  BY <1>5 DEF vars, Persists
<1> QED
  BY <1>1, <1>2, <1>3, <1>4, <1>5 DEF Next

\* A page that is good for its query stays so.
LEMMA GoodPagePersists ==
  ASSUME Persists, NEW CONSTANT page, NEW CONSTANT chunks, NEW CONSTANT cursor,
         GoodPage(page, chunks, cursor)
  PROVE  GoodPage(page, chunks, cursor)'
<1>1. page.asOf \subseteq committed /\ page.asOf \subseteq committed'
  BY DEF GoodPage, Persists
<1>2. \A e \in Event : e[1] \in page.asOf => At(e)' = At(e)
  BY <1>1 DEF Persists, At
<1>3. Rows(page.asOf, chunks, cursor)' = Rows(page.asOf, chunks, cursor)
  BY <1>2 DEF Rows
<1>4. \A e \in Rows(page.asOf, chunks, cursor) : At(e)' = At(e)
  BY <1>2 DEF Rows
<1>5. page.events \subseteq Rows(page.asOf, chunks, cursor)
  BY DEF GoodPage
<1>6. {At(e)' : e \in page.events} = {At(e) : e \in page.events}
  BY <1>4, <1>5
<1>7. NextCursor(page.events, page.hasMore)' = NextCursor(page.events, page.hasMore)
  BY <1>6 DEF NextCursor
<1> QED
  BY <1>1, <1>3, <1>4, <1>5, <1>7 DEF GoodPage

\* The cursor of a page that is not the last one: a whole millisecond, that of its last
\* event, and no earlier than the cursor of its query if that one was whole.
LEMMA NextCursorIsWhole ==
  ASSUME TypeOK, NEW page, NEW chunks, NEW cursor \in Cursor,
         GoodPage(page, chunks, cursor), page.hasMore = TRUE
  PROVE  /\ page.cursor \in Time /\ page.cursor \in Nat /\ ToMs(page.cursor) = page.cursor
         /\ \A e \in page.events : At(e) < page.cursor + Fraction
         /\ \E d \in page.events : page.cursor <= At(d)
         /\ cursor = Start => cursor < page.cursor
         /\ cursor # Start /\ ToMs(cursor) = cursor => cursor <= page.cursor
<1>1. PICK d \in page.events : page.cursor = ToMs(At(d)) /\ \A e \in page.events : At(e) <= At(d)
  BY CursorOfPage
<1>2. page.events \subseteq Event /\ \A e \in page.events : e[1] \in committed /\ At(e) > cursor
  BY DEF GoodPage, Rows
<1>3. \A e \in page.events : At(e) \in 0..MaxClock /\ At(e) \in Nat
  BY <1>2, Times DEF Time
<1>4. /\ ToMs(At(d)) \in Nat /\ ToMs(At(d)) <= At(d) /\ At(d) < ToMs(At(d)) + Fraction
      /\ ToMs(ToMs(At(d))) = ToMs(At(d))
  BY <1>3, Milliseconds
<1>5. MaxClock \in Nat /\ Fraction \in Nat
  BY HistoryAssumption
<1>6. page.cursor \in Time /\ page.cursor \in Nat /\ ToMs(page.cursor) = page.cursor
  BY <1>1, <1>3, <1>4, <1>5 DEF Time
<1>7. \A e \in page.events : At(e) < page.cursor + Fraction
  BY <1>1, <1>3, <1>4, <1>5
<1>8. \E c \in page.events : page.cursor <= At(c)
  BY <1>1, <1>4
<1>9. cursor = Start => cursor < page.cursor
  BY <1>6 DEF Start
<1>10. ASSUME cursor # Start, ToMs(cursor) = cursor PROVE cursor <= page.cursor
  <2>1. cursor \in Nat
    BY <1>5, <1>10 DEF Cursor, Time
  <2>2. cursor <= At(d)
    BY <1>2, <1>3, <2>1
  <2> QED
    BY <1>1, <1>3, <1>10, <2>1, <2>2, LaterMillisecond
<1> QED
  BY <1>6, <1>7, <1>8, <1>9, <1>10

\* What the answer makes of a reader.
LEMMA AnswerFields ==
  ASSUME NEW s \in Request, NEW page \in Page, NEW a, a = Answer(s, page)
  PROVE  /\ a.at = (IF page.hasMore THEN "get" ELSE "done")
         /\ a.chunks = s.chunks /\ a.page = NoPage /\ a.cursor = page.cursor
         /\ a.cursors = (IF page.hasMore THEN s.cursors \cup {page.cursor} ELSE s.cursors)
         /\ a.got = Received(s.got, Compress(page))
         /\ a.base = s.base \cap page.asOf /\ a.lost = s.lost \cup page.endFirst
         /\ a = [at |-> a.at, chunks |-> a.chunks, cursor |-> a.cursor, page |-> a.page,
                 cursors |-> a.cursors, got |-> a.got, base |-> a.base, lost |-> a.lost]
BY DEF Request, Answer

\* The empty page is a page.
LEMMA NoPageIsPage == NoPage \in Page
BY DEF NoPage, Page, Cursor

\* The answer leaves a reader that is typed.
LEMMA AnswerIsTyped ==
  ASSUME TypeOK, NEW s \in Request, NEW page \in Page, GoodPage(page, s.chunks, s.cursor)
  PROVE  Answer(s, page) \in Request
<1> DEFINE a == Answer(s, page)
<1>1. /\ a.at = (IF page.hasMore THEN "get" ELSE "done")
      /\ a.chunks = s.chunks /\ a.page = NoPage /\ a.cursor = page.cursor
      /\ a.cursors = (IF page.hasMore THEN s.cursors \cup {page.cursor} ELSE s.cursors)
      /\ a.got = Received(s.got, Compress(page))
      /\ a.base = s.base \cap page.asOf /\ a.lost = s.lost \cup page.endFirst
      /\ a = [at |-> a.at, chunks |-> a.chunks, cursor |-> a.cursor, page |-> a.page,
              cursors |-> a.cursors, got |-> a.got, base |-> a.base, lost |-> a.lost]
  BY AnswerFields
<1> HIDE DEF a
<1>2. a.at \in Places
  BY <1>1 DEF Places
<1>3. a.chunks \in SUBSET Chunk /\ a.cursor \in Cursor /\ a.page \in Page
  BY <1>1, NoPageIsPage DEF Request, Page
<1>4. a.cursors \in SUBSET Time
  <2>1. s.cursors \in SUBSET Time /\ s.cursor \in Cursor /\ page.hasMore \in BOOLEAN
    BY DEF Request, Page
  <2>2. page.hasMore = TRUE => page.cursor \in Time
    BY <2>1, NextCursorIsWhole
  <2> QED
    BY <1>1, <2>1, <2>2
<1>5. a.got \in [Event -> 0..2]
  <2>1. s.got \in [Event -> 0..2]
    BY DEF Request
  <2> QED
    BY <1>1, <2>1, ReceivedCounts
<1>6. a.base \in SUBSET Batch /\ a.lost \in SUBSET Stroke
  BY <1>1 DEF Request, Page
<1>7. a \in Request
  BY <1>1, <1>2, <1>3, <1>4, <1>5, <1>6 DEF Request
<1> QED
  BY <1>7 DEF a

\* So are the readers that start, are refused or fail.
LEMMA IdleIsTyped == Idle \in Request /\ Failed \in Request /\ Refused \in Request
<1>1. Idle \in Request
  BY NoPageIsPage DEF Idle, Request, Places, Cursor
<1>2. Failed \in Request /\ Refused \in Request
  BY <1>1 DEF Failed, Refused, Request, Places
<1> QED
  BY <1>1, <1>2

-----------------------------------------------------------------------------
(* Types.                                                                   *)

\* The initial states are typed.
LEMMA TypeInit == Init => TypeOK
<1> SUFFICES ASSUME Init PROVE TypeOK
  OBVIOUS
<1>1. 0 \in Time /\ 0 \in 0..MaxFaults
  BY HistoryAssumption DEF Time
<1>2. reader \in [Reader -> Request]
  BY IdleIsTyped DEF Init
<1> QED
  BY <1>1, <1>2 DEF Init, TypeOK, Never

\* A reader that changes to a typed one.
LEMMA ReaderIsTyped ==
  ASSUME TypeOK, NEW r \in Reader, NEW s \in Request, SetReader(r, s),
         UNCHANGED <<now, created, committed, cache>>, faults' \in 0..MaxFaults
  PROVE  TypeOK'
<1>1. reader' \in [Reader -> Request]
  BY DEF TypeOK, SetReader
<1> QED
  BY <1>1 DEF TypeOK

\* A page that is stored for a reader.
LEMMA StoredIsTyped ==
  ASSUME TypeOK, NEW s \in Request, GoodPage(s.page, s.chunks, s.cursor), s.page.events # {},
         cache' = Stored(s), UNCHANGED <<now, created, committed>>
  PROVE  /\ DOMAIN cache' \subseteq Key
         /\ \A k \in DOMAIN cache' :
              /\ cache'[k].expires \in now' + 1..now' + Ttl
              /\ cache'[k].page \in Page /\ Cardinality(cache'[k].page.events) \in 1..Limit
<1>1. KeyOf(s) \in Key
  BY DEF KeyOf, Key, Request
<1>2. Ttl \in Nat \ {0} /\ Limit \in Nat /\ now \in Nat
  BY HistoryAssumption DEF TypeOK, Time
<1>3. Cardinality(s.page.events) \in 1..Limit
  <2>1. s.page.events \subseteq Event /\ Cardinality(s.page.events) <= Limit
    BY DEF GoodPage, Rows
  <2>2. IsFiniteSet(s.page.events)
    BY <2>1, EventsAreFinite, FS_Subset
  <2>3. Cardinality(s.page.events) \in Nat /\ Cardinality(s.page.events) # 0
    BY <2>2, FS_CardinalityType, FS_EmptySet
  <2> QED
    BY <1>2, <2>1, <2>3
<1>4. DOMAIN cache' = DOMAIN cache \cup {KeyOf(s)}
  BY DEF Stored
<1>5. \A k \in DOMAIN cache' :
        cache'[k] = IF k = KeyOf(s) THEN [page |-> s.page, expires |-> now + Ttl] ELSE cache[k]
  BY DEF Stored
<1>6. s.page \in Page
  BY DEF Request
<1>7. ASSUME NEW k \in DOMAIN cache'
      PROVE  /\ cache'[k].expires \in now' + 1..now' + Ttl
             /\ cache'[k].page \in Page /\ Cardinality(cache'[k].page.events) \in 1..Limit
  <2>1. CASE k = KeyOf(s)
    BY <1>2, <1>3, <1>5, <1>6, <2>1
  <2>2. CASE k # KeyOf(s)
    <3>1. k \in DOMAIN cache /\ cache'[k] = cache[k]
      BY <1>4, <1>5, <2>2
    <3> QED
      BY <3>1 DEF TypeOK
  <2> QED
    BY <2>1, <2>2
<1> QED
  BY <1>1, <1>4, <1>7 DEF TypeOK

\* What a step of a reader leaves in its place: a reader that was refused or has failed,
\* one that starts, one that goes on to the query, one that holds the page of its query,
\* or one that has received such a page.
Outcome(r, s) ==
  \/ s \in {Refused, Failed}
  \/ reader[r].at = "idle" /\ \E chunks \in SUBSET Chunk :
       s = [Idle EXCEPT !.chunks = chunks, !.at = IF chunks = {} THEN "done" ELSE "get"]
  \/ reader[r].at = "get" /\ s = [reader[r] EXCEPT !.at = "query"]
  \/ \E page \in Page :
       /\ Busy(r) /\ GoodPage(page, reader[r].chunks, reader[r].cursor)
       /\ \/ s = Answer(reader[r], page)
          \/ page.events # {} /\ s = [reader[r] EXCEPT !.at = "set", !.page = page]

\* Every step of a reader has one of these outcomes.
LEMMA StepsHaveOutcomes ==
  ASSUME TypeOK, PagesAreGood, NEW r \in Reader, Ask(r) \/ Serve(r) \/ Fail(r)
  PROVE  /\ \E s : SetReader(r, s) /\ Outcome(r, s)
         /\ UNCHANGED <<now, created, committed>>
<1>1. reader[r] \in Request /\ HeldPage(reader[r])
  BY DEF TypeOK, PagesAreGood
<1>2. CASE Ask(r)
  <2>1. PICK header \in Header, chunks \in SUBSET Chunk :
          SetReader(r, IF ~Admitted(header) THEN Refused
                       ELSE [Idle EXCEPT !.chunks = chunks,
                                         !.at = IF chunks = {} THEN "done" ELSE "get"])
    BY <1>2 DEF Ask
  <2> QED
    BY <1>2, <2>1 DEF Ask, Outcome
<1>3. CASE Hit(r)
  <2> DEFINE k == KeyOf(reader[r])
             page == cache[k].page
  <2>1. k \in DOMAIN cache /\ page \in Page /\ Busy(r)
    BY <1>3 DEF Hit, TypeOK, Busy
  <2>2. GoodPage(page, k[1], k[2]) /\ k[1] = reader[r].chunks /\ k[2] = reader[r].cursor
    BY <2>1 DEF PagesAreGood, KeyOf
  <2>3. SetReader(r, Failed) \/ SetReader(r, Answer(reader[r], page))
    BY <1>3 DEF Hit
  <2> HIDE DEF k, page
  <2> QED
    BY <1>3, <2>1, <2>2, <2>3 DEF Hit, Outcome
<1>4. CASE Miss(r)
  BY <1>4 DEF Miss, Outcome
<1>5. CASE Query(r)
  <2> DEFINE s == reader[r]
             more == HasMore(s.chunks, s.cursor)
  <2>1. PICK events \in Selections(s.chunks, s.cursor) : \E endFirst \in SUBSET Ties(events) :
          LET page == [events |-> events, endFirst |-> endFirst, hasMore |-> more,
                       cursor |-> NextCursor(events, more), asOf |-> committed]
          IN  SetReader(r, IF events = {} THEN Answer(s, page)
                           ELSE [s EXCEPT !.at = "set", !.page = page])
    BY <1>5 DEF Query
  <2>2. PICK endFirst \in SUBSET Ties(events) :
          LET page == [events |-> events, endFirst |-> endFirst, hasMore |-> more,
                       cursor |-> NextCursor(events, more), asOf |-> committed]
          IN  SetReader(r, IF events = {} THEN Answer(s, page)
                           ELSE [s EXCEPT !.at = "set", !.page = page])
    BY <2>1
  <2> DEFINE page == [events |-> events, endFirst |-> endFirst, hasMore |-> more,
                      cursor |-> NextCursor(events, more), asOf |-> committed]
  <2>3. s.cursor \in Cursor
    BY <1>1 DEF Request
  <2>4. page \in Page /\ GoodPage(page, s.chunks, s.cursor)
    BY <2>3, QueryGivesGoodPage
  <2>5. /\ SetReader(r, IF events = {} THEN Answer(s, page)
                        ELSE [s EXCEPT !.at = "set", !.page = page])
        /\ page.events = events
    BY <2>2
  <2>6. Busy(r)
    BY <1>5 DEF Query, Busy
  <2> HIDE DEF page
  <2> QED
    BY <1>5, <2>4, <2>5, <2>6 DEF Query, Outcome
<1>6. CASE Store(r)
  <2>1. GoodPage(reader[r].page, reader[r].chunks, reader[r].cursor) /\ Busy(r)
    BY <1>1, <1>6 DEF HeldPage, Store, Busy
  <2>2. reader[r].page \in Page
    BY <1>1 DEF Request
  <2> QED
    BY <1>6, <2>1, <2>2 DEF Store, Outcome
<1>7. CASE Fail(r)
  BY <1>7 DEF Fail, Outcome
<1> QED
  BY <1>2, <1>3, <1>4, <1>5, <1>6, <1>7 DEF Serve

\* Every outcome is typed.
LEMMA OutcomeIsTyped ==
  ASSUME TypeOK, NEW r \in Reader, NEW s, Outcome(r, s)
  PROVE  s \in Request
<1>1. reader[r] \in Request
  BY DEF TypeOK
<1>2. ASSUME NEW chunks \in SUBSET Chunk
      PROVE  [Idle EXCEPT !.chunks = chunks, !.at = IF chunks = {} THEN "done" ELSE "get"] \in Request
  BY IdleIsTyped DEF Request, Places
<1>3. [reader[r] EXCEPT !.at = "query"] \in Request
  BY <1>1 DEF Request, Places
<1>4. ASSUME NEW page \in Page, GoodPage(page, reader[r].chunks, reader[r].cursor)
      PROVE  /\ Answer(reader[r], page) \in Request
             /\ [reader[r] EXCEPT !.at = "set", !.page = page] \in Request
  <2>1. [reader[r] EXCEPT !.at = "set", !.page = page] \in Request
    BY <1>1 DEF Request, Places
  <2> QED
    BY <1>1, <1>4, <2>1, AnswerIsTyped
<1> QED
  BY <1>2, <1>3, <1>4, IdleIsTyped DEF Outcome

\* A step leaves typed states, if the pages are good.
LEMMA TypeStep == TypeOK /\ PagesAreGood /\ [Next]_vars => TypeOK'
<1> SUFFICES ASSUME TypeOK, PagesAreGood, [Next]_vars PROVE TypeOK'
  OBVIOUS
<1>1. CASE Tick
  <2>1. MaxClock \in Nat /\ Ttl \in Nat /\ now' \in Time
    BY <1>1, HistoryAssumption DEF Tick, TypeOK, Time
  <2>2. \A k \in DOMAIN cache' :
          /\ k \in DOMAIN cache /\ cache'[k] = cache[k]
          /\ cache'[k].expires \in now' + 1..now' + Ttl
    BY <1>1, <2>1 DEF Tick, TypeOK, Fresh, Time
  <2> QED
    BY <1>1, <2>1, <2>2 DEF Tick, TypeOK
<1>2. ASSUME NEW b \in Batch, Insert(b) PROVE TypeOK'
  BY <1>2, HistoryAssumption DEF Insert, TypeOK, Time, Never
<1>3. ASSUME NEW b \in Batch, Commit(b) PROVE TypeOK'
  BY <1>3 DEF Commit, TypeOK
<1>4. ASSUME NEW r \in Reader, Ask(r) \/ Hit(r) \/ Miss(r) \/ Query(r) PROVE TypeOK'
  <2>1. UNCHANGED <<now, created, committed, cache>> /\ faults' \in 0..MaxFaults
    BY <1>4 DEF Ask, Hit, Miss, Query, TypeOK
  <2>2. PICK s \in Request : SetReader(r, s)
    BY <1>4, StepsHaveOutcomes, OutcomeIsTyped DEF Serve
  <2> QED
    BY <2>1, <2>2, ReaderIsTyped
<1>5. ASSUME NEW r \in Reader, Store(r) PROVE TypeOK'
  <2>1. reader[r] \in Request
    BY DEF TypeOK
  <2>2. GoodPage(reader[r].page, reader[r].chunks, reader[r].cursor) /\ reader[r].page.events # {}
    BY <1>5 DEF PagesAreGood, HeldPage, Store
  <2>3. PICK s \in Request : SetReader(r, s)
    BY <1>5, StepsHaveOutcomes, OutcomeIsTyped DEF Serve
  <2>4. reader' \in [Reader -> Request]
    BY <2>3 DEF TypeOK, SetReader
  <2>5. cache' = Stored(reader[r]) /\ UNCHANGED <<now, created, committed, faults>>
    BY <1>5 DEF Store
  <2>6. /\ DOMAIN cache' \subseteq Key
        /\ \A k \in DOMAIN cache' :
             /\ cache'[k].expires \in now' + 1..now' + Ttl
             /\ cache'[k].page \in Page /\ Cardinality(cache'[k].page.events) \in 1..Limit
    BY <2>1, <2>2, <2>5, StoredIsTyped
  <2> QED
    BY <2>4, <2>5, <2>6 DEF TypeOK
<1>6. ASSUME NEW r \in Reader, Fail(r) PROVE TypeOK'
  <2>1. reader[r] \in Request
    BY DEF TypeOK
  <2>2. reader' \in [Reader -> Request]
    BY <1>6, IdleIsTyped DEF TypeOK, Fail, SetReader
  <2>3. faults' \in 0..MaxFaults /\ UNCHANGED <<now, created, committed>>
    BY <1>6, HistoryAssumption DEF Fail, Fault, TypeOK
  <2>4. CASE UNCHANGED cache
    BY <2>2, <2>3, <2>4 DEF TypeOK
  <2>5. CASE reader[r].at = "set" /\ cache' = Stored(reader[r])
    <3>1. GoodPage(reader[r].page, reader[r].chunks, reader[r].cursor) /\ reader[r].page.events # {}
      BY <2>5 DEF PagesAreGood, HeldPage
    <3>2. /\ DOMAIN cache' \subseteq Key
          /\ \A k \in DOMAIN cache' :
               /\ cache'[k].expires \in now' + 1..now' + Ttl
               /\ cache'[k].page \in Page /\ Cardinality(cache'[k].page.events) \in 1..Limit
      BY <2>1, <2>3, <2>5, <3>1, StoredIsTyped
    <3> QED
      BY <2>2, <2>3, <3>2 DEF TypeOK
  <2> QED
    BY <1>6, <2>4, <2>5 DEF Fail
<1>7. CASE UNCHANGED vars
  BY <1>7 DEF vars, TypeOK
<1> QED
  BY <1>1, <1>2, <1>3, <1>4, <1>5, <1>6, <1>7 DEF Next, Serve

-----------------------------------------------------------------------------
(* The pages in the cache and in the hands of readers.                      *)

\* Whatever a step leaves holds nothing, or the page of its query.
LEMMA OutcomeHolds ==
  ASSUME TypeOK, PagesAreGood, NEW r \in Reader, NEW s, Outcome(r, s)
  PROVE  HeldPage(s)
<1>1. reader[r] \in Request /\ HeldPage(reader[r])
  BY DEF TypeOK, PagesAreGood
<1>2. CASE s \in {Refused, Failed}
  BY <1>2 DEF Failed, Refused, Idle, HeldPage
<1>3. ASSUME NEW chunks \in SUBSET Chunk,
             s = [Idle EXCEPT !.chunks = chunks, !.at = IF chunks = {} THEN "done" ELSE "get"]
      PROVE  HeldPage(s)
  <2>1. s.at # "set" /\ s.page = NoPage
    BY <1>3 DEF Idle
  <2> QED
    BY <2>1 DEF HeldPage
<1>4. ASSUME reader[r].at = "get", s = [reader[r] EXCEPT !.at = "query"]
      PROVE  HeldPage(s)
  <2>1. s.at = "query" /\ s.page = NoPage
    BY <1>1, <1>4 DEF HeldPage, Request
  <2> QED
    BY <2>1 DEF HeldPage
<1>5. ASSUME NEW page \in Page, s = Answer(reader[r], page)
      PROVE  HeldPage(s)
  <2>1. s.at # "set" /\ s.page = NoPage
    BY <1>1, <1>5, AnswerFields
  <2> QED
    BY <2>1 DEF HeldPage
<1>6. ASSUME NEW page \in Page, GoodPage(page, reader[r].chunks, reader[r].cursor),
             page.events # {}, s = [reader[r] EXCEPT !.at = "set", !.page = page]
      PROVE  HeldPage(s)
  <2>1. /\ s.at = "set" /\ s.page = page
        /\ s.chunks = reader[r].chunks /\ s.cursor = reader[r].cursor
    BY <1>1, <1>6 DEF Request
  <2> QED
    BY <1>6, <2>1 DEF HeldPage
<1> QED
  BY <1>2, <1>3, <1>4, <1>5, <1>6 DEF Outcome

\* What each step does to the cache: pages leave it, or the one that a reader holds enters.
LEMMA CacheStep ==
  ASSUME [Next]_vars
  PROVE  \A k \in DOMAIN cache' :
           \/ k \in DOMAIN cache /\ cache'[k] = cache[k]
           \/ \E r \in Reader : /\ reader[r].at = "set" /\ k = KeyOf(reader[r])
                                /\ cache'[k].page = reader[r].page
<1>1. CASE Tick
  BY <1>1 DEF Tick, Fresh
<1>2. ASSUME NEW r \in Reader, reader[r].at = "set", cache' = Stored(reader[r]),
             NEW k \in DOMAIN cache'
      PROVE  \/ k \in DOMAIN cache /\ cache'[k] = cache[k]
             \/ k = KeyOf(reader[r]) /\ cache'[k].page = reader[r].page
  BY <1>2 DEF Stored
<1>3. ASSUME NEW r \in Reader, Store(r) \/ (Fail(r) /\ ~UNCHANGED cache)
      PROVE  reader[r].at = "set" /\ cache' = Stored(reader[r])
  BY <1>3 DEF Store, Fail
<1>4. ASSUME NEW r \in Reader, Ask(r) \/ Hit(r) \/ Miss(r) \/ Query(r)
      PROVE  UNCHANGED cache
  BY <1>4 DEF Ask, Hit, Miss, Query
<1>5. ASSUME NEW b \in Batch, Insert(b) \/ Commit(b)
      PROVE  UNCHANGED cache
  BY <1>5 DEF Insert, Commit
<1>6. CASE UNCHANGED cache
  BY <1>6
<1>7. CASE UNCHANGED vars
  BY <1>6, <1>7 DEF vars
<1>8. ASSUME NEW r \in Reader, Store(r) \/ Fail(r), ~UNCHANGED cache
      PROVE  \A k \in DOMAIN cache' :
               \/ k \in DOMAIN cache /\ cache'[k] = cache[k]
               \/ \E q \in Reader : /\ reader[q].at = "set" /\ k = KeyOf(reader[q])
                                    /\ cache'[k].page = reader[q].page
  BY <1>2, <1>3, <1>8
<1> QED
  BY <1>1, <1>4, <1>5, <1>6, <1>7, <1>8 DEF Next, Serve

\* A step leaves good pages.
LEMMA PagesStep == TypeOK /\ PagesAreGood /\ [Next]_vars => PagesAreGood'
<1> SUFFICES ASSUME TypeOK, PagesAreGood, [Next]_vars PROVE PagesAreGood'
  OBVIOUS
<1>1. Persists
  BY NextPersists
<1>2. ASSUME NEW k \in DOMAIN cache' PROVE GoodPage(cache[k].page, k[1], k[2])'
  <2>1. PICK page, chunks, cursor : page = cache'[k].page /\ chunks = k[1] /\ cursor = k[2]
    OBVIOUS
  <2>2. GoodPage(page, chunks, cursor)
    <3>1. CASE k \in DOMAIN cache /\ cache'[k] = cache[k]
      BY <2>1, <3>1 DEF PagesAreGood
    <3>2. ASSUME NEW r \in Reader, reader[r].at = "set", k = KeyOf(reader[r]),
                 cache'[k].page = reader[r].page
          PROVE  GoodPage(page, chunks, cursor)
      <4>1. GoodPage(reader[r].page, reader[r].chunks, reader[r].cursor)
        BY <3>2 DEF PagesAreGood, HeldPage
      <4>2. page = reader[r].page /\ chunks = reader[r].chunks /\ cursor = reader[r].cursor
        BY <2>1, <3>2 DEF KeyOf
      <4> QED
        BY <4>1, <4>2
    <3> QED
      BY <3>1, <3>2, CacheStep
  <2>3. GoodPage(page, chunks, cursor)'
    BY <1>1, <2>2, GoodPagePersists
  <2> QED
    BY <2>1, <2>3
<1>3. ASSUME NEW s, HeldPage(s) PROVE HeldPage(s)'
  <2>1. CASE s.at = "set"
    <3>1. PICK page, chunks, cursor : page = s.page /\ chunks = s.chunks /\ cursor = s.cursor
      OBVIOUS
    <3>2. GoodPage(page, chunks, cursor) /\ s.page.events # {}
      BY <1>3, <2>1, <3>1 DEF HeldPage
    <3>3. GoodPage(page, chunks, cursor)'
      BY <1>1, <3>2, GoodPagePersists
    <3> QED
      BY <2>1, <3>1, <3>2, <3>3 DEF HeldPage
  <2>2. CASE s.at # "set"
    BY <1>3, <2>2 DEF HeldPage
  <2> QED
    BY <2>1, <2>2
<1>4. ASSUME NEW r \in Reader PROVE HeldPage(reader[r])'
  <2>1. PICK s : s = reader'[r] /\ HeldPage(s)
    <3>1. CASE reader'[r] = reader[r]
      BY <3>1 DEF PagesAreGood
    <3>2. ASSUME NEW q \in Reader, Ask(q) \/ Serve(q) \/ Fail(q)
          PROVE  \E s : s = reader'[r] /\ HeldPage(s)
      <4>1. PICK s : SetReader(q, s) /\ HeldPage(s)
        BY <3>2, StepsHaveOutcomes, OutcomeHolds
      <4>2. reader'[r] = IF r = q THEN s ELSE reader[r]
        BY <4>1 DEF SetReader, TypeOK
      <4> QED
        BY <3>1, <4>1, <4>2
    <3> QED
      BY <3>1, <3>2 DEF Next, vars, Tick, Insert, Commit
  <2>2. HeldPage(s)'
    BY <1>3, <2>1
  <2> QED
    BY <2>1, <2>2
<1> QED
  BY <1>2, <1>4 DEF PagesAreGood

\* Types and pages, which hold together.
LEMMA TypesAndPages == Spec => [](TypeOK /\ PagesAreGood)
<1>1. Init => TypeOK /\ PagesAreGood
  <2> SUFFICES ASSUME Init PROVE PagesAreGood
    BY TypeInit
  <2>1. DOMAIN cache = {}
    BY DEF Init
  <2>2. \A r \in Reader : HeldPage(reader[r])
    BY DEF Init, Idle, HeldPage
  <2> QED
    BY <2>1, <2>2 DEF PagesAreGood
<1>2. (TypeOK /\ PagesAreGood) /\ [Next]_vars => (TypeOK /\ PagesAreGood)'
  BY TypeStep, PagesStep
<1> QED
  BY <1>1, <1>2, PTL DEF Spec

\* Types: the rows, the cache and the readers stay within their types, whatever the
\* limit, the strokes and the number of readers; a cached page has an event and is not
\* longer than the limit.
THEOREM TypeCorrect == Spec => []TypeOK
BY TypesAndPages, PTL

\* A page in the cache answers its query: its events are the first ones of the chunks
\* and after the cursor in its key, and it says truly whether there are more.
THEOREM PagesAnswerTheirQueries == Spec => []PageAnswersItsQuery
<1>1. PagesAreGood => PageAnswersItsQuery
  <2> SUFFICES ASSUME PagesAreGood, NEW k \in DOMAIN cache
               PROVE  LET page == cache[k].page
                          rows == {e \in Event : e[1] \in page.asOf /\ ChunkOf[e[1]] \in k[1] /\ At(e) > k[2]}
                      IN  /\ page.events \subseteq rows
                          /\ page.hasMore = (rows \ page.events # {})
                          /\ \A e \in rows \ page.events, d \in page.events : At(d) <= At(e)
    BY DEF PageAnswersItsQuery
  <2> QED
    BY DEF PagesAreGood, GoodPage, Rows
<1> QED
  BY <1>1, TypesAndPages, PTL

-----------------------------------------------------------------------------
(* The readers.                                                             *)

\* What a page adds to what its reader has seen: the events of the page, one more time
\* each, but a segment whose end came first is lost.
LEMMA PageIsSeen ==
  ASSUME NEW s \in Request, NEW page \in Page, page.endFirst \subseteq Ties(page.events),
         NEW a, a = Answer(s, page), NEW e \in Event
  PROVE  /\ Seen(a, e) <=> Seen(s, e) \/ e \in page.events
         /\ e \notin page.events => a.got[e] = s.got[e] /\ (LostSegment(a, e) <=> LostSegment(s, e))
         /\ e \in page.events /\ ~Seen(s, e) =>
              a.got[e] <= 1 /\ (LostSegment(a, e) => a.got[e] = 0)
<1> DEFINE here == e[2] = "segment" /\ e[1] \in page.endFirst
<1>1. s.got \in [Event -> 0..2] /\ s.got[e] \in 0..2
  BY DEF Request
<1>2. a.got = Received(s.got, Compress(page)) /\ a.lost = s.lost \cup page.endFirst
  BY DEF Answer, Request
<1>3. a.got[e] = IF e \in Compress(page) THEN (IF s.got[e] = 0 THEN 1 ELSE 2) ELSE s.got[e]
  BY <1>1, <1>2, ReceivedCounts
<1>4. LostSegment(a, e) <=> LostSegment(s, e) \/ here
  BY <1>2 DEF LostSegment
<1>5. here => e \in page.events /\ e \notin Compress(page)
  <2> SUFFICES ASSUME here PROVE e \in page.events /\ e \notin Compress(page)
    OBVIOUS
  <2>1. e = <<e[1], "segment">>
    BY EventParts
  <2> QED
    BY <2>1 DEF Compress, Ties
<1>6. e \in page.events /\ ~here => e \in Compress(page)
  BY DEF Compress
<1>7. e \in Compress(page) => e \in page.events
  BY DEF Compress
<1> HIDE DEF here
<1>8. Seen(a, e) <=> Seen(s, e) \/ e \in page.events
  BY <1>1, <1>3, <1>4, <1>5, <1>6, <1>7 DEF Seen
<1>9. ASSUME e \notin page.events
      PROVE  a.got[e] = s.got[e] /\ (LostSegment(a, e) <=> LostSegment(s, e))
  BY <1>3, <1>4, <1>5, <1>7, <1>9
<1>10. ASSUME e \in page.events, ~Seen(s, e)
       PROVE  a.got[e] <= 1 /\ (LostSegment(a, e) => a.got[e] = 0)
  <2>1. s.got[e] = 0 /\ ~LostSegment(s, e)
    BY <1>1, <1>10 DEF Seen
  <2> QED
    BY <1>3, <1>4, <1>5, <2>1
<1> QED
  BY <1>8, <1>9, <1>10

\* An event on a page that its reader had already seen lies in the millisecond of the
\* cursor of the page, one that the reader has sent.
LEMMA RepeatIsAtCursor ==
  ASSUME TypeOK, NEW s \in Request, GoodReader(s), HalfRead(s),
         NEW e \in Event, Seen(s, e), At(e) > s.cursor
  PROVE  s.cursor \in s.cursors /\ ToMs(At(e)) = s.cursor
<1>1. s.cursor \in s.cursors /\ At(e) < s.cursor + Fraction
  BY DEF HalfRead
<1>2. ToMs(s.cursor) = s.cursor
  BY <1>1 DEF GoodReader
<1>3. s.cursor \in Nat
  BY <1>1, HistoryAssumption DEF Request, Time
<1>4. At(e) \in Nat
  BY Times DEF GoodReader
<1> QED
  BY <1>1, <1>2, <1>3, <1>4, LaterMillisecond

\* A good page leaves a good reader.
LEMMA AnswerIsGood ==
  ASSUME TypeOK, NEW s \in Request, s.at \in {"get", "query", "set"}, GoodReader(s),
         NEW page \in Page, GoodPage(page, s.chunks, s.cursor)
  PROVE  GoodReader(Answer(s, page))
<1>1. PICK a : a = Answer(s, page)
  OBVIOUS
<1>2. /\ a.at = (IF page.hasMore THEN "get" ELSE "done")
      /\ a.chunks = s.chunks /\ a.page = NoPage /\ a.cursor = page.cursor
      /\ a.cursors = (IF page.hasMore THEN s.cursors \cup {page.cursor} ELSE s.cursors)
      /\ a.base = s.base \cap page.asOf
  BY <1>1 DEF Answer, Request
<1> DEFINE rows == Rows(page.asOf, s.chunks, s.cursor)
<1>3. /\ page.asOf \subseteq committed /\ page.events \subseteq rows
      /\ page.hasMore = (rows \ page.events # {})
      /\ \A e \in rows \ page.events, d \in page.events : At(d) <= At(e)
      /\ page.endFirst \subseteq Ties(page.events)
  BY DEF GoodPage
<1>4. /\ rows \subseteq Event
      /\ \A e \in Event : e \in rows <=>
           e[1] \in page.asOf /\ ChunkOf[e[1]] \in s.chunks /\ At(e) > s.cursor
  BY DEF Rows
<1> HIDE DEF rows
<1>5. /\ \A e \in Event : Seen(a, e) <=> Seen(s, e) \/ e \in page.events
      /\ \A e \in Event : e \notin page.events =>
           a.got[e] = s.got[e] /\ (LostSegment(a, e) <=> LostSegment(s, e))
      /\ \A e \in Event : e \in page.events /\ ~Seen(s, e) =>
           a.got[e] <= 1 /\ (LostSegment(a, e) => a.got[e] = 0)
  BY <1>1, <1>3, PageIsSeen
<1>6. HalfRead(s)
  BY DEF GoodReader
<1>7. s.cursor \in Cursor /\ s.cursors \subseteq Time /\ page.hasMore \in BOOLEAN
  BY DEF Request, Page
<1>8. MaxClock \in Nat /\ Fraction \in Nat \ {0}
  BY HistoryAssumption
<1>9. s.cursor \in Int
  BY <1>7, <1>8 DEF Cursor, Time, Start
<1>10. \A e \in Event : Seen(a, e) => e[1] \in committed
  BY <1>3, <1>4, <1>5 DEF GoodReader
<1>11. s.cursors \subseteq a.cursors
  BY <1>2
<1>12. \A c \in a.cursors : ToMs(c) = c
  <2>1. \A c \in s.cursors : ToMs(c) = c
    BY DEF GoodReader
  <2>2. page.hasMore = TRUE => ToMs(page.cursor) = page.cursor
    BY <1>7, NextCursorIsWhole
  <2> QED
    BY <1>2, <1>7, <2>1, <2>2
<1>13. ASSUME NEW e \in Event, ToMs(At(e)) \notin a.cursors
       PROVE  a.got[e] <= 1 /\ (LostSegment(a, e) => a.got[e] = 0)
  <2>1. ToMs(At(e)) \notin s.cursors
    BY <1>11, <1>13
  <2>2. CASE e \in page.events
    <3>1. At(e) > s.cursor
      BY <1>3, <1>4, <2>2
    <3>2. ~Seen(s, e)
      BY <1>6, <2>1, <3>1, RepeatIsAtCursor
    <3> QED
      BY <1>5, <2>2, <3>2
  <2>3. CASE e \notin page.events
    BY <1>5, <2>1, <2>3 DEF GoodReader
  <2> QED
    BY <2>2, <2>3
<1>14. ASSUME NEW e \in Event, Visible(a, e)
       PROVE  /\ Visible(s, e) /\ e[1] \in page.asOf /\ At(e) \in Nat
              /\ At(e) <= s.cursor \/ e \in rows
  <2>1. Visible(s, e) /\ e[1] \in page.asOf
    BY <1>2, <1>14 DEF Visible
  <2>2. At(e) \in Nat
    BY <1>3, <2>1, Times
  <2>3. e \in rows <=> At(e) > s.cursor
    BY <1>4, <2>1 DEF Visible
  <2> QED
    BY <1>9, <2>1, <2>2, <2>3
<1>15. ASSUME NEW e \in Event, Visible(a, e), At(e) <= s.cursor
       PROVE  Kept(a, e)
  <2>1. Visible(s, e) /\ At(e) \in Nat
    BY <1>14, <1>15
  <2>2. s.cursor # Start
    BY <1>15, <2>1 DEF Start
  <2>3. Kept(s, e)
    BY <1>6, <1>15, <2>1, <2>2 DEF HalfRead
  <2> QED
    BY <1>5, <1>11, <2>3 DEF Kept
<1>16. ASSUME NEW e \in Event, e \in page.events
       PROVE  Kept(a, e)
  BY <1>5, <1>16 DEF Kept
<1>17. ASSUME page.hasMore = TRUE PROVE HalfRead(a)
  <2>1. /\ page.cursor \in Nat /\ \A e \in page.events : At(e) < page.cursor + Fraction
        /\ \E d \in page.events : page.cursor <= At(d)
        /\ s.cursor = Start => s.cursor < page.cursor
        /\ s.cursor # Start /\ ToMs(s.cursor) = s.cursor => s.cursor <= page.cursor
    BY <1>7, <1>17, NextCursorIsWhole
  <2>2. a.cursor = page.cursor /\ a.cursor \in a.cursors /\ a.base \subseteq committed
    BY <1>2, <1>3, <1>17
  <2>3. ASSUME NEW e \in Event, Seen(a, e) PROVE At(e) < a.cursor + Fraction
    <3>1. CASE e \in page.events
      BY <2>1, <2>2, <3>1
    <3>2. CASE e \notin page.events
      <4>1. Seen(s, e)
        BY <1>5, <2>3, <3>2
      <4>2. s.cursor \in s.cursors /\ At(e) < s.cursor + Fraction
        BY <1>6, <4>1 DEF HalfRead
      <4>3. s.cursor # Start /\ ToMs(s.cursor) = s.cursor
        BY <1>7, <1>8, <4>2 DEF GoodReader, Time, Start
      <4>4. At(e) \in Int
        BY Times
      <4> QED
        BY <1>8, <1>9, <2>1, <2>2, <4>2, <4>3, <4>4
    <3> QED
      BY <3>1, <3>2
  <2>4. ASSUME NEW e \in Event, Visible(a, e), At(e) <= a.cursor PROVE Kept(a, e)
    <3>1. CASE At(e) <= s.cursor
      BY <1>15, <2>4, <3>1
    <3>2. CASE e \in page.events
      BY <1>16, <3>2
    <3>3. CASE e \in rows \ page.events
      <4>1. PICK d \in page.events : page.cursor <= At(d)
        BY <2>1
      <4>2. At(d) <= At(e) /\ At(d) \in Int /\ At(e) \in Int
        BY <1>3, <1>4, <3>3, <4>1, Times
      <4>3. At(e) = a.cursor
        BY <2>1, <2>2, <2>4, <4>1, <4>2
      <4> QED
        BY <2>2, <4>3 DEF Kept
    <3> QED
      BY <1>14, <2>4, <3>1, <3>2, <3>3
  <2> QED
    BY <2>2, <2>3, <2>4 DEF HalfRead
<1>18. ASSUME page.hasMore = FALSE PROVE AllRead(a)
  <2>1. rows \subseteq page.events
    BY <1>3, <1>18
  <2>2. \A e \in Event : Visible(a, e) => Kept(a, e)
    BY <1>14, <1>15, <1>16, <2>1
  <2>3. a.base \subseteq committed
    BY <1>2, <1>3
  <2> QED
    BY <2>2, <2>3 DEF AllRead
<1>19. GoodReader(a)
  <2>1. a.at \in {"get", "query", "set"} => HalfRead(a)
    BY <1>2, <1>7, <1>17
  <2>2. a.at = "done" => AllRead(a)
    BY <1>2, <1>7, <1>18
  <2> QED
    BY <1>10, <1>12, <1>13, <2>1, <2>2 DEF GoodReader
<1> QED
  BY <1>1, <1>19

\* A reader that has received nothing is good, if it has everything to read or nothing.
LEMMA FreshIsGood ==
  ASSUME NEW s \in Request, s.got = [e \in Event |-> 0], s.lost = {}, s.cursors = {},
         s.cursor = Start, s.at = "done" => s.chunks = {}
  PROVE  GoodReader(s)
<1>1. \A e \in Event : s.got[e] = 0 /\ ~LostSegment(s, e) /\ ~Seen(s, e)
  BY DEF LostSegment, Seen
<1>2. HalfRead(s)
  BY <1>1 DEF HalfRead
<1>3. s.at = "done" => AllRead(s)
  BY DEF AllRead, Visible
<1> QED
  BY <1>1, <1>2, <1>3 DEF GoodReader

\* A reader that goes on, or takes a page, without receiving it stays good.
LEMMA WaitingIsGood ==
  ASSUME NEW s \in Request, s.at \in {"get", "query", "set"}, GoodReader(s),
         NEW a, a.at \in {"query", "set"},
         a.chunks = s.chunks, a.cursor = s.cursor, a.cursors = s.cursors, a.got = s.got,
         a.base = s.base, a.lost = s.lost
  PROVE  GoodReader(a)
<1>1. \A e \in Event : /\ Seen(a, e) <=> Seen(s, e)
                       /\ LostSegment(a, e) <=> LostSegment(s, e)
                       /\ Visible(a, e) <=> Visible(s, e)
                       /\ Kept(a, e) <=> Kept(s, e)
  BY DEF Seen, LostSegment, Visible, Kept
<1>2. HalfRead(a)
  BY <1>1 DEF GoodReader, HalfRead
<1> QED
  BY <1>1, <1>2 DEF GoodReader

\* Every outcome is a good reader.
LEMMA OutcomeIsGood ==
  ASSUME TypeOK, ReadersAreGood, NEW r \in Reader, NEW s, Outcome(r, s)
  PROVE  GoodReader(s)
<1>1. reader[r] \in Request /\ GoodReader(reader[r])
  BY DEF TypeOK, ReadersAreGood
<1>2. s \in Request
  BY OutcomeIsTyped
<1>3. CASE s \in {Refused, Failed}
  <2>1. /\ s.got = [e \in Event |-> 0] /\ s.lost = {} /\ s.cursors = {} /\ s.cursor = Start
        /\ s.at # "done"
    BY <1>3 DEF Failed, Refused, Idle
  <2> QED
    BY <1>2, <2>1, FreshIsGood
<1>4. ASSUME NEW chunks \in SUBSET Chunk,
             s = [Idle EXCEPT !.chunks = chunks, !.at = IF chunks = {} THEN "done" ELSE "get"]
      PROVE  GoodReader(s)
  <2>1. /\ s.got = [e \in Event |-> 0] /\ s.lost = {} /\ s.cursors = {} /\ s.cursor = Start
        /\ s.at = "done" => s.chunks = {}
    BY <1>4 DEF Idle
  <2> QED
    BY <1>2, <2>1, FreshIsGood
<1>5. ASSUME reader[r].at = "get", s = [reader[r] EXCEPT !.at = "query"]
      PROVE  GoodReader(s)
  <2>1. /\ s.at = "query" /\ s.chunks = reader[r].chunks /\ s.cursor = reader[r].cursor
        /\ s.cursors = reader[r].cursors /\ s.got = reader[r].got
        /\ s.base = reader[r].base /\ s.lost = reader[r].lost
    BY <1>1, <1>5 DEF Request
  <2>2. reader[r].at \in {"get", "query", "set"} /\ s.at \in {"query", "set"}
    BY <1>5, <2>1
  <2> QED
    BY ONLY <1>1, <2>1, <2>2, WaitingIsGood
<1>6. ASSUME Busy(r), NEW page \in Page, GoodPage(page, reader[r].chunks, reader[r].cursor),
             s = Answer(reader[r], page)
      PROVE  GoodReader(s)
  BY <1>1, <1>6, AnswerIsGood DEF Busy
<1>7. ASSUME Busy(r), NEW page \in Page, s = [reader[r] EXCEPT !.at = "set", !.page = page]
      PROVE  GoodReader(s)
  <2>1. /\ s.at = "set" /\ s.chunks = reader[r].chunks /\ s.cursor = reader[r].cursor
        /\ s.cursors = reader[r].cursors /\ s.got = reader[r].got
        /\ s.base = reader[r].base /\ s.lost = reader[r].lost
    BY <1>1, <1>7 DEF Request
  <2>2. reader[r].at \in {"get", "query", "set"} /\ s.at \in {"query", "set"}
    BY <1>7, <2>1 DEF Busy
  <2> QED
    BY ONLY <1>1, <2>1, <2>2, WaitingIsGood
<1> QED
  BY <1>3, <1>4, <1>5, <1>6, <1>7 DEF Outcome

\* A good reader stays good: what it has seen, and what it could see, is committed, and
\* keeps its created_at.
LEMMA GoodReaderPersists ==
  ASSUME TypeOK, Persists, NEW CONSTANT s, s \in Request, GoodReader(s)
  PROVE  GoodReader(s)'
<1>1. \A e \in Event : e[1] \in committed => e[1] \in committed' /\ At(e)' = At(e)
  BY DEF Persists, At
<1>2. \A e \in Event : Seen(s, e) => e[1] \in committed' /\ At(e)' = At(e)
  BY <1>1 DEF GoodReader
<1>3. \A e \in Event : ~Seen(s, e) => s.got[e] = 0 /\ ~LostSegment(s, e)
  BY DEF Seen, Request
<1>4. \A e \in Event : (LostSegment(s, e) <=> LostSegment(s, e)') /\ (Seen(s, e) <=> Seen(s, e)')
                       /\ (Visible(s, e) <=> Visible(s, e)')
  BY DEF LostSegment, Seen, Visible
<1>5. \A e \in Event : At(e)' = At(e) => (Kept(s, e) <=> Kept(s, e)')
  BY DEF Kept, Seen, LostSegment
<1>6. \A e \in Event : ToMs(At(e)') \notin s.cursors =>
        s.got[e] <= 1 /\ (LostSegment(s, e) => s.got[e] = 0)
  BY <1>2, <1>3 DEF GoodReader
<1>7. HalfRead(s) => HalfRead(s)'
  <2>1. CASE s.cursor = Start /\ \A e \in Event : ~Seen(s, e)
    BY <1>4, <2>1 DEF HalfRead
  <2>2. ASSUME s.cursor \in s.cursors, s.base \subseteq committed,
               \A e \in Event : Seen(s, e) => At(e) < s.cursor + Fraction,
               \A e \in Event : Visible(s, e) /\ At(e) <= s.cursor => Kept(s, e)
        PROVE  HalfRead(s)'
    <3>1. s.base \subseteq committed'
      BY <2>2 DEF Persists
    <3>2. \A e \in Event : Seen(s, e)' => At(e)' < s.cursor + Fraction
      BY <1>2, <1>4, <2>2
    <3>3. ASSUME NEW e \in Event, Visible(s, e)', At(e)' <= s.cursor PROVE Kept(s, e)'
      <4>1. Visible(s, e) /\ e[1] \in committed
        BY <1>4, <2>2, <3>3 DEF Visible
      <4>2. At(e)' = At(e)
        BY <1>1, <4>1
      <4> QED
        BY <1>5, <2>2, <3>3, <4>1, <4>2
    <3> QED
      BY <2>2, <3>1, <3>2, <3>3 DEF HalfRead
  <2> QED
    BY <2>1, <2>2 DEF HalfRead
<1>8. AllRead(s) => AllRead(s)'
  <2> SUFFICES ASSUME AllRead(s) PROVE AllRead(s)'
    OBVIOUS
  <2>1. CASE s.chunks = {}
    BY <2>1 DEF AllRead, Visible
  <2>2. CASE s.base \subseteq committed
    <3>1. s.base \subseteq committed'
      BY <2>2 DEF Persists
    <3>2. ASSUME NEW e \in Event, Visible(s, e)' PROVE Kept(s, e)'
      <4>1. Visible(s, e) /\ e[1] \in committed
        BY <1>4, <2>2, <3>2 DEF Visible
      <4> QED
        BY <1>1, <1>5, <4>1 DEF AllRead
    <3> QED
      BY <3>1, <3>2 DEF AllRead
  <2> QED
    BY <2>1, <2>2 DEF AllRead
<1>9. \A c \in s.cursors : ToMs(c) = c
  BY DEF GoodReader
<1> QED
  BY <1>2, <1>4, <1>6, <1>7, <1>8, <1>9 DEF GoodReader

\* The initial readers are good.
LEMMA ReadersInit == Init => ReadersAreGood
<1> SUFFICES ASSUME Init, NEW r \in Reader PROVE GoodReader(Idle)
  BY DEF ReadersAreGood, Init
<1>1. /\ Idle.got = [e \in Event |-> 0] /\ Idle.lost = {} /\ Idle.cursors = {}
      /\ Idle.cursor = Start /\ Idle.at # "done"
  BY DEF Idle
<1> QED
  BY <1>1, IdleIsTyped, FreshIsGood

\* A step leaves good readers.
LEMMA ReadersStep == TypeOK /\ PagesAreGood /\ ReadersAreGood /\ [Next]_vars => ReadersAreGood'
<1> SUFFICES ASSUME TypeOK, PagesAreGood, ReadersAreGood, [Next]_vars, NEW r \in Reader
             PROVE  GoodReader(reader[r])'
  BY DEF ReadersAreGood
<1>1. PICK s : s = reader'[r] /\ s \in Request /\ GoodReader(s)
  <2>1. CASE reader'[r] = reader[r]
    BY <2>1 DEF ReadersAreGood, TypeOK
  <2>2. ASSUME NEW q \in Reader, Ask(q) \/ Serve(q) \/ Fail(q)
        PROVE  \E s : s = reader'[r] /\ s \in Request /\ GoodReader(s)
    <3>1. PICK s : SetReader(q, s) /\ s \in Request /\ GoodReader(s)
      BY <2>2, StepsHaveOutcomes, OutcomeIsTyped, OutcomeIsGood
    <3>2. reader'[r] = IF r = q THEN s ELSE reader[r]
      BY <3>1 DEF SetReader, TypeOK
    <3> QED
      BY <2>1, <3>1, <3>2
  <2> QED
    BY <2>1, <2>2 DEF Next, vars, Tick, Insert, Commit
<1>2. GoodReader(s)'
  BY <1>1, NextPersists, GoodReaderPersists
<1> QED
  BY <1>1, <1>2

\* The inductive invariant.
HistoryInvariant == TypeOK /\ PagesAreGood /\ ReadersAreGood

\* It holds in every reachable state.
LEMMA InvariantHolds == Spec => []HistoryInvariant
<1>1. Init => ReadersAreGood
  BY ReadersInit
<1>2. TypeOK /\ PagesAreGood /\ ReadersAreGood /\ [Next]_vars => ReadersAreGood'
  BY ReadersStep
<1> QED
  BY <1>1, <1>2, TypesAndPages, PTL DEF Spec, HistoryInvariant

-----------------------------------------------------------------------------
(* The properties.                                                          *)

\* A reader is sent an event again only if it lies in the millisecond of its cursor, for
\* any limit and any number of concurrent inserts.
THEOREM RepeatsAreAtCursor == Spec => []RepeatsInOneMillisecond
<1>1. HistoryInvariant => RepeatsInOneMillisecond
  <2> SUFFICES ASSUME HistoryInvariant, NEW r \in Reader, NEW e \in reader[r].page.events,
                      reader[r].got[e] > 0
               PROVE  At(e) < reader[r].cursor + Fraction
    BY DEF RepeatsInOneMillisecond
  <2> DEFINE s == reader[r]
  <2>1. HeldPage(s) /\ GoodReader(s)
    BY DEF HistoryInvariant, PagesAreGood, ReadersAreGood
  <2>2. s.at = "set" /\ GoodPage(s.page, s.chunks, s.cursor)
    BY <2>1 DEF HeldPage, NoPage
  <2>3. e \in Event
    BY <2>2 DEF GoodPage, Rows
  <2>4. HalfRead(s)
    BY <2>1, <2>2 DEF GoodReader
  <2>5. Seen(s, e)
    BY DEF Seen
  <2> QED
    BY <2>3, <2>4, <2>5 DEF HalfRead
<1> QED
  BY <1>1, InvariantHolds, PTL

\* A reader who has followed the cursors to the end is without an event that all its
\* queries could see only if the event shares the millisecond of a cursor, or is the
\* segment of a stroke whose end came first.
THEOREM SkipsAreAtCursor == Spec => []SkipsOnlyAtCursor
<1>1. HistoryInvariant => SkipsOnlyAtCursor
  BY DEF HistoryInvariant, ReadersAreGood, GoodReader, SkipsOnlyAtCursor, Paged, AllRead,
         Visible, Kept, Seen, LostSegment
<1> QED
  BY <1>1, InvariantHolds, PTL

\* Of an event that shares no millisecond with a cursor, a reader at the end has exactly
\* one copy, or none if it is a segment that was lost.
LEMMA ReadOnce ==
  ASSUME HistoryInvariant, NEW r \in Reader, Paged(r), NEW e \in Event,
         Visible(reader[r], e), ToMs(At(e)) \notin reader[r].cursors
  PROVE  reader[r].got[e] = IF LostSegment(reader[r], e) THEN 0 ELSE 1
<1> DEFINE s == reader[r]
<1>1. s \in Request /\ GoodReader(s) /\ AllRead(s)
  BY DEF HistoryInvariant, TypeOK, ReadersAreGood, GoodReader, Paged
<1>2. s.got[e] \in 0..2
  BY <1>1 DEF Request
<1>3. Seen(s, e)
  <2>1. Kept(s, e)
    BY <1>1 DEF AllRead
  <2>2. At(e) \notin s.cursors
    BY <1>1 DEF GoodReader
  <2> QED
    BY <2>1, <2>2 DEF Kept
<1>4. s.got[e] <= 1 /\ (LostSegment(s, e) => s.got[e] = 0)
  BY <1>1 DEF GoodReader
<1> HIDE DEF s
<1>5. s.got[e] = IF LostSegment(s, e) THEN 0 ELSE 1
  BY <1>2, <1>3, <1>4 DEF Seen
<1> QED
  BY <1>5 DEF s

\* A stroke outside the milliseconds of the cursors is rebuilt with one copy of its path,
\* unless that was lost, and with every stain outside them applied once.
THEOREM CanvasIsRebuilt == Spec => []RebuiltAsDrawn
<1>1. HistoryInvariant => RebuiltAsDrawn
  <2> SUFFICES ASSUME HistoryInvariant, NEW r \in Reader, Paged(r)
               PROVE  LET s == reader[r]
                          canvas == Reconstruct(s.got)
                          whole(b) == b \in s.base /\ ChunkOf[b] \in s.chunks
                                        /\ ToMs(created[b]) \notin s.cursors
                      IN  \A b \in Stroke : whole(b) =>
                            /\ b \in DOMAIN canvas
                            /\ canvas[b].points = IF b \in s.lost THEN 0 ELSE 1
                            /\ \A t \in Stain : whole(t) /\ b \in Target[t] => canvas[b].blurs[t] = 1
    BY DEF RebuiltAsDrawn
  <2> DEFINE s == reader[r]
             canvas == Reconstruct(s.got)
             whole(b) == b \in s.base /\ ChunkOf[b] \in s.chunks /\ ToMs(created[b]) \notin s.cursors
  <2>1. ASSUME NEW b \in Batch, whole(b), NEW k, <<b, k>> \in Event
        PROVE  s.got[<<b, k>>] = IF k = "segment" /\ b \in s.lost THEN 0 ELSE 1
    <3>1. Visible(s, <<b, k>>) /\ ToMs(At(<<b, k>>)) \notin s.cursors
      BY <2>1 DEF Visible, At
    <3>2. LostSegment(s, <<b, k>>) <=> k = "segment" /\ b \in s.lost
      BY DEF LostSegment
    <3>3. s.got[<<b, k>>] = IF LostSegment(s, <<b, k>>) THEN 0 ELSE 1
      BY <2>1, <3>1, ReadOnce
    <3> QED
      BY <3>2, <3>3
  <2> SUFFICES ASSUME NEW b \in Stroke, whole(b)
               PROVE  /\ b \in DOMAIN canvas
                      /\ canvas[b].points = IF b \in s.lost THEN 0 ELSE 1
                      /\ \A t \in Stain : whole(t) /\ b \in Target[t] => canvas[b].blurs[t] = 1
    OBVIOUS
  <2>2. b \in Batch /\ <<b, "begin">> \in Event /\ <<b, "segment">> \in Event
    BY EventParts DEF Batch
  <2>3. s.got[<<b, "begin">>] = 1 /\ s.got[<<b, "segment">>] = IF b \in s.lost THEN 0 ELSE 1
    BY <2>1, <2>2
  <2>4. b \in DOMAIN canvas /\ canvas[b] = Rebuilt(s.got, b)
    BY <2>3 DEF Reconstruct
  <2>5. canvas[b].points = s.got[<<b, "segment">>] /\ canvas[b].blurs = Blurs(s.got, b)
    BY <2>4 DEF Rebuilt
  <2>6. ASSUME NEW t \in Stain, whole(t), b \in Target[t]
        PROVE  canvas[b].blurs[t] = 1
    <3>1. s.got[<<t, "stain">>] = 1
      BY <2>1, <2>6, EventParts DEF Batch
    <3> QED
      BY <2>5, <2>6, <3>1 DEF Blurs
  <2> QED
    BY <2>3, <2>4, <2>5, <2>6
<1> QED
  BY <1>1, InvariantHolds, PTL

\* A reader who is given another page is given a later cursor, or a whole page of events
\* shares the millisecond of the cursor it sent.
THEOREM CursorsAdvance == Spec => CursorAdvances
<1>1. ASSUME HistoryInvariant, [Next]_vars, NEW r \in Reader PROVE Advance(r)
  <2> SUFFICES ASSUME Busy(r), reader'[r] # reader[r], reader'[r].at = "get"
               PROVE  \/ reader'[r].cursor > reader[r].cursor
                      \/ Cardinality({e \in Matching(reader[r].chunks, reader[r].cursor) :
                                        At(e) < reader[r].cursor + Fraction}) >= Limit
    BY DEF Advance
  <2>1. TypeOK /\ PagesAreGood /\ reader[r] \in Request /\ GoodReader(reader[r])
    BY <1>1 DEF HistoryInvariant, TypeOK, ReadersAreGood
  <2>2. Outcome(r, reader'[r])
    <3>1. ASSUME NEW q \in Reader, Ask(q) \/ Serve(q) \/ Fail(q)
          PROVE  Outcome(r, reader'[r])
      <4>1. PICK s : SetReader(q, s) /\ Outcome(q, s)
        BY <2>1, <3>1, StepsHaveOutcomes
      <4>2. reader'[r] = IF r = q THEN s ELSE reader[r]
        BY <2>1, <4>1 DEF SetReader, TypeOK
      <4> QED
        BY <4>1, <4>2
    <3> QED
      BY <1>1, <3>1 DEF Next, vars, Tick, Insert, Commit
  <2>3. PICK page \in Page : /\ GoodPage(page, reader[r].chunks, reader[r].cursor)
                             /\ reader'[r] = Answer(reader[r], page)
    <3>1. reader'[r] \notin {Refused, Failed}
      BY DEF Refused, Failed, Idle
    <3>2. reader[r].at # "idle"
      BY DEF Busy
    <3>3. ASSUME NEW at \in {"query", "set"}, NEW page,
                 \/ reader'[r] = [reader[r] EXCEPT !.at = at]
                 \/ reader'[r] = [reader[r] EXCEPT !.at = at, !.page = page]
          PROVE  FALSE
      <4>1. reader'[r].at = at
        BY <2>1, <3>3 DEF Request
      <4> QED
        BY <4>1
    <3> QED
      BY <2>2, <3>1, <3>2, <3>3 DEF Outcome
  <2>4. page.hasMore = TRUE /\ reader'[r].cursor = page.cursor
    BY <2>1, <2>3 DEF Answer, Request, Page
  <2>5. reader[r].cursor \in Cursor
    BY <2>1 DEF Request
  <2>6. /\ page.cursor \in Nat /\ \A e \in page.events : At(e) < page.cursor + Fraction
        /\ reader[r].cursor = Start => reader[r].cursor < page.cursor
        /\ reader[r].cursor # Start /\ ToMs(reader[r].cursor) = reader[r].cursor =>
             reader[r].cursor <= page.cursor
    BY <2>1, <2>3, <2>4, <2>5, NextCursorIsWhole
  <2>7. CASE reader[r].cursor = Start
    BY <2>4, <2>6, <2>7 DEF Start
  <2>8. CASE reader[r].cursor # Start
    <3>1. HalfRead(reader[r])
      BY <2>1 DEF GoodReader, Busy
    <3>2. ToMs(reader[r].cursor) = reader[r].cursor
      BY <2>1, <2>8, <3>1 DEF GoodReader, HalfRead
    <3>3. reader[r].cursor <= page.cursor
      BY <2>6, <2>8, <3>2
    <3>4. CASE reader[r].cursor = page.cursor
      <4> DEFINE here == {e \in Matching(reader[r].chunks, reader[r].cursor) :
                            At(e) < reader[r].cursor + Fraction}
      <4>1. page.events \subseteq here
        BY <2>3, <2>6, <3>4 DEF GoodPage, Rows, Matching
      <4>2. here \subseteq Event
        BY DEF Matching
      <4> HIDE DEF here
      <4>3. IsFiniteSet(here)
        BY <4>2, EventsAreFinite, FS_Subset
      <4>4. Cardinality(page.events) <= Cardinality(here) /\ Cardinality(here) \in Nat
        BY <4>1, <4>3, FS_Subset, FS_CardinalityType
      <4>5. Cardinality(page.events) = Limit
        BY <2>3, <2>4 DEF GoodPage
      <4>6. Cardinality(here) >= Limit
        BY <4>4, <4>5, HistoryAssumption
      <4> QED
        BY <4>6 DEF here
    <3>5. CASE reader[r].cursor # page.cursor
      <4>1. reader[r].cursor \in Nat
        BY <2>5, <2>8, HistoryAssumption DEF Cursor, Time
      <4> QED
        BY <2>4, <2>6, <3>3, <3>5, <4>1
    <3> QED
      BY <3>4, <3>5
  <2> QED
    BY <2>7, <2>8
<1>2. HistoryInvariant /\ [Next]_vars => [\A r \in Reader : Advance(r)]_vars
  BY <1>1
<1> QED
  BY <1>2, InvariantHolds, PTL DEF Spec, CursorAdvances

=================================================================================
