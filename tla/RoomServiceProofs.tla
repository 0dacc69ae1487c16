--------------------------- MODULE RoomServiceProofs ---------------------------
(***************************************************************************)
(* RoomService for every number of requests, codes, capacities, colors and *)
(* clients of the pool: its types, the capacity of its rooms, the colors   *)
(* of their users, the atomicity of its transactions, that it implements   *)
(* RoomSeats, and that nobody waits in a circle.                           *)
(***************************************************************************)
EXTENDS RoomService, FiniteSetTheorems, FunctionTheorems, TLAPS

-----------------------------------------------------------------------------
(* The choice of a color.                                                  *)

\* Every index below the size of a finite set of numbers is the rank of one of them.
LEMMA Ranks ==
  ASSUME NEW S \in SUBSET Nat, IsFiniteSet(S), NEW k \in Nat, k < Cardinality(S)
  PROVE  \E c \in S : Cardinality({d \in S : d < c}) = k
<1> DEFINE Below(c) == {d \in S : d < c}
           n == Cardinality(S)
           rank == [c \in S |-> Cardinality(Below(c))]
<1>1. n \in Nat
  BY FS_CardinalityType
<1>2. ASSUME NEW c \in S
      PROVE  IsFiniteSet(Below(c)) /\ rank[c] \in 0..(n - 1)
  <2>1. IsFiniteSet(S \ {c}) /\ Cardinality(S \ {c}) = n - 1
    BY FS_RemoveElement
  <2>2. Below(c) \in SUBSET (S \ {c})
    OBVIOUS
  <2>3. IsFiniteSet(Below(c)) /\ Cardinality(Below(c)) <= n - 1
    BY <2>1, <2>2, FS_Subset
  <2>4. Cardinality(Below(c)) \in Nat
    BY <2>3, FS_CardinalityType
  <2> QED
    BY <1>1, <2>3, <2>4
<1>3. ASSUME NEW c \in S, NEW e \in S, c < e
      PROVE  rank[c] < rank[e]
  <2>1. IsFiniteSet(Below(c) \cup {c}) /\ Cardinality(Below(c) \cup {c}) = rank[c] + 1
    <3>1. c \notin Below(c)
      OBVIOUS
    <3> QED
      BY <1>2, <3>1, FS_AddElement
  <2>2. Below(c) \cup {c} \in SUBSET Below(e)
    <3>1. ASSUME NEW d \in Below(c) \cup {c}
          PROVE  d \in S /\ d < e
      <4>1. d \in Nat /\ c \in Nat /\ e \in Nat /\ (d = c \/ d < c)
        OBVIOUS
      <4> QED
        BY <4>1, <1>3
    <3> QED
      BY <3>1
  <2>3. Cardinality(Below(c) \cup {c}) <= rank[e]
    BY <1>2, <2>2, FS_Subset
  <2>4. rank[c] \in Nat /\ rank[e] \in Nat
    BY <1>2
  <2> QED
    BY <2>1, <2>3, <2>4
<1>4. rank \in Injection(S, 0..(n - 1))
  <2>1. rank \in [S -> 0..(n - 1)]
    BY <1>2
  <2>2. ASSUME NEW c \in S, NEW e \in S, rank[c] = rank[e]
        PROVE  c = e
    <3>1. rank[c] \in Nat /\ rank[e] \in Nat
      BY <1>2
    <3>2. ~(c < e) /\ ~(e < c)
      BY <1>3, <2>2, <3>1
    <3> QED
      BY <3>2
  <2> HIDE DEF rank
  <2> QED
    BY <2>1, <2>2, Fun_IsInj
<1>5. IsFiniteSet(0..(n - 1)) /\ Cardinality(0..(n - 1)) = n
  <2> HIDE DEF n
  <2>1. 0 \in Int /\ n - 1 \in Int
    BY <1>1
  <2>2. /\ IsFiniteSet(0..(n - 1))
        /\ Cardinality(0..(n - 1)) = IF 0 > n - 1 THEN 0 ELSE (n - 1) - 0 + 1
    BY <2>1, FS_Interval
  <2> QED
    BY <1>1, <2>2
<1>6. rank \in Surjection(S, 0..(n - 1))
  <2> HIDE DEF rank
  <2> QED
    BY <1>4, <1>5, FS_Injection
<1>7. k \in 0..(n - 1)
  BY <1>1
<1>8. PICK c \in S : rank[c] = k
  <2> HIDE DEF rank, n
  <2>1. \A j \in 0..(n - 1) : \E c \in S : rank[c] = j
    BY <1>6 DEF Surjection
  <2> QED
    BY <1>7, <2>1
<1> QED
  BY <1>8

Worn(c) == {u.color : u \in In(c)}

\* assignUserColor returns a color, and one that nobody in the room wears unless
\* all are taken.
LEMMA ColorForIsFree ==
  ASSUME NEW seed \in Nat, NEW existing, IsFiniteSet(existing)
  PROVE  LET worn == {u.color : u \in existing} IN
         /\ ColorFor(seed, existing) \in Color
         /\ Color \ worn # {} => ColorFor(seed, existing) \notin worn
<1> DEFINE worn == {u.color : u \in existing}
           free == Color \ worn
           choices == IF free # {} THEN free ELSE Color
           size == Cardinality(choices)
           index == (seed + Cardinality(existing)) % size
<1>1. IsFiniteSet(Color) /\ Color # {} /\ Color \in SUBSET Nat
  <2>1. NumColors \in Nat /\ 1 \in 1..NumColors
    BY RoomAssumption
  <2>2. IsFiniteSet(1..NumColors)
    BY <2>1, FS_Interval
  <2> QED
    BY <2>1, <2>2 DEF Color
<1>2. choices \in SUBSET Color /\ choices # {}
  BY <1>1
<1>3. IsFiniteSet(choices) /\ size \in Nat /\ size # 0
  BY <1>1, <1>2, FS_Subset, FS_CardinalityType, FS_EmptySet
<1>4. Cardinality(existing) \in Nat
  BY FS_CardinalityType
<1>5. index \in Nat /\ index < size
  BY <1>3, <1>4
<1>6. \E c \in choices : Cardinality({d \in choices : d < c}) = index
  <2>1. choices \in SUBSET Nat
    BY <1>1, <1>2
  <2> HIDE DEF choices, index
  <2> QED
    BY <1>3, <1>5, <2>1, Ranks
<1>7. ColorFor(seed, existing) \in choices
  <2>1. ColorFor(seed, existing)
          = CHOOSE c \in choices : Cardinality({d \in choices : d < c}) = index
    BY DEF ColorFor
  <2> HIDE DEF choices, index
  <2> QED
    BY <1>6, <2>1
<1> QED
  BY <1>2, <1>7

-----------------------------------------------------------------------------
(* The inductive invariant.                                                *)

HasSeat(c) == Cardinality(In(c)) < rooms[c].capacity
Fresh(color, c) == color \notin Worn(c) \/ Worn(c) = Color
Seated(r) == \E u \in users : u.who = r

\* What a transaction knows while it holds the row of its room: a join has found
\* the room and then a free seat and a free color, a create has found the code free.
Locked(r) ==
  LET h == req[r] IN
  /\ holder[h.code] = r
  /\ Exists(h.code) <=> h.kind = "join"
  /\ h.pc \in {"list", "insertUser", "commit"} /\ h.kind = "join" => HasSeat(h.code)
  /\ h.pc \in {"insertUser", "commit"} =>
       IF h.kind = "join" THEN Fresh(h.color, h.code) ELSE h.seed \in Seed

Position(r) ==
  LET h == req[r] IN
  /\ h.kind = "create" => h.capacity \in Capacity
  /\ h.pc \in {"find", "count", "list"} => h.kind = "join"
  /\ h.pc = "insertRoom" => h.kind = "create"
  /\ h.pc \in {"count", "list", "insertUser", "commit"} => Locked(r)
  /\ h.pc = "rollback" /\ h.next = "retry" => h.kind = "create" /\ h.attempts < MaxAttempts
  /\ Seated(r) <=> h.pc \in {"ok", "lostReply"}

Sound(c) ==
  /\ Exists(c) <=> In(c) # {}
  /\ Cardinality(In(c)) <= rooms[c].capacity
  /\ Cardinality(In(c)) <= NumColors => Cardinality(Worn(c)) = Cardinality(In(c))

Invariant ==
  /\ TypeOK
  /\ IsFiniteSet(users)
  /\ \A c \in Code : Sound(c)
  /\ \A r \in Request : Position(r)

\* The users of a room are finitely many.
LEMMA InFinite ==
  ASSUME IsFiniteSet(users), NEW c
  PROVE  IsFiniteSet(In(c)) /\ Cardinality(In(c)) \in Nat
BY FS_Subset, FS_CardinalityType DEF In

\* The columns of a row of rooms.
LEMMA RowType ==
  ASSUME TypeOK, NEW c \in Code
  PROVE  rooms[c].capacity \in Nat /\ rooms[c].seed \in Nat
<1>1. rooms[c].capacity \in Capacity \cup {0} /\ rooms[c].seed \in Seed \cup {0}
  BY DEF TypeOK
<1>2. Capacity \cup {0} \subseteq Nat /\ Seed \cup {0} \subseteq Nat
  BY RoomAssumption
<1> QED
  BY <1>1, <1>2

\* A step of one request that commits nothing keeps the invariant when it leaves
\* the locks of the others alone and its own request well placed.
LEMMA QuietStep ==
  ASSUME Invariant, NEW r \in Request,
         req' \in [Request -> Handler],
         \A q \in Request : q # r => req'[q] = req[q],
         UNCHANGED <<rooms, users>>,
         holder' \in [Code -> Request \cup {Nobody}],
         \A c \in Code : holder[c] \in {Nobody, r} \/ holder'[c] = holder[c],
         pooled' \subseteq Request, Cardinality(pooled') <= PoolSize,
         faults' \in 0..MaxFaults,
         Position(r)'
  PROVE  Invariant'
<1>1. TypeOK'
  BY DEF Invariant, TypeOK
<1>2. IsFiniteSet(users)'
  BY DEF Invariant
<1>3. ASSUME NEW c \in Code PROVE Sound(c)'
  BY DEF Invariant, Sound, Exists, In, Worn
<1>4. ASSUME NEW q \in Request, q # r PROVE Position(q)'
  <2>1. req'[q] = req[q] /\ Position(q) /\ req[q].code \in Code /\ q # Nobody
    BY <1>4, RoomAssumption DEF Invariant, TypeOK, Handler
  <2>2. Seated(q)' <=> Seated(q)
    BY DEF Seated
  <2>3. Locked(q) => Locked(q)'
    BY <1>4, <2>1 DEF Locked, Exists, HasSeat, Fresh, Worn, In
  <2> QED
    BY <2>1, <2>2, <2>3 DEF Position
<1> QED
  BY <1>1, <1>2, <1>3, <1>4 DEF Invariant

\* Before the first request there are no rows, locks or clients taken.
LEMMA InvariantInit == Init => Invariant
<1> SUFFICES ASSUME Init PROVE Invariant
  OBVIOUS
<1> USE RoomAssumption
<1>1. IsFiniteSet(users) /\ users = {}
  BY FS_EmptySet DEF Init
<1>2. TypeOK
  <2>1. 1 \in Color
    BY DEF Color
  <2>2. (CHOOSE c \in Code : TRUE) \in Code
    OBVIOUS
  <2>3. Cardinality(pooled) <= PoolSize
    BY FS_EmptySet DEF Init
  <2> QED
    BY <2>1, <2>2, <2>3 DEF Init, TypeOK, Handler, NoRoom
<1>3. ASSUME NEW c \in Code PROVE Sound(c)
  <2>1. In(c) = {} /\ Worn(c) = {}
    BY <1>1 DEF In, Worn
  <2>2. ~Exists(c) /\ rooms[c].capacity = 0
    BY DEF Init, Exists, NoRoom
  <2> QED
    BY <2>1, <2>2, FS_EmptySet DEF Sound
<1>4. ASSUME NEW r \in Request PROVE Position(r)
  BY <1>1 DEF Init, Position, Seated
<1> QED
  BY <1>1, <1>2, <1>3, <1>4 DEF Invariant

-----------------------------------------------------------------------------
(* The steps that commit nothing.                                          *)

\* A step that sets one request's handler.
LEMMA SetsHandler ==
  ASSUME req \in [Request -> Handler], NEW r \in Request, NEW h \in Handler,
         req' = [req EXCEPT ![r] = h]
  PROVE  /\ req' \in [Request -> Handler]
         /\ \A q \in Request : q # r => req'[q] = req[q]
         /\ req'[r] = h
OBVIOUS

\* A request that arrives touches nothing but its own handler.
LEMMA ArriveKeeps ==
  ASSUME Invariant, NEW r \in Request, Arrive(r)
  PROVE  Invariant'
<1> USE RoomAssumption
<1>1. CASE CreateRoom(r)
  <2>1. PICK n \in Capacity, c \in Code :
          /\ req[r].pc = "new"
          /\ Reads(r, [req[r] EXCEPT !.pc = "connect", !.kind = "create", !.code = c,
                                     !.capacity = n, !.attempts = 1])
    BY <1>1 DEF CreateRoom
  <2> DEFINE h == [req[r] EXCEPT !.pc = "connect", !.kind = "create", !.code = c,
                                 !.capacity = n, !.attempts = 1]
  <2>2. h \in Handler /\ h.pc = "connect" /\ h.capacity \in Capacity
    <3>1. req[r] \in Handler /\ 1 \in 0..MaxAttempts /\ n \in Capacity \cup {0}
      BY DEF Invariant, TypeOK
    <3> QED
      BY <3>1 DEF Handler
  <2>3. req' = [req EXCEPT ![r] = h] /\ req \in [Request -> Handler]
    BY <2>1 DEF Invariant, TypeOK, Reads
  <2>4. /\ req' \in [Request -> Handler]
        /\ \A q \in Request : q # r => req'[q] = req[q]
        /\ req'[r].pc = "connect" /\ req'[r].capacity \in Capacity
    <3> HIDE DEF h
    <3> QED
      BY <2>2, <2>3, SetsHandler
  <2>5. Position(r)'
    BY <2>1, <2>4 DEF Invariant, Position, Seated, Reads
  <2> QED
    BY <2>1, <2>4, <2>5, QuietStep DEF Invariant, TypeOK, Reads
<1>2. CASE JoinRoom(r)
  <2>1. PICK c \in Code :
          /\ req[r].pc = "new"
          /\ Reads(r, [req[r] EXCEPT !.pc = "connect", !.kind = "join", !.code = c])
    BY <1>2 DEF JoinRoom
  <2> DEFINE h == [req[r] EXCEPT !.pc = "connect", !.kind = "join", !.code = c]
  <2>2. h \in Handler /\ h.pc = "connect" /\ h.kind = "join"
    BY DEF Invariant, TypeOK, Handler
  <2>3. req' = [req EXCEPT ![r] = h] /\ req \in [Request -> Handler]
    BY <2>1 DEF Invariant, TypeOK, Reads
  <2>4. /\ req' \in [Request -> Handler]
        /\ \A q \in Request : q # r => req'[q] = req[q]
        /\ req'[r].pc = "connect" /\ req'[r].kind = "join"
    <3> HIDE DEF h
    <3> QED
      BY <2>2, <2>3, SetsHandler
  <2>5. Position(r)'
    BY <2>1, <2>4 DEF Invariant, Position, Seated, Reads
  <2> QED
    BY <2>1, <2>4, <2>5, QuietStep DEF Invariant, TypeOK, Reads
<1> QED
  BY <1>1, <1>2 DEF Arrive

\* A client is taken only from a pool that has one left.
LEMMA ConnectKeeps ==
  ASSUME Invariant, NEW r \in Request, Connect(r)
  PROVE  Invariant'
<1> USE RoomAssumption
<1> DEFINE h == [req[r] EXCEPT !.pc = IF req[r].kind = "join" THEN "find" ELSE "insertRoom"]
<1>1. /\ h \in Handler
      /\ h.kind = req[r].kind /\ h.capacity = req[r].capacity
      /\ h.kind \in {"create", "join"}
      /\ h.pc = IF h.kind = "join" THEN "find" ELSE "insertRoom"
  BY DEF Invariant, TypeOK, Handler, Queries
<1>2. req' = [req EXCEPT ![r] = h] /\ req \in [Request -> Handler] /\ req[r].pc = "connect"
  BY DEF Connect, Invariant, TypeOK
<1> HIDE DEF h
<1>3. /\ req' \in [Request -> Handler]
      /\ \A q \in Request : q # r => req'[q] = req[q]
      /\ req'[r] = h
  BY <1>1, <1>2, SetsHandler
<1>4. Position(r)'
  BY <1>1, <1>2, <1>3 DEF Connect, Invariant, Position, Seated
<1>5. pooled' \subseteq Request /\ Cardinality(pooled') <= PoolSize
  <2>1. IsFiniteSet(pooled) /\ Cardinality(pooled) \in Nat
    BY FS_Subset, FS_CardinalityType DEF Invariant, TypeOK
  <2>2. Cardinality(pooled \cup {r})
          = IF r \in pooled THEN Cardinality(pooled) ELSE Cardinality(pooled) + 1
    BY <2>1, FS_AddElement
  <2> QED
    BY <2>1, <2>2 DEF Connect, Invariant, TypeOK
<1> QED
  BY <1>3, <1>4, <1>5, QuietStep DEF Connect, Invariant, TypeOK

\* FOR UPDATE locks a row that exists and that nobody else has locked.
LEMMA FindRoomKeeps ==
  ASSUME Invariant, NEW r \in Request, FindRoom(r)
  PROVE  Invariant'
<1> USE RoomAssumption
<1> DEFINE c == req[r].code
           gone == [req[r] EXCEPT !.pc = "rollback", !.next = "missing"]
           found == [req[r] EXCEPT !.pc = "count"]
<1>1. /\ req \in [Request -> Handler] /\ req[r] \in Handler /\ req[r].pc = "find"
      /\ req[r].kind = "join" /\ c \in Code
  BY DEF Invariant, TypeOK, Position, FindRoom, Handler
<1>2. gone \in Handler /\ gone.pc = "rollback" /\ gone.next = "missing" /\ gone.kind = "join"
  BY <1>1 DEF Handler, Queries
<1>3. found \in Handler /\ found.pc = "count" /\ found.kind = "join" /\ found.code = c
  BY <1>1 DEF Handler, Queries
<1>4. CASE ~Exists(c)
  <2>1. req' = [req EXCEPT ![r] = gone] /\ holder' = holder
    BY <1>1, <1>4 DEF FindRoom, RollbackTo
  <2> HIDE DEF gone, c
  <2>2. /\ req' \in [Request -> Handler] /\ req'[r] = gone
        /\ \A q \in Request : q # r => req'[q] = req[q]
    BY <1>1, <1>2, <2>1, SetsHandler
  <2>3. Position(r)'
    BY <1>1, <1>2, <2>2 DEF FindRoom, Invariant, Position, Seated
  <2> QED
    BY <2>1, <2>2, <2>3, QuietStep DEF FindRoom, Invariant, TypeOK
<1>5. CASE Exists(c)
  <2>1. req' = [req EXCEPT ![r] = found] /\ holder' = [holder EXCEPT ![c] = r] /\ holder[c] = Nobody
    BY <1>1, <1>5 DEF FindRoom
  <2> HIDE DEF found, c
  <2>2. /\ req' \in [Request -> Handler] /\ req'[r] = found
        /\ \A q \in Request : q # r => req'[q] = req[q]
    BY <1>1, <1>3, <2>1, SetsHandler
  <2>3. /\ holder' \in [Code -> Request \cup {Nobody}] /\ holder'[c] = r
        /\ \A d \in Code : holder[d] \in {Nobody, r} \/ holder'[d] = holder[d]
    BY <1>1, <2>1 DEF Invariant, TypeOK
  <2>4. Position(r)'
    BY <1>1, <1>3, <1>5, <2>2, <2>3
    DEF FindRoom, Invariant, Position, Seated, Locked, Exists
  <2> QED
    BY <2>2, <2>3, <2>4, QuietStep DEF FindRoom, Invariant, TypeOK
<1> QED
  BY <1>4, <1>5

\* The count finds no seat, or one that stays free as long as the row is locked.
LEMMA CountUsersKeeps ==
  ASSUME Invariant, NEW r \in Request, CountUsers(r)
  PROVE  Invariant'
<1> USE RoomAssumption
<1> DEFINE c == req[r].code
           n == Cardinality(In(c))
           full == [req[r] EXCEPT !.pc = "rollback", !.next = "full"]
           free == [req[r] EXCEPT !.pc = "list", !.count = n]
<1>1. /\ req \in [Request -> Handler] /\ req[r] \in Handler /\ req[r].pc = "count"
      /\ req[r].kind = "join" /\ c \in Code /\ n \in Nat
  BY InFinite DEF Invariant, TypeOK, Position, CountUsers, Handler
<1>2. full \in Handler /\ full.pc = "rollback" /\ full.next = "full" /\ full.kind = "join"
  BY <1>1 DEF Handler, Queries
<1>3. free \in Handler /\ free.pc = "list" /\ free.kind = "join" /\ free.code = c
  BY <1>1 DEF Handler, Queries
<1>4. CASE n >= rooms[c].capacity
  <2>1. req' = [req EXCEPT ![r] = full]
    BY <1>1, <1>4 DEF CountUsers, Reads
  <2> HIDE DEF full, n, c
  <2>2. /\ req' \in [Request -> Handler] /\ req'[r] = full
        /\ \A q \in Request : q # r => req'[q] = req[q]
    BY <1>1, <1>2, <2>1, SetsHandler
  <2>3. Position(r)'
    BY <1>1, <1>2, <2>2 DEF CountUsers, Reads, Invariant, Position, Seated
  <2> QED
    BY <2>2, <2>3, QuietStep DEF CountUsers, Reads, Invariant, TypeOK
<1>5. CASE ~(n >= rooms[c].capacity)
  <2>1. req' = [req EXCEPT ![r] = free]
    BY <1>1, <1>5 DEF CountUsers, Reads
  <2>2. rooms[c].capacity \in Nat
    BY <1>1, RowType DEF Invariant
  <2>3. HasSeat(c)
    BY <1>1, <1>5, <2>2 DEF HasSeat
  <2> HIDE DEF free, n, c
  <2>4. /\ req' \in [Request -> Handler] /\ req'[r] = free
        /\ \A q \in Request : q # r => req'[q] = req[q]
    BY <1>1, <1>3, <2>1, SetsHandler
  <2>5. Locked(r) /\ req[r].code = c
    BY <1>1 DEF Invariant, Position, c
  <2>6. Locked(r)'
    BY <1>1, <1>3, <2>3, <2>4, <2>5
    DEF CountUsers, Reads, Locked, HasSeat, In, Exists
  <2>7. Position(r)'
    BY <1>1, <1>3, <2>4, <2>6 DEF CountUsers, Reads, Invariant, Position, Seated
  <2> QED
    BY <2>4, <2>7, QuietStep DEF CountUsers, Reads, Invariant, TypeOK
<1> QED
  BY <1>4, <1>5

\* The color chosen from the list of users is free, and the seat still is.
LEMMA ListUsersKeeps ==
  ASSUME Invariant, NEW r \in Request, ListUsers(r)
  PROVE  Invariant'
<1> USE RoomAssumption
<1> DEFINE c == req[r].code
           color == ColorFor(rooms[c].seed, In(c))
           h == [req[r] EXCEPT !.pc = "insertUser", !.color = color]
<1>1. /\ req \in [Request -> Handler] /\ req[r] \in Handler /\ req[r].pc = "list"
      /\ req[r].kind = "join" /\ c \in Code /\ IsFiniteSet(In(c))
  BY InFinite DEF Invariant, TypeOK, Position, ListUsers, Handler
<1>2. color \in Color /\ Fresh(color, c)
  <2>1. rooms[c].seed \in Nat
    BY <1>1, RowType DEF Invariant
  <2>2. Worn(c) \subseteq Color
    BY DEF Invariant, TypeOK, Worn, In, User
  <2>3. color \in Color /\ (Color \ Worn(c) # {} => color \notin Worn(c))
    BY <1>1, <2>1, ColorForIsFree DEF Worn
  <2> QED
    BY <2>2, <2>3 DEF Fresh
<1> HIDE DEF color
<1>3. h \in Handler /\ h.pc = "insertUser" /\ h.kind = "join" /\ h.code = c /\ h.color = color
  BY <1>1, <1>2 DEF Handler, Queries
<1>4. req' = [req EXCEPT ![r] = h]
  BY DEF ListUsers, Reads, color
<1>5. Locked(r) /\ HasSeat(c) /\ Exists(c)
  BY <1>1 DEF Invariant, Position, Locked
<1>6. holder[c] = r
  BY <1>1 DEF Invariant, Position, Locked
<1> HIDE DEF h, c
<1>7. /\ req' \in [Request -> Handler] /\ req'[r] = h
      /\ \A q \in Request : q # r => req'[q] = req[q]
  BY <1>1, <1>3, <1>4, SetsHandler
<1>8. Locked(r)'
  <2>1. users' = users /\ rooms' = rooms /\ holder'[c] = r /\ rooms'[c] # NoRoom
    BY <1>5, <1>6 DEF ListUsers, Reads, Exists
  <2>2. Cardinality({u \in users' : u.room = c}) < rooms'[c].capacity
    BY <1>5, <2>1 DEF HasSeat, In
  <2>3. \/ color \notin {u.color : u \in {v \in users' : v.room = c}}
        \/ {u.color : u \in {v \in users' : v.room = c}} = Color
    BY <1>2, <2>1 DEF Fresh, Worn, In
  <2>4. Exists(req[r].code)' /\ HasSeat(req[r].code)' /\ Fresh(req[r].color, req[r].code)'
    BY <1>3, <1>7, <2>1, <2>2, <2>3 DEF Exists, HasSeat, Fresh, Worn, In
  <2> QED
    BY <1>3, <1>7, <2>1, <2>4 DEF Locked
<1>9. Position(r)'
  BY <1>1, <1>3, <1>7, <1>8 DEF ListUsers, Reads, Invariant, Position, Seated
<1> QED
  BY <1>7, <1>9, QuietStep DEF ListUsers, Reads, Invariant, TypeOK

\* An INSERT of a free code locks the code; a collision is retried within bounds.
LEMMA InsertRoomKeeps ==
  ASSUME Invariant, NEW r \in Request, InsertRoom(r)
  PROVE  Invariant'
<1> USE RoomAssumption
<1> DEFINE c == req[r].code
           next == IF req[r].attempts = MaxAttempts THEN "failed" ELSE "retry"
           back == [req[r] EXCEPT !.pc = "rollback", !.next = next]
           made(s) == [req[r] EXCEPT !.pc = "insertUser", !.seed = s, !.color = ColorFor(s, {})]
<1>1. /\ req \in [Request -> Handler] /\ req[r] \in Handler /\ req[r].pc = "insertRoom"
      /\ req[r].kind = "create" /\ req[r].capacity \in Capacity /\ c \in Code
  BY DEF Invariant, TypeOK, Position, InsertRoom, Handler
<1>2. CASE Exists(c)
  <2>1. req' = [req EXCEPT ![r] = back] /\ holder' = holder
    BY <1>1, <1>2 DEF InsertRoom, RollbackTo
  <2>2. req[r].attempts \in 0..MaxAttempts
    BY <1>1 DEF Handler
  <2>3. /\ back \in Handler /\ back.pc = "rollback" /\ back.kind = "create"
        /\ back.capacity \in Capacity
        /\ back.next = "retry" => back.attempts < MaxAttempts
    <3>1. next \in {"failed", "retry"} /\ (next = "retry" => req[r].attempts < MaxAttempts)
      BY <2>2
    <3> HIDE DEF next
    <3> QED
      BY <1>1, <3>1 DEF Handler, Queries
  <2> HIDE DEF back, c
  <2>4. /\ req' \in [Request -> Handler] /\ req'[r] = back
        /\ \A q \in Request : q # r => req'[q] = req[q]
    BY <1>1, <2>1, <2>3, SetsHandler
  <2>5. Position(r)'
    BY <1>1, <2>3, <2>4 DEF InsertRoom, Invariant, Position, Seated
  <2> QED
    BY <2>1, <2>4, <2>5, QuietStep DEF InsertRoom, Invariant, TypeOK
<1>3. CASE ~Exists(c)
  <2>1. holder' = [holder EXCEPT ![c] = r] /\ holder[c] = Nobody
    BY <1>1, <1>3 DEF InsertRoom
  <2>2. PICK s \in Seed : req' = [req EXCEPT ![r] = made(s)]
    BY <1>1, <1>3 DEF InsertRoom
  <2>3. ColorFor(s, {}) \in Color
    <3>1. s \in Nat /\ IsFiniteSet({})
      BY FS_EmptySet
    <3> QED
      BY <3>1, ColorForIsFree
  <2> DEFINE h == made(s)
  <2>4. /\ h \in Handler /\ h.pc = "insertUser" /\ h.kind = "create"
        /\ h.code = c /\ h.seed = s /\ h.capacity \in Capacity
    BY <1>1, <2>3 DEF Handler, Queries
  <2>5. req' = [req EXCEPT ![r] = h]
    BY <2>2
  <2> HIDE DEF h, c, made
  <2>6. /\ req' \in [Request -> Handler] /\ req'[r] = h
        /\ \A q \in Request : q # r => req'[q] = req[q]
    BY <1>1, <2>4, <2>5, SetsHandler
  <2>7. /\ holder' \in [Code -> Request \cup {Nobody}] /\ holder'[c] = r
        /\ \A d \in Code : holder[d] \in {Nobody, r} \/ holder'[d] = holder[d]
    BY <1>1, <2>1 DEF Invariant, TypeOK, c
  <2>8. Locked(r)'
    BY <1>3, <2>4, <2>6, <2>7 DEF InsertRoom, Locked, Exists
  <2>9. Position(r)'
    BY <1>1, <2>4, <2>6, <2>8 DEF InsertRoom, Invariant, Position, Seated
  <2> QED
    BY <2>6, <2>7, <2>9, QuietStep DEF InsertRoom, Invariant, TypeOK
<1> QED
  BY <1>2, <1>3

\* The INSERT of the user shows nothing to the others.
LEMMA InsertUserKeeps ==
  ASSUME Invariant, NEW r \in Request, InsertUser(r)
  PROVE  Invariant'
<1> DEFINE h == [req[r] EXCEPT !.pc = "commit"]
<1>1. /\ req \in [Request -> Handler] /\ req[r] \in Handler /\ req[r].pc = "insertUser"
      /\ req' = [req EXCEPT ![r] = h]
  BY DEF Invariant, TypeOK, InsertUser, Reads
<1>2. /\ h \in Handler /\ h.pc = "commit"
      /\ h.kind = req[r].kind /\ h.code = req[r].code /\ h.capacity = req[r].capacity
      /\ h.seed = req[r].seed /\ h.color = req[r].color
  BY <1>1 DEF Handler, Queries
<1> HIDE DEF h
<1>3. /\ req' \in [Request -> Handler] /\ req'[r] = h
      /\ \A q \in Request : q # r => req'[q] = req[q]
  BY <1>1, <1>2, SetsHandler
<1>4. Locked(r)'
  <2>1. Locked(r) /\ UNCHANGED <<rooms, users, holder>>
    BY <1>1 DEF InsertUser, Reads, Invariant, Position
  <2>2. /\ Exists(req[r].code)' <=> Exists(req[r].code)
        /\ HasSeat(req[r].code)' <=> HasSeat(req[r].code)
        /\ Fresh(req[r].color, req[r].code)' <=> Fresh(req[r].color, req[r].code)
    BY <1>2, <1>3, <2>1 DEF Exists, HasSeat, Fresh, Worn, In
  <2> QED
    BY <1>1, <1>2, <1>3, <2>1, <2>2 DEF Locked
<1>5. Position(r)'
  BY <1>1, <1>2, <1>3, <1>4 DEF InsertUser, Reads, Invariant, Position, Seated
<1> QED
  BY <1>3, <1>5, QuietStep DEF InsertUser, Reads, Invariant, TypeOK

\* The end of a transaction takes nothing from the others.
LEMMA ReleaseKeeps ==
  ASSUME TypeOK, NEW r \in Request, Release(r)
  PROVE  /\ holder' \in [Code -> Request \cup {Nobody}]
         /\ \A c \in Code : holder[c] \in {Nobody, r} \/ holder'[c] = holder[c]
         /\ pooled' \subseteq Request /\ Cardinality(pooled') <= PoolSize
<1>1. /\ holder' \in [Code -> Request \cup {Nobody}]
      /\ \A c \in Code : holder[c] \in {Nobody, r} \/ holder'[c] = holder[c]
  BY DEF TypeOK, Release
<1>2. IsFiniteSet(pooled) /\ Cardinality(pooled) \in Nat
  BY RoomAssumption, FS_Subset, FS_CardinalityType DEF TypeOK
<1>3. pooled' \in SUBSET pooled
  BY DEF Release
<1>4. IsFiniteSet(pooled') /\ Cardinality(pooled') <= Cardinality(pooled)
  BY <1>2, <1>3, FS_Subset
<1>5. Cardinality(pooled') \in Nat /\ Cardinality(pooled) <= PoolSize /\ PoolSize \in Nat
  BY <1>4, FS_CardinalityType, RoomAssumption DEF TypeOK
<1> QED
  BY <1>1, <1>2, <1>3, <1>4, <1>5 DEF TypeOK

\* A refused request ends, and a collision starts over in a new transaction.
LEMMA RollbackKeeps ==
  ASSUME Invariant, NEW r \in Request, Rollback(r)
  PROVE  Invariant'
<1> USE RoomAssumption
<1>1. /\ req \in [Request -> Handler] /\ req[r] \in Handler /\ req[r].pc = "rollback"
      /\ Release(r)
  BY DEF Invariant, TypeOK, Rollback
<1>2. CASE req[r].next # "retry"
  <2> DEFINE h == [req[r] EXCEPT !.pc = req[r].next]
  <2>1. req' = [req EXCEPT ![r] = h]
    BY <1>1, <1>2 DEF Rollback
  <2>2. /\ h \in Handler /\ h.pc \in {"full", "missing", "failed"}
        /\ h.kind = req[r].kind /\ h.capacity = req[r].capacity
    BY <1>1, <1>2 DEF Handler, Answers
  <2> HIDE DEF h
  <2>3. /\ req' \in [Request -> Handler] /\ req'[r] = h
        /\ \A q \in Request : q # r => req'[q] = req[q]
    BY <1>1, <2>1, <2>2, SetsHandler
  <2>4. Position(r)'
    BY <1>1, <2>2, <2>3 DEF Rollback, Invariant, Position, Seated
  <2> QED
    BY <1>1, <2>3, <2>4, ReleaseKeeps, QuietStep DEF Rollback, Invariant, TypeOK
<1>3. CASE req[r].next = "retry"
  <2>1. PICK c \in Code :
          req' = [req EXCEPT ![r].pc = "connect", ![r].code = c, ![r].attempts = @ + 1]
    BY <1>1, <1>3 DEF Rollback
  <2> DEFINE h == [req[r] EXCEPT !.pc = "connect", !.code = c, !.attempts = @ + 1]
  <2>2. req' = [req EXCEPT ![r] = h]
    BY <1>1, <2>1
  <2>3. req[r].attempts + 1 \in 0..MaxAttempts
    <3>1. req[r].attempts \in 0..MaxAttempts
      BY <1>1 DEF Handler
    <3>2. req[r].attempts < MaxAttempts
      BY <1>1, <1>3 DEF Invariant, Position
    <3> QED
      BY <3>1, <3>2
  <2>4. /\ h \in Handler /\ h.pc = "connect"
        /\ h.kind = req[r].kind /\ h.capacity = req[r].capacity
    BY <1>1, <2>3 DEF Handler
  <2> HIDE DEF h
  <2>5. /\ req' \in [Request -> Handler] /\ req'[r] = h
        /\ \A q \in Request : q # r => req'[q] = req[q]
    BY <1>1, <2>2, <2>4, SetsHandler
  <2>6. Position(r)'
    BY <1>1, <2>4, <2>5 DEF Rollback, Invariant, Position, Seated
  <2> QED
    BY <1>1, <2>5, <2>6, ReleaseKeeps, QuietStep DEF Rollback, Invariant, TypeOK
<1> QED
  BY <1>2, <1>3

\* A connection that breaks before COMMIT, or that is never had, leaves no trace.
LEMMA FailureKeeps ==
  ASSUME Invariant, NEW r \in Request, ConnectTimesOut(r) \/ Break(r)
  PROVE  Invariant'
<1> USE RoomAssumption
<1> DEFINE h == [req[r] EXCEPT !.pc = "failed"]
<1>1. /\ req \in [Request -> Handler] /\ req[r] \in Handler
      /\ req[r].pc \notin {"ok", "lostReply"}
      /\ req' = [req EXCEPT ![r] = h]
      /\ UNCHANGED <<rooms, users>>
      /\ faults' \in 0..MaxFaults
  BY DEF Invariant, TypeOK, ConnectTimesOut, Break, Fault, Queries
<1>2. /\ h \in Handler /\ h.pc = "failed"
      /\ h.kind = req[r].kind /\ h.capacity = req[r].capacity
  BY <1>1 DEF Handler, Answers
<1> HIDE DEF h
<1>3. /\ req' \in [Request -> Handler] /\ req'[r] = h
      /\ \A q \in Request : q # r => req'[q] = req[q]
  BY <1>1, <1>2, SetsHandler
<1>4. Position(r)'
  BY <1>1, <1>2, <1>3 DEF Invariant, Position, Seated
<1>5. CASE ConnectTimesOut(r)
  BY <1>1, <1>3, <1>4, <1>5, QuietStep DEF ConnectTimesOut, Invariant, TypeOK
<1>6. CASE Break(r)
  BY <1>1, <1>3, <1>4, <1>6, ReleaseKeeps, QuietStep DEF Break, Invariant, TypeOK
<1> QED
  BY <1>5, <1>6

-----------------------------------------------------------------------------
(* The step that commits.                                                  *)

NewUser(r) == [who |-> r, room |-> req[r].code, color |-> req[r].color]

\* The rows that a transaction commits.
LEMMA CommittedRows ==
  ASSUME Invariant, NEW r \in Request, req[r].pc = "commit", Committed(r)
  PROVE  /\ users' = users \cup {NewUser(r)}
         /\ NewUser(r) \in User /\ NewUser(r) \notin users
         /\ rooms' \in [Code -> [capacity : Capacity \cup {0}, seed : Seed \cup {0}]]
         /\ \A d \in Code : d # req[r].code => rooms'[d] = rooms[d]
         /\ req[r].kind = "join" => rooms' = rooms
         /\ req[r].kind = "create" =>
              rooms'[req[r].code] = [capacity |-> req[r].capacity, seed |-> req[r].seed]
<1> DEFINE c == req[r].code
<1>1. /\ req[r] \in Handler /\ c \in Code /\ req[r].color \in Color
      /\ req[r].kind \in {"create", "join"}
  BY DEF Invariant, TypeOK, Handler
<1>2. users' = users \cup {NewUser(r)}
  BY DEF Committed, NewUser
<1>3. NewUser(r) \in User
  BY <1>1 DEF User, NewUser
<1>4. NewUser(r) \notin users
  BY DEF Invariant, Position, Seated, NewUser
<1>5. CASE req[r].kind = "join"
  BY <1>2, <1>3, <1>4, <1>5 DEF Committed, Invariant, TypeOK
<1>6. CASE req[r].kind = "create"
  <2>1. req[r].capacity \in Capacity \cup {0} /\ req[r].seed \in Seed \cup {0}
    BY <1>1 DEF Handler
  <2>2. rooms' = [rooms EXCEPT ![c] = [capacity |-> req[r].capacity, seed |-> req[r].seed]]
    BY <1>6 DEF Committed
  <2> QED
    BY <1>1, <1>2, <1>3, <1>4, <1>6, <2>1, <2>2 DEF Invariant, TypeOK
<1> QED
  BY <1>1, <1>5, <1>6

\* Its lock, and what it found under the lock, keep each room sound.
LEMMA CommittedKeeps ==
  ASSUME Invariant, NEW r \in Request, req[r].pc = "commit", Committed(r),
         req' = [req EXCEPT ![r].pc = "ok"] \/ req' = [req EXCEPT ![r].pc = "lostReply"],
         faults' \in 0..MaxFaults
  PROVE  Invariant'
<1> USE RoomAssumption
<1> DEFINE c == req[r].code
           u == NewUser(r)
<1>1. /\ req \in [Request -> Handler] /\ req[r] \in Handler
      /\ c \in Code /\ req[r].color \in Color /\ req[r].kind \in {"create", "join"}
  BY DEF Invariant, TypeOK, Handler
<1>2. Position(r) /\ Locked(r) /\ holder[c] = r /\ ~Seated(r) /\ Sound(c)
  BY <1>1 DEF Invariant, Position, Locked
<1>3. /\ req' \in [Request -> Handler]
      /\ req'[r].pc \in {"ok", "lostReply"}
      /\ req'[r].kind = req[r].kind /\ req'[r].capacity = req[r].capacity
      /\ \A q \in Request : q # r => req'[q] = req[q]
  BY <1>1 DEF Handler, Answers
<1>4. /\ users' = users \cup {u} /\ u \in User /\ u \notin users
      /\ u.who = r /\ u.room = c /\ u.color = req[r].color
      /\ rooms' \in [Code -> [capacity : Capacity \cup {0}, seed : Seed \cup {0}]]
      /\ \A d \in Code : d # c => rooms'[d] = rooms[d]
      /\ req[r].kind = "join" => rooms' = rooms
      /\ req[r].kind = "create" =>
           rooms'[c] = [capacity |-> req[r].capacity, seed |-> req[r].seed]
  BY CommittedRows DEF NewUser
<1> HIDE DEF u
<1> DEFINE now(d) == {v \in users' : v.room = d}
           was == In(c)
<1>5. /\ now(c) = was \cup {u} /\ u \notin was /\ IsFiniteSet(was)
      /\ Cardinality(was) \in Nat
      /\ Cardinality(now(c)) = Cardinality(was) + 1
  <2>1. now(c) = was \cup {u} /\ u \notin was
    BY <1>4 DEF In
  <2>2. IsFiniteSet(was) /\ Cardinality(was) \in Nat
    BY InFinite DEF Invariant
  <2> HIDE DEF now, was
  <2>3. Cardinality(was \cup {u}) = Cardinality(was) + 1
    BY <2>1, <2>2, FS_AddElement
  <2> QED
    BY <2>1, <2>2, <2>3
<1>6. ASSUME NEW d \in Code, d # c PROVE now(d) = In(d)
  BY <1>4, <1>6 DEF In
<1>7. TypeOK'
  <2>1. users' \subseteq User
    BY <1>4 DEF Invariant, TypeOK
  <2> QED
    BY <1>3, <1>4, <2>1, ReleaseKeeps DEF Invariant, TypeOK, Committed
<1>8. IsFiniteSet(users')
  BY <1>4, FS_AddElement DEF Invariant
<1> HIDE DEF c, was, now
<1>9. /\ rooms'[c] # NoRoom /\ Cardinality(now(c)) <= rooms'[c].capacity
  <2>1. rooms[c].capacity \in Nat
    BY <1>1, RowType DEF Invariant
  <2>2. CASE req[r].kind = "join"
    <3>1. Exists(c) /\ HasSeat(c)
      BY <1>2, <2>2 DEF Locked, c
    <3> QED
      BY <1>4, <1>5, <2>1, <2>2, <3>1 DEF Exists, HasSeat, was
  <2>3. CASE req[r].kind = "create"
    <3>1. was = {} /\ Cardinality(was) = 0
      BY <1>2, <2>3, FS_EmptySet DEF Locked, Sound, c, was
    <3>2. req[r].capacity \in Capacity /\ req[r].capacity \in Nat \ {0}
      BY <1>2, <2>3 DEF Position
    <3> QED
      BY <1>4, <1>5, <2>3, <3>1, <3>2 DEF NoRoom
  <2> QED
    BY <1>1, <2>2, <2>3
<1>10. Cardinality(now(c)) <= NumColors =>
         Cardinality({v.color : v \in now(c)}) = Cardinality(now(c))
  <2> DEFINE worn == {v.color : v \in was}
             all == {v.color : v \in now(c)}
  <2> SUFFICES ASSUME Cardinality(now(c)) <= NumColors
               PROVE  Cardinality(all) = Cardinality(now(c))
    OBVIOUS
  <2>1. IsFiniteSet(Color) /\ Cardinality(Color) = NumColors /\ NumColors \in Nat
    <3>1. 1 \in Int /\ NumColors \in Int /\ NumColors \in Nat \ {0}
      OBVIOUS
    <3>2. /\ IsFiniteSet(1..NumColors)
          /\ Cardinality(1..NumColors) = IF 1 > NumColors THEN 0 ELSE NumColors - 1 + 1
      BY <3>1, FS_Interval
    <3> QED
      BY <3>1, <3>2 DEF Color
  <2>2. worn \in SUBSET Color
    BY DEF Invariant, TypeOK, User, In, was
  <2>3. IsFiniteSet(worn)
    BY <2>1, <2>2, FS_Subset
  <2>4. Cardinality(was) <= NumColors /\ Cardinality(was) # NumColors
    BY <1>5, <2>1
  <2>5. worn = Worn(c)
    BY DEF Worn, was
  <2>6. Cardinality(worn) = Cardinality(was)
    BY <1>2, <2>4, <2>5 DEF Sound, was, c
  <2>7. worn # Color
    BY <2>1, <2>4, <2>6
  <2>8. req[r].color \notin worn
    <3>1. CASE req[r].kind = "join"
      BY <1>2, <2>5, <2>7, <3>1 DEF Locked, Fresh, c
    <3>2. CASE req[r].kind = "create"
      <4>1. was = {}
        BY <1>2, <3>2 DEF Locked, Sound, c, was
      <4> QED
        BY <4>1
    <3> QED
      BY <1>1, <3>1, <3>2
  <2>9. all = worn \cup {req[r].color}
    BY <1>4, <1>5
  <2> HIDE DEF worn, all
  <2>10. Cardinality(worn \cup {req[r].color}) = Cardinality(worn) + 1
    BY <2>3, <2>8, FS_AddElement
  <2> QED
    BY <1>5, <2>6, <2>9, <2>10
<1>11. ASSUME NEW d \in Code PROVE Sound(d)'
  <2>1. CASE d = c
    <3>1. In(d)' = now(c) /\ Worn(d)' = {v.color : v \in now(c)} /\ now(c) # {}
      BY <1>5, <2>1 DEF In, Worn, now
    <3> QED
      BY <1>9, <1>10, <2>1, <3>1 DEF Sound, Exists
  <2>2. CASE d # c
    <3>1. In(d)' = In(d) /\ Worn(d)' = Worn(d) /\ rooms'[d] = rooms[d]
      BY <1>4, <1>6, <2>2 DEF In, Worn, now
    <3> QED
      BY <3>1 DEF Invariant, Sound, Exists
  <2> QED
    BY <2>1, <2>2
<1>12. Position(r)'
  <2>1. Seated(r)'
    BY <1>4 DEF Seated
  <2> QED
    BY <1>2, <1>3, <2>1 DEF Position
<1>13. ASSUME NEW q \in Request, q # r PROVE Position(q)'
  <2>1. req'[q] = req[q] /\ Position(q) /\ req[q].code \in Code
    BY <1>3, <1>13 DEF Invariant, TypeOK, Handler
  <2>2. Seated(q)' <=> Seated(q)
    BY <1>4, <1>13 DEF Seated
  <2>3. ASSUME Locked(q) PROVE Locked(q)'
    <3> DEFINE d == req[q].code
    <3>1. holder[d] = q /\ d # c
      BY <1>2, <1>13, <2>3 DEF Locked
    <3>2. holder'[d] = q
      BY <1>13, <2>1, <3>1 DEF Committed, Release
    <3>3. rooms'[d] = rooms[d] /\ {v \in users' : v.room = d} = In(d)
      BY <1>4, <1>6, <2>1, <3>1 DEF now
    <3> HIDE DEF d
    <3>4. req[q].code = d /\ req'[q].code = d
      BY <2>1 DEF d
    <3> QED
      BY <2>1, <2>3, <3>1, <3>2, <3>3, <3>4
      DEF Locked, Exists, HasSeat, Fresh, Worn, In
  <2> QED
    BY <2>1, <2>2, <2>3 DEF Position
<1> QED
  BY <1>7, <1>8, <1>11, <1>12, <1>13 DEF Invariant

\* Every step keeps the invariant.
LEMMA InvariantNext ==
  ASSUME Invariant, [Next]_vars
  PROVE  Invariant'
<1>1. ASSUME NEW r \in Request, Arrive(r) PROVE Invariant'
  BY <1>1, ArriveKeeps
<1>2. ASSUME NEW r \in Request, Serve(r) PROVE Invariant'
  <2>1. CASE Commit(r)
    BY <2>1, CommittedKeeps DEF Commit, Invariant, TypeOK
  <2> QED
    BY <1>2, <2>1, ConnectKeeps, FindRoomKeeps, CountUsersKeeps, ListUsersKeeps,
       InsertRoomKeeps, InsertUserKeeps, RollbackKeeps
    DEF Serve
<1>3. ASSUME NEW r \in Request, Faulty(r) PROVE Invariant'
  <2>1. CASE LoseCommitReply(r)
    <3>1. faults' \in 0..MaxFaults
      BY <2>1, RoomAssumption DEF LoseCommitReply, Fault, Invariant, TypeOK
    <3> QED
      BY <2>1, <3>1, CommittedKeeps DEF LoseCommitReply
  <2> QED
    BY <1>3, <2>1, FailureKeeps DEF Faulty
<1>4. CASE UNCHANGED vars
  <2>1. \A c \in Code : Sound(c)'
    BY <1>4 DEF vars, Invariant, Sound, Exists, In, Worn
  <2>2. ASSUME NEW r \in Request PROVE Position(r)'
    <3>1. Position(r)
      BY DEF Invariant
    <3> QED
      BY <1>4, <3>1 DEF vars, Position, Seated, Locked, Exists, HasSeat, Fresh, Worn, In
  <2> QED
    BY <1>4, <2>1, <2>2 DEF vars, Invariant, TypeOK
<1> QED
  BY <1>1, <1>2, <1>3, <1>4 DEF Next

\* The invariant that the properties below rest on: a transaction that holds the row
\* of its room has found what it acts upon, and every room is sound.
THEOREM InvariantHolds == Spec => []Invariant
<1>1. Init => Invariant
  BY InvariantInit
<1>2. Invariant /\ [Next]_vars => Invariant'
  BY InvariantNext
<1> QED
  BY <1>1, <1>2, PTL DEF Spec

-----------------------------------------------------------------------------
(* What follows.                                                           *)

\* The state of the service and of its handlers is always well typed: the color
\* that assignUserColor computes exists, attempts and pool keep their bounds.
THEOREM RoomTypeCorrect == Spec => []TypeOK
<1>1. Invariant => TypeOK
  BY DEF Invariant
<1> QED
  BY <1>1, InvariantHolds, PTL

\* Requirement 4.3 and design Property 8: whatever the number of joinRoom requests
\* that race for a seat, no room has more users than its capacity.
THEOREM CapacityAlways == Spec => []CapacityHolds
<1>1. Invariant => CapacityHolds
  BY DEF Invariant, Sound, CapacityHolds
<1> QED
  BY <1>1, InvariantHolds, PTL

\* Users of a room wear different colors while there are colors for all of them,
\* creator and joiners, whatever the number of colors.
THEOREM ColorsAlwaysDistinct == Spec => []ColorsDistinct
<1>1. Invariant => ColorsDistinct
  BY DEF Invariant, Sound, ColorsDistinct, Worn
<1> QED
  BY <1>1, InvariantHolds, PTL

\* Both transactions are all or nothing, with connections breaking at any query
\* and answers to COMMIT lost.
THEOREM AtomicAlways == Spec => []AllOrNothing
<1>1. Invariant => AllOrNothing
  BY DEF Invariant, Sound, Position, Seated, AllOrNothing
<1> QED
  BY <1>1, InvariantHolds, PTL

-----------------------------------------------------------------------------
(* The service implements RoomSeats.                                       *)

Seat(u) == [who |-> u.who, color |-> u.color]
SeatsOf(c) == {Seat(u) : u \in In(c)}

\* A room has no more seats taken than users, and a seat says who and what color.
LEMMA SeatsAreUsers ==
  ASSUME IsFiniteSet(users), NEW c
  PROVE  /\ IsFiniteSet(SeatsOf(c)) /\ Cardinality(SeatsOf(c)) \in Nat
         /\ Cardinality(SeatsOf(c)) <= Cardinality(In(c))
         /\ {s.color : s \in SeatsOf(c)} = Worn(c)
         /\ \A s \in SeatsOf(c) : \E u \in users : u.who = s.who
<1> DEFINE f == [u \in In(c) |-> Seat(u)]
<1>1. f \in Surjection(In(c), SeatsOf(c))
  BY DEF Surjection, SeatsOf
<1>2. IsFiniteSet(In(c))
  BY InFinite
<1>3. IsFiniteSet(SeatsOf(c)) /\ Cardinality(SeatsOf(c)) <= Cardinality(In(c))
  <2> HIDE DEF f
  <2> QED
    BY <1>1, <1>2, FS_Surjection
<1>4. {s.color : s \in SeatsOf(c)} = Worn(c)
  <2>1. \A u : Seat(u).color = u.color
    BY DEF Seat
  <2>2. ASSUME NEW s \in SeatsOf(c) PROVE s.color \in Worn(c)
    BY <2>1, <2>2 DEF SeatsOf, Worn
  <2>3. ASSUME NEW u \in In(c) PROVE Seat(u) \in SeatsOf(c) /\ Seat(u).color = u.color
    BY <2>1 DEF SeatsOf
  <2>4. ASSUME NEW color \in Worn(c) PROVE color \in {s.color : s \in SeatsOf(c)}
    <3>1. PICK u \in In(c) : color = u.color
      BY DEF Worn
    <3> QED
      BY <3>1, <2>3
  <2> QED
    BY <2>2, <2>4
<1>5. \A s \in SeatsOf(c) : \E u \in users : u.who = s.who
  BY DEF SeatsOf, Seat, In
<1> QED
  BY <1>3, <1>4, <1>5, FS_CardinalityType

\* RoomSeats counts as RoomService does.
LEMMA SameCardinality ==
  ASSUME NEW S
  PROVE  Seats!Cardinality(S) = Cardinality(S)
BY Zenon DEF Seats!Cardinality, Cardinality

\* No room is open at the start.
LEMMA SeatsInit == Init => Seats!Init
<1> SUFFICES ASSUME Init PROVE Seats!Init
  OBVIOUS
<1>1. \A c \in Code : rooms[c].capacity = 0 /\ In(c) = {}
  BY DEF Init, NoRoom, In
<1> QED
  BY <1>1 DEF Seats!Init

\* A COMMIT, its answer lost or not, opens the room or takes the seat.
LEMMA CommitImplements ==
  ASSUME Invariant, NEW r \in Request, req[r].pc = "commit", Committed(r)
  PROVE  Seats!Next
<1> USE RoomAssumption
<1> DEFINE room == req[r].code
           seat == [who |-> r, color |-> req[r].color]
           capacity == [c \in Code |-> rooms[c].capacity]
           seats == [c \in Code |-> {[who |-> u.who, color |-> u.color] : u \in In(c)}]
<1>1. room \in Code /\ req[r].color \in Color /\ req[r].kind \in {"create", "join"}
  BY DEF Invariant, TypeOK, Handler
<1>2. Position(r) /\ Locked(r) /\ ~Seated(r) /\ Sound(room) /\ IsFiniteSet(users)
  BY <1>1 DEF Invariant, Position
<1>3. \A d \in Code : seats[d] = SeatsOf(d)
  BY DEF SeatsOf, Seat
<1>4. ~Seats!Seated(r)
  BY <1>2 DEF Seats!Seated, Seated, In
<1>5. seats' = [seats EXCEPT ![room] = @ \cup {seat}]
  <2>1. users' = users \cup {NewUser(r)}
    BY CommittedRows
  <2>2. ASSUME NEW d \in Code
        PROVE  seats'[d] = IF d = room THEN seats[room] \cup {seat} ELSE seats[d]
    <3>1. CASE d = room
      <4>1. {u \in users' : u.room = d} = In(room) \cup {NewUser(r)}
        BY <2>1, <3>1 DEF In, NewUser
      <4>2. NewUser(r).who = r /\ NewUser(r).color = req[r].color
        BY DEF NewUser
      <4> QED
        BY <1>1, <3>1, <4>1, <4>2 DEF In
    <3>2. CASE d # room
      <4>1. {u \in users' : u.room = d} = In(d)
        BY <2>1, <3>2 DEF In, NewUser
      <4> QED
        BY <3>2, <4>1 DEF In
    <3> QED
      BY <3>1, <3>2
  <2> QED
    BY <1>1, <2>2
<1>6. CASE req[r].kind = "join"
  <2>1. Exists(room) /\ HasSeat(room) /\ Fresh(req[r].color, room)
    BY <1>2, <1>6 DEF Locked
  <2>2. capacity[room] > Cardinality(seats[room])
    <3>1. rooms[room].capacity \in Nat /\ Cardinality(In(room)) \in Nat
      BY <1>1, <1>2, RowType, InFinite DEF Invariant
    <3>2. Cardinality(SeatsOf(room)) \in Nat /\ Cardinality(SeatsOf(room)) <= Cardinality(In(room))
      BY <1>2, SeatsAreUsers
    <3>3. capacity[room] = rooms[room].capacity /\ seats[room] = SeatsOf(room)
      BY <1>1, <1>3
    <3> QED
      BY <2>1, <3>1, <3>2, <3>3 DEF HasSeat
  <2>3. req[r].color \in {s.color : s \in seats[room]} => {s.color : s \in seats[room]} = Color
    BY <1>1, <1>2, <1>3, <2>1, SeatsAreUsers DEF Fresh
  <2>4. capacity' = capacity
    BY <1>6, CommittedRows
  <2>5. LET worn == {s.color : s \in seats[room]} IN
        /\ capacity[room] > Seats!Cardinality(seats[room]) /\ ~Seats!Seated(r)
        /\ \E color \in Color :
             /\ color \in worn => worn = Color
             /\ seats' = [seats EXCEPT ![room] = @ \cup {[who |-> r, color |-> color]}]
        /\ UNCHANGED capacity
    <3> HIDE DEF seats, capacity
    <3> QED
      BY <1>1, <1>4, <1>5, <2>2, <2>3, <2>4, SameCardinality
  <2>6. Seats!Take(room, r)
    BY <2>5 DEF Seats!Take
  <2> QED
    BY <1>1, <2>6 DEF Seats!Next
<1>7. CASE req[r].kind = "create"
  <2>1. ~Exists(room) /\ In(room) = {} /\ req[r].capacity \in Capacity
    BY <1>2, <1>7 DEF Locked, Sound, Position
  <2>2. capacity[room] = 0
    BY <1>1, <2>1 DEF Exists, NoRoom
  <2>3. seats' = [seats EXCEPT ![room] = {seat}]
    <3>1. seats[room] = {}
      BY <1>1, <2>1
    <3> QED
      BY <1>1, <1>5, <3>1
  <2>4. capacity' = [capacity EXCEPT ![room] = req[r].capacity]
    <3>1. rooms'[room].capacity = req[r].capacity
      <4>1. rooms'[room] = [capacity |-> req[r].capacity, seed |-> req[r].seed]
        BY <1>7, CommittedRows
      <4> QED
        BY <4>1
    <3>2. \A d \in Code : d # room => rooms'[d].capacity = rooms[d].capacity
      BY CommittedRows
    <3> HIDE DEF room
    <3> QED
      BY <1>1, <3>1, <3>2
  <2>5. /\ capacity[room] = 0 /\ ~Seats!Seated(r)
        /\ \E n \in Capacity : capacity' = [capacity EXCEPT ![room] = n]
        /\ \E color \in Color : seats' = [seats EXCEPT ![room] = {[who |-> r, color |-> color]}]
    <3> HIDE DEF seats, capacity
    <3> QED
      BY <1>1, <1>4, <2>1, <2>2, <2>3, <2>4
  <2>6. Seats!Open(room, r)
    BY <2>5 DEF Seats!Open
  <2> QED
    BY <1>1, <2>6 DEF Seats!Next
<1> QED
  BY <1>1, <1>6, <1>7

\* All steps but the two forms of COMMIT are invisible.
LEMMA SeatsNext ==
  ASSUME Invariant, [Next]_vars
  PROVE  [Seats!Next]_(Seats!vars)
<1>1. ASSUME UNCHANGED <<rooms, users>> PROVE UNCHANGED Seats!vars
  BY <1>1 DEF Seats!vars, In
<1>2. ASSUME NEW r \in Request, Arrive(r)
      PROVE  UNCHANGED <<rooms, users>>
  BY <1>2 DEF Arrive, CreateRoom, JoinRoom, Reads
<1>3. ASSUME NEW r \in Request, Serve(r)
      PROVE  UNCHANGED <<rooms, users>> \/ Seats!Next
  <2>1. CASE Commit(r)
    BY <2>1, CommitImplements DEF Commit
  <2> QED
    BY <1>3, <2>1
    DEF Serve, Connect, FindRoom, CountUsers, ListUsers, InsertRoom, InsertUser, Rollback, Reads
<1>4. ASSUME NEW r \in Request, Faulty(r)
      PROVE  UNCHANGED <<rooms, users>> \/ Seats!Next
  <2>1. CASE LoseCommitReply(r)
    BY <2>1, CommitImplements DEF LoseCommitReply
  <2> QED
    BY <1>4, <2>1 DEF Faulty, ConnectTimesOut, Break
<1> QED
  BY <1>1, <1>2, <1>3, <1>4 DEF Next, vars

\* What the clients of the service see are rooms that open with their creator and
\* seats that are taken one by one, whatever happens between the queries of the
\* transactions: every step of the service is a step of RoomSeats or invisible.
THEOREM ServiceImplementsSeats == Spec => ImplementsSeats
<1>1. Init => Seats!Init
  BY SeatsInit
<1>2. Invariant /\ [Next]_vars => [Seats!Next]_(Seats!vars)
  BY SeatsNext
<1> QED
  BY <1>1, <1>2, InvariantHolds, PTL DEF Spec, ImplementsSeats, Seats!Spec

-----------------------------------------------------------------------------
(* Nobody waits in a circle, and no step of a handler is in vain: what the   *)
(* liveness of the runs rests on.                                            *)

Locking == {"count", "list", "insertUser", "commit", "rollback"}

\* The clients out of the pool are those of the open transactions, and a row is held
\* by a transaction that has nothing left to wait for.
Held ==
  /\ pooled = {r \in Request : req[r].pc \in Queries}
  /\ \A c \in Code : \A r \in Request : holder[c] = r => req[r].pc \in Locking

\* Requests that have arrived and are not answered yet.
Waiting == {r \in Request : req[r].pc \in {"connect"} \cup Queries}

\* What the next step of a handler waits for is there.
Ready(r) ==
  LET c == req[r].code IN
  \/ req[r].pc = "connect" /\ Cardinality(pooled) < PoolSize
  \/ req[r].pc = "find" /\ (~Exists(c) \/ holder[c] = Nobody)
  \/ req[r].pc = "insertRoom" /\ (Exists(c) \/ holder[c] = Nobody)
  \/ req[r].pc \in Locking

SomebodyCanGo == Waiting # {} => \E r \in Waiting : Ready(r)

\* The steps that one attempt of a handler may still take.
Stage(pc) ==
  CASE pc = "connect"                -> 6
    [] pc \in {"find", "insertRoom"} -> 5
    [] pc = "count"                  -> 4
    [] pc = "list"                   -> 3
    [] pc = "insertUser"             -> 2
    [] pc \in {"commit", "rollback"} -> 1
    [] OTHER                         -> 0

\* The steps that a handler may still take, with all the attempts it has left.
Left(r) == 6 * (MaxAttempts - req[r].attempts) + Stage(req[r].pc)

NoStepInVain ==
  \A r \in Request : /\ Serve(r) => Left(r)' < Left(r)
                     /\ Arrive(r) \/ Left(r)' <= Left(r)

\* A step of one request keeps the clients and the rows of the others.
LEMMA HeldStep ==
  ASSUME TypeOK, Held, NEW r \in Request,
         req' \in [Request -> Handler],
         \A q \in Request : q # r => req'[q] = req[q],
         \A q \in Request : q # r => (q \in pooled' <=> q \in pooled),
         pooled' \subseteq Request,
         r \in pooled' <=> req'[r].pc \in Queries,
         \A c \in Code : holder'[c] \in {Nobody, r, holder[c]},
         \A c \in Code : holder'[c] = r => req'[r].pc \in Locking
  PROVE  Held'
<1>1. ASSUME NEW q \in Request PROVE q \in pooled' <=> req'[q].pc \in Queries
  BY DEF Held
<1>2. pooled' = {q \in Request : req'[q].pc \in Queries}
  BY <1>1
<1>3. ASSUME NEW c \in Code, NEW q \in Request, holder'[c] = q
      PROVE  req'[q].pc \in Locking
  BY <1>3, RoomAssumption DEF Held
<1> QED
  BY <1>2, <1>3 DEF Held

\* What an attempt to insert the room does.
LEMMA InsertRoomMoves ==
  ASSUME TypeOK, NEW r \in Request, InsertRoom(r)
  PROVE  /\ req[r].pc = "insertRoom" /\ UNCHANGED pooled
         /\ req'[r].attempts = req[r].attempts /\ req'[r].pc \in {"insertUser", "rollback"}
         /\ \A q \in Request : q # r => req'[q] = req[q]
         /\ holder' = holder \/ holder' = [holder EXCEPT ![req[r].code] = r]
<1>1. req \in [Request -> Handler] /\ req[r] \in Handler
  BY DEF TypeOK
<1>2. CASE Exists(req[r].code)
  <2>1. \E next \in {"failed", "retry"} : RollbackTo(r, next)
    BY <1>2 DEF InsertRoom
  <2>2. PICK next \in {"failed", "retry"} :
          req' = [req EXCEPT ![r].pc = "rollback", ![r].next = next]
    BY <2>1 DEF RollbackTo
  <2>3. /\ \A q \in Request : q # r => req'[q] = req[q]
        /\ req'[r].attempts = req[r].attempts /\ req'[r].pc = "rollback"
    BY <1>1, <2>2 DEF Handler
  <2> QED
    BY <1>2, <2>3 DEF InsertRoom
<1>3. CASE ~Exists(req[r].code)
  <2>1. PICK s \in Seed :
          req' = [req EXCEPT ![r].pc = "insertUser", ![r].seed = s,
                             ![r].color = ColorFor(s, {})]
    BY <1>3 DEF InsertRoom
  <2>2. /\ \A q \in Request : q # r => req'[q] = req[q]
        /\ req'[r].attempts = req[r].attempts /\ req'[r].pc = "insertUser"
    BY <1>1, <2>1 DEF Handler
  <2> QED
    BY <1>3, <2>2 DEF InsertRoom
<1> QED
  BY <1>2, <1>3

\* Where the next step of a handler takes it.
LEMMA ServeMoves ==
  ASSUME Invariant, NEW r \in Request, Serve(r)
  PROVE  /\ req' \in [Request -> Handler]
         /\ \A q \in Request : q # r => req'[q] = req[q]
         /\ \/ /\ req'[r].attempts = req[r].attempts
               /\ Stage(req'[r].pc) < Stage(req[r].pc)
            \/ /\ req'[r].attempts = req[r].attempts + 1
               /\ Stage(req'[r].pc) = 6 /\ Stage(req[r].pc) = 1
<1> DEFINE h == req[r]
<1>1. /\ req \in [Request -> Handler] /\ h \in Handler
      /\ TypeOK' /\ req' \in [Request -> Handler]
  <2>1. Next
    BY DEF Next
  <2> QED
    BY <2>1, InvariantNext DEF Invariant, TypeOK
<1>2. CASE Connect(r)
  <2>1. req' = [req EXCEPT ![r].pc = IF req[r].kind = "join" THEN "find" ELSE "insertRoom"]
        /\ req[r].pc = "connect"
    BY <1>2 DEF Connect
  <2>2. /\ \A q \in Request : q # r => req'[q] = req[q]
        /\ req'[r].attempts = req[r].attempts /\ req'[r].pc \in {"find", "insertRoom"}
    BY <1>1, <2>1 DEF Handler
  <2> QED
    BY <1>1, <2>1, <2>2 DEF Stage
<1>3. CASE FindRoom(r)
  <2>1. /\ \A q \in Request : q # r => req'[q] = req[q]
        /\ req[r].pc = "find"
        /\ req'[r].attempts = req[r].attempts /\ req'[r].pc \in {"count", "rollback"}
    BY <1>1, <1>3 DEF FindRoom, RollbackTo, Handler
  <2> QED
    BY <1>1, <2>1 DEF Stage
<1>4. CASE CountUsers(r)
  <2>1. /\ \A q \in Request : q # r => req'[q] = req[q]
        /\ req[r].pc = "count"
        /\ req'[r].attempts = req[r].attempts /\ req'[r].pc \in {"list", "rollback"}
    BY <1>1, <1>4 DEF CountUsers, Reads, Handler
  <2> QED
    BY <1>1, <2>1 DEF Stage
<1>5. CASE ListUsers(r)
  <2>1. /\ \A q \in Request : q # r => req'[q] = req[q]
        /\ req[r].pc = "list"
        /\ req'[r].attempts = req[r].attempts /\ req'[r].pc = "insertUser"
    BY <1>1, <1>5 DEF ListUsers, Reads, Handler
  <2> QED
    BY <1>1, <2>1 DEF Stage
<1>6. CASE InsertRoom(r)
  <2>1. /\ \A q \in Request : q # r => req'[q] = req[q]
        /\ req[r].pc = "insertRoom"
        /\ req'[r].attempts = req[r].attempts /\ req'[r].pc \in {"insertUser", "rollback"}
    BY <1>6, InsertRoomMoves DEF Invariant
  <2> QED
    BY <1>1, <2>1 DEF Stage
<1>7. CASE InsertUser(r)
  <2>1. /\ \A q \in Request : q # r => req'[q] = req[q]
        /\ req[r].pc = "insertUser"
        /\ req'[r].attempts = req[r].attempts /\ req'[r].pc = "commit"
    BY <1>1, <1>7 DEF InsertUser, Reads, Handler
  <2> QED
    BY <1>1, <2>1 DEF Stage
<1>8. CASE Commit(r)
  <2>1. /\ \A q \in Request : q # r => req'[q] = req[q]
        /\ req[r].pc = "commit"
        /\ req'[r].attempts = req[r].attempts /\ req'[r].pc = "ok"
    BY <1>1, <1>8 DEF Commit, Handler
  <2> QED
    BY <1>1, <2>1 DEF Stage
<1>9. CASE Rollback(r)
  <2>1. req[r].pc = "rollback"
    BY <1>9 DEF Rollback
  <2>2. CASE req[r].next # "retry"
    <3>1. req' = [req EXCEPT ![r].pc = req[r].next]
      BY <1>9, <2>2 DEF Rollback
    <3>2. /\ \A q \in Request : q # r => req'[q] = req[q]
          /\ req'[r].attempts = req[r].attempts
          /\ req'[r].pc \in {"full", "missing", "failed"}
      BY <1>1, <2>2, <3>1 DEF Handler
    <3> QED
      BY <1>1, <2>1, <3>2 DEF Stage
  <2>3. CASE req[r].next = "retry"
    <3>1. PICK c \in Code :
            req' = [req EXCEPT ![r].pc = "connect", ![r].code = c, ![r].attempts = @ + 1]
      BY <1>9, <2>3 DEF Rollback
    <3>2. /\ \A q \in Request : q # r => req'[q] = req[q]
          /\ req'[r].attempts = req[r].attempts + 1 /\ req'[r].pc = "connect"
      BY <1>1, <3>1 DEF Handler
    <3> QED
      BY <1>1, <2>1, <3>2 DEF Stage
  <2> QED
    BY <2>2, <2>3
<1> QED
  BY <1>2, <1>3, <1>4, <1>5, <1>6, <1>7, <1>8, <1>9 DEF Serve

\* A request that arrives, and one that fails.
LEMMA OthersMove ==
  ASSUME Invariant, NEW r \in Request, Arrive(r) \/ Faulty(r)
  PROVE  /\ req' \in [Request -> Handler]
         /\ \A q \in Request : q # r => req'[q] = req[q]
         /\ Arrive(r) => req[r].pc = "new" /\ req'[r].pc = "connect"
         /\ Faulty(r) => /\ req'[r].attempts = req[r].attempts
                         /\ req'[r].pc \in {"failed", "lostReply"}
<1>1. /\ req \in [Request -> Handler] /\ req[r] \in Handler
      /\ req' \in [Request -> Handler]
  <2>1. Next
    BY DEF Next
  <2> QED
    BY <2>1, InvariantNext DEF Invariant, TypeOK
<1>2. CASE CreateRoom(r)
  <2>1. /\ req[r].pc = "new" /\ UNCHANGED <<pooled, holder>>
        /\ \E n \in Capacity, c \in Code :
             req' = [req EXCEPT ![r] = [req[r] EXCEPT !.pc = "connect", !.kind = "create",
                                        !.code = c, !.capacity = n, !.attempts = 1]]
    BY <1>2 DEF CreateRoom, Reads
  <2>2. /\ \A q \in Request : q # r => req'[q] = req[q]
        /\ req'[r].pc = "connect"
    BY <1>1, <2>1 DEF Handler
  <2>3. ~Faulty(r)
    BY <2>1 DEF Faulty, ConnectTimesOut, Break, LoseCommitReply, Queries
  <2> QED
    BY <1>1, <2>1, <2>2, <2>3
<1>3. CASE JoinRoom(r)
  <2>1. /\ req[r].pc = "new"
        /\ \E c \in Code :
             req' = [req EXCEPT ![r] = [req[r] EXCEPT !.pc = "connect", !.kind = "join",
                                                      !.code = c]]
    BY <1>3 DEF JoinRoom, Reads
  <2>2. /\ \A q \in Request : q # r => req'[q] = req[q]
        /\ req'[r].pc = "connect"
    BY <1>1, <2>1 DEF Handler
  <2>3. ~Faulty(r)
    BY <2>1 DEF Faulty, ConnectTimesOut, Break, LoseCommitReply, Queries
  <2> QED
    BY <1>1, <2>1, <2>2, <2>3
<1>4. CASE Faulty(r)
  <2>1. /\ req[r].pc # "new"
        /\ \E p \in {"failed", "lostReply"} : req' = [req EXCEPT ![r].pc = p]
    BY <1>4 DEF Faulty, ConnectTimesOut, Break, LoseCommitReply, Queries
  <2>2. /\ \A q \in Request : q # r => req'[q] = req[q]
        /\ req'[r].attempts = req[r].attempts
        /\ req'[r].pc \in {"failed", "lostReply"}
    BY <1>1, <2>1 DEF Handler
  <2>3. ~Arrive(r)
    BY <2>1 DEF Arrive, CreateRoom, JoinRoom
  <2> QED
    BY <1>1, <2>2, <2>3
<1> QED
  BY <1>2, <1>3, <1>4 DEF Arrive

\* What a step does to the clients and the rows of its request.
LEMMA HeldNext ==
  ASSUME Invariant, Held, [Next]_vars
  PROVE  Held'
<1> USE DEF Queries, Locking
<1>1. TypeOK
  BY DEF Invariant
<1>2. CASE UNCHANGED vars
  BY <1>2 DEF vars, Held
<1>3. ASSUME NEW r \in Request, Arrive(r) PROVE Held'
  <2>1. /\ req' \in [Request -> Handler] /\ req[r].pc = "new" /\ req'[r].pc = "connect"
        /\ \A q \in Request : q # r => req'[q] = req[q]
    BY <1>3, OthersMove
  <2>2. UNCHANGED <<pooled, holder>>
    BY <1>3 DEF Arrive, CreateRoom, JoinRoom, Reads
  <2> QED
    BY <1>1, <2>1, <2>2, HeldStep DEF Held, TypeOK
<1>4. ASSUME NEW r \in Request, Serve(r) \/ Faulty(r), Release(r),
             req'[r].pc \notin Queries
      PROVE  Held'
  <2>1. /\ req' \in [Request -> Handler]
        /\ \A q \in Request : q # r => req'[q] = req[q]
    BY <1>4, OthersMove, ServeMoves
  <2>2. \A c \in Code : holder'[c] # r
    BY <1>4, RoomAssumption DEF Release
  <2>3. \A c \in Code : holder'[c] \in {Nobody, holder[c]}
    BY <1>4 DEF Release
  <2>4. pooled' = pooled \ {r} /\ pooled \subseteq Request
    BY <1>1, <1>4 DEF Release, TypeOK
  <2> QED
    BY <1>1, <1>4, <2>1, <2>2, <2>3, <2>4, HeldStep
<1>5. ASSUME NEW r \in Request, Serve(r) PROVE Held'
  <2>1. /\ req' \in [Request -> Handler] /\ req[r] \in Handler
        /\ \A q \in Request : q # r => req'[q] = req[q]
    BY <1>1, <1>5, ServeMoves DEF TypeOK
  <2>2. CASE Connect(r)
    <3>1. /\ pooled' = pooled \cup {r} /\ pooled \subseteq Request /\ UNCHANGED holder
          /\ req[r].pc = "connect"
          /\ req'[r].pc \in {"find", "insertRoom"}
      BY <1>1, <2>1, <2>2 DEF Connect, TypeOK, Handler
    <3>2. \A c \in Code : holder'[c] # r
      BY <3>1 DEF Held
    <3> QED
      BY <1>1, <2>1, <3>1, <3>2, HeldStep
  <2>3. CASE FindRoom(r) \/ InsertRoom(r)
    <3>1. /\ UNCHANGED pooled /\ req[r].pc \in {"find", "insertRoom"}
          /\ req'[r].pc \in Locking
          /\ holder' = holder \/ holder' = [holder EXCEPT ![req[r].code] = r]
      <4>1. CASE FindRoom(r)
        BY <1>1, <2>1, <4>1 DEF FindRoom, RollbackTo, TypeOK, Handler
      <4>2. CASE InsertRoom(r)
        BY <1>1, <4>2, InsertRoomMoves
      <4> QED
        BY <2>3, <4>1, <4>2
    <3>2. \A c \in Code : holder'[c] \in {r, holder[c]}
      BY <1>1, <3>1 DEF TypeOK
    <3> QED
      BY <1>1, <2>1, <3>1, <3>2, HeldStep DEF Held, TypeOK
  <2>4. CASE CountUsers(r) \/ ListUsers(r) \/ InsertUser(r)
    <3>1. /\ UNCHANGED <<pooled, holder>> /\ req[r].pc \in Locking
          /\ req'[r].pc \in Locking
      <4>1. CASE CountUsers(r)
        BY <1>1, <2>1, <4>1 DEF CountUsers, Reads, TypeOK, Handler
      <4>2. CASE ListUsers(r)
        BY <1>1, <2>1, <4>2 DEF ListUsers, Reads, TypeOK, Handler
      <4>3. CASE InsertUser(r)
        BY <1>1, <2>1, <4>3 DEF InsertUser, Reads, TypeOK, Handler
      <4> QED
        BY <2>4, <4>1, <4>2, <4>3
    <3> QED
      BY <1>1, <2>1, <3>1, HeldStep DEF Held, TypeOK
  <2>5. CASE Commit(r)
    <3>1. Release(r) /\ req'[r].pc = "ok"
      BY <1>1, <2>1, <2>5 DEF Commit, Committed, TypeOK, Handler
    <3> QED
      BY <1>4, <1>5, <3>1
  <2>6. CASE Rollback(r)
    <3>1. Release(r) /\ req'[r].pc \in {"full", "missing", "failed", "connect"}
      <4>1. CASE req[r].next = "retry"
        <5>1. PICK c \in Code :
                req' = [req EXCEPT ![r].pc = "connect", ![r].code = c, ![r].attempts = @ + 1]
          BY <2>6, <4>1 DEF Rollback
        <5> QED
          BY <1>1, <2>1, <2>6, <5>1 DEF Rollback, TypeOK, Handler
      <4>2. CASE req[r].next # "retry"
        <5>1. req' = [req EXCEPT ![r].pc = req[r].next]
          BY <2>6, <4>2 DEF Rollback
        <5> QED
          BY <1>1, <2>1, <2>6, <4>2, <5>1 DEF Rollback, TypeOK, Handler
      <4> QED
        BY <4>1, <4>2
    <3> QED
      BY <1>4, <1>5, <3>1
  <2> QED
    BY <1>5, <2>2, <2>3, <2>4, <2>5, <2>6 DEF Serve
<1>6. ASSUME NEW r \in Request, Faulty(r) PROVE Held'
  <2>1. /\ req' \in [Request -> Handler] /\ req'[r].pc \in {"failed", "lostReply"}
        /\ \A q \in Request : q # r => req'[q] = req[q]
    BY <1>6, OthersMove
  <2>2. CASE ConnectTimesOut(r)
    <3>1. UNCHANGED <<pooled, holder>> /\ req[r].pc = "connect"
      BY <2>2 DEF ConnectTimesOut
    <3> QED
      BY <1>1, <2>1, <3>1, HeldStep DEF Held, TypeOK
  <2>3. CASE Break(r) \/ LoseCommitReply(r)
    <3>1. Release(r)
      BY <2>3 DEF Break, LoseCommitReply, Committed
    <3> QED
      BY <1>4, <1>6, <2>1, <3>1
  <2> QED
    BY <1>6, <2>2, <2>3 DEF Faulty
<1> QED
  BY <1>2, <1>3, <1>5, <1>6 DEF Next

\* Whoever waits, somebody can go: a full pool has a transaction in it, and a
\* transaction that waits for a row waits for one that has nothing to wait for.
LEMMA NobodyCircles ==
  ASSUME TypeOK, Held
  PROVE  SomebodyCanGo
<1> SUFFICES ASSUME NEW r \in Waiting PROVE \E q \in Waiting : Ready(q)
  BY DEF SomebodyCanGo
<1>1. ASSUME NEW q \in Request, req[q].pc \in Queries
      PROVE  \E p \in Waiting : Ready(p)
  <2>1. q \in Waiting /\ req[q].code \in Code
    BY <1>1 DEF Waiting, TypeOK, Handler
  <2>2. CASE req[q].pc \in Locking
    BY <2>1, <2>2 DEF Ready
  <2>3. CASE req[q].pc \in {"find", "insertRoom"} /\ holder[req[q].code] = Nobody
    BY <2>1, <2>3 DEF Ready
  <2>4. CASE req[q].pc \in {"find", "insertRoom"} /\ holder[req[q].code] # Nobody
    <3>1. PICK p \in Request : holder[req[q].code] = p
      BY <2>1, <2>4 DEF TypeOK
    <3>2. req[p].pc \in Locking
      BY <2>1, <3>1 DEF Held
    <3> QED
      BY <3>2 DEF Ready, Waiting, Locking, Queries
  <2> QED
    BY <1>1, <2>2, <2>3, <2>4 DEF Queries, Locking
<1>2. CASE \E q \in Request : req[q].pc \in Queries
  BY <1>1, <1>2
<1>3. CASE \A q \in Request : req[q].pc \notin Queries
  <2>1. pooled = {}
    BY <1>3 DEF Held
  <2>2. Cardinality(pooled) = 0 /\ PoolSize \in Nat \ {0}
    BY <2>1, FS_EmptySet, RoomAssumption
  <2>3. r \in Request /\ req[r].pc = "connect"
    BY <1>3 DEF Waiting
  <2> QED
    BY <2>2, <2>3 DEF Ready
<1> QED
  BY <1>2, <1>3

\* As long as a request is unanswered, some request finds what its next step waits
\* for: the pool and the row locks never close a circle, whatever the pool's size
\* (database.ts:76-91 hands one client to every query of a transaction).
THEOREM NoCircularWait == Spec => []SomebodyCanGo
<1>1. Init => Invariant /\ Held
  <2>1. Init => Held
    BY RoomAssumption DEF Init, Held, Queries
  <2> QED
    BY <2>1, InvariantInit
<1>2. Invariant /\ Held /\ [Next]_vars => (Invariant /\ Held)'
  BY InvariantNext, HeldNext
<1>3. Invariant /\ Held => SomebodyCanGo
  BY NobodyCircles DEF Invariant
<1> QED
  BY <1>1, <1>2, <1>3, PTL DEF Spec

\* The number of steps left is a number.
LEMMA LeftType ==
  ASSUME NEW h \in Handler
  PROVE  /\ h.attempts \in Nat /\ h.attempts <= MaxAttempts /\ MaxAttempts \in Nat
         /\ Stage(h.pc) \in 0..6
BY RoomAssumption DEF Handler, Stage

\* Every step of a handler brings its request nearer its answer and takes nobody
\* else's back: with a collision at every attempt a request is answered within
\* 6 * MaxAttempts steps of its own (resolvers.ts:244-300).
THEOREM EveryStepCounts == Spec => [][NoStepInVain]_vars
<1>1. ASSUME Invariant, [Next]_vars
      PROVE  [NoStepInVain]_vars
  <2>1. Invariant'
    BY <1>1, InvariantNext
  <2>2. ASSUME NEW q \in Request
        PROVE  req[q] \in Handler /\ req'[q] \in Handler
    BY <1>1, <2>1 DEF Invariant, TypeOK
  <2>3. ASSUME NEW q \in Request, req'[q] = req[q] PROVE Left(q)' = Left(q)
    BY <2>3 DEF Left
  <2>4. ASSUME NEW r \in Request, Serve(r)
        PROVE  Left(r)' < Left(r) /\ \A q \in Request : q # r => Left(q)' = Left(q)
    <3> DEFINE a == req[r].attempts
               b == req'[r].attempts
               s == Stage(req[r].pc)
               t == Stage(req'[r].pc)
    <3>1. /\ \A q \in Request : q # r => req'[q] = req[q]
          /\ (b = a /\ t < s) \/ (b = a + 1 /\ t = 6 /\ s = 1)
      BY <1>1, <2>4, ServeMoves
    <3>2. a \in Nat /\ b \in Nat /\ s \in 0..6 /\ t \in 0..6 /\ MaxAttempts \in Nat
      BY <2>2, LeftType
    <3>3. Left(r) = 6 * (MaxAttempts - a) + s /\ Left(r)' = 6 * (MaxAttempts - b) + t
      BY DEF Left
    <3> HIDE DEF a, b, s, t
    <3>4. Left(r)' < Left(r)
      BY <3>1, <3>2, <3>3
    <3> QED
      BY <2>3, <3>1, <3>4
  <2>5. ASSUME NEW r \in Request, Faulty(r)
        PROVE  \A q \in Request : Left(q)' <= Left(q)
    <3> DEFINE a == req[r].attempts
               s == Stage(req[r].pc)
    <3>1. /\ \A q \in Request : q # r => req'[q] = req[q]
          /\ req'[r].attempts = a /\ Stage(req'[r].pc) = 0
      BY <1>1, <2>5, OthersMove DEF Stage
    <3>2. a \in Nat /\ s \in 0..6 /\ MaxAttempts \in Nat
      BY <2>2, LeftType
    <3>3. Left(r) = 6 * (MaxAttempts - a) + s /\ Left(r)' = 6 * (MaxAttempts - a) + 0
      BY <3>1 DEF Left
    <3>4. ASSUME NEW q \in Request PROVE Left(q) \in Int
      BY <2>2, <3>2, LeftType DEF Left
    <3> HIDE DEF a, s
    <3>5. Left(r)' <= Left(r)
      BY <3>2, <3>3
    <3> QED
      BY <2>3, <3>1, <3>4, <3>5
  <2>6. ASSUME NEW q \in Request PROVE Left(q) \in Int /\ Left(q)' \in Int
    BY <2>2, LeftType DEF Left
  <2>7. ASSUME NEW r \in Request PROVE Arrive(r) \/ Left(r)' <= Left(r)
    <3>1. CASE UNCHANGED vars
      BY <2>3, <2>6, <3>1 DEF vars
    <3>2. CASE Next
      <4>1. PICK p \in Request : Arrive(p) \/ Serve(p) \/ Faulty(p)
        BY <3>2 DEF Next
      <4>2. p # r => req'[r] = req[r]
        BY <1>1, <4>1, OthersMove, ServeMoves
      <4>3. p = r /\ Serve(p) => Left(r)' <= Left(r)
        BY <2>4, <2>6
      <4>4. p = r /\ Faulty(p) => Left(r)' <= Left(r)
        BY <2>5
      <4>5. p # r => Left(r)' <= Left(r)
        BY <2>3, <2>6, <4>2
      <4> QED
        BY <4>1, <4>3, <4>4, <4>5
    <3> QED
      BY <1>1, <3>1, <3>2
  <2> QED
    BY <2>4, <2>7 DEF NoStepInVain
<1> QED
  BY <1>1, InvariantHolds, PTL DEF Spec

=============================================================================
