------------------------------ MODULE RoomService ------------------------------
(***************************************************************************)
(* createRoom and joinRoom of the room service                             *)
(* (services/room-service/src/resolvers.ts) over the shared                *)
(* DatabaseManager: each request runs one PostgreSQL transaction on a      *)
(* client of the pool, one query after another.                            *)
(*                                                                         *)
(* PostgreSQL runs the transactions READ COMMITTED: a query sees the rows  *)
(* that were committed when it started, SELECT ... FOR UPDATE waits for    *)
(* the room's row lock, and an INSERT of a code that another transaction   *)
(* has inserted and not committed waits for that transaction.              *)
(***************************************************************************)
EXTENDS Naturals, FiniteSets

CONSTANTS
  Request,      \* GraphQL requests; each adds at most one user, named after it
  Code,         \* room codes that generateRoomCode may return
  Capacity,     \* capacities that requests ask for
  Seed,         \* values of roomSeed, the character sum of a room's UUID
  NumColors,    \* USER_COLORS.length
  MaxAttempts,  \* maxAttempts of createRoom
  PoolSize,     \* max of the pg Pool
  MaxFaults,    \* bound: lost connections and timeouts in a behaviour
  Nobody        \* holds the rows that no transaction holds

ASSUME RoomAssumption ==
  /\ IsFiniteSet(Request) /\ Nobody \notin Request /\ Code # {}
  /\ Capacity \subseteq Nat \ {0} /\ Seed \subseteq Nat
  /\ NumColors \in Nat \ {0} /\ MaxAttempts \in Nat \ {0}
  /\ PoolSize \in Nat \ {0} /\ MaxFaults \in Nat

VARIABLES
  rooms,    \* [Code -> the committed row of rooms with this code, or NoRoom]
  users,    \* committed rows of users, all of them active
  holder,   \* [Code -> the transaction that locked the row, or inserted it uncommitted]
  req,      \* [Request -> where the request's handler is, and what it has read]
  pooled,   \* requests that hold a client of the pool
  faults    \* faults so far (bound)

vars == <<rooms, users, holder, req, pooled, faults>>

Color == 1..NumColors
User  == [who : Request, room : Code, color : Color]
NoRoom == [capacity |-> 0, seed |-> 0]

Queries == {"find", "count", "list", "insertRoom", "insertUser", "commit", "rollback"}
Answers == {"ok", "full", "missing", "failed", "lostReply"}

\* next: what becomes of the request after its ROLLBACK.
Handler ==
  [pc : {"new", "connect"} \cup Queries \cup Answers,
   kind : {"create", "join"}, code : Code, capacity : Capacity \cup {0},
   seed : Seed \cup {0}, count : Nat, color : Color,
   attempts : 0..MaxAttempts, next : {"full", "missing", "failed", "retry"}]

TypeOK ==
  /\ rooms \in [Code -> [capacity : Capacity \cup {0}, seed : Seed \cup {0}]]
  /\ users \subseteq User
  /\ holder \in [Code -> Request \cup {Nobody}]
  /\ req \in [Request -> Handler]
  /\ pooled \subseteq Request /\ Cardinality(pooled) <= PoolSize
  /\ faults \in 0..MaxFaults

Init ==
  /\ rooms = [c \in Code |-> NoRoom]
  /\ users = {}
  /\ holder = [c \in Code |-> Nobody]
  /\ req = [r \in Request |->
              [pc |-> "new", kind |-> "join", code |-> CHOOSE c \in Code : TRUE,
               capacity |-> 0, seed |-> 0, count |-> 0, color |-> 1,
               attempts |-> 0, next |-> "failed"]]
  /\ pooled = {} /\ faults = 0

Exists(c) == rooms[c] # NoRoom
In(c) == {u \in users : u.room = c}

RollbackTo(r, next) == req' = [req EXCEPT ![r].pc = "rollback", ![r].next = next]

\* The request writes these fields of its handler and leaves the database alone.
Reads(r, handler) ==
  /\ req' = [req EXCEPT ![r] = handler]
  /\ UNCHANGED <<rooms, users, holder, pooled, faults>>

\* Mutant: the new user's color does not look at the colors in the room.
ColorForAnyone(seed, existing) == (seed % NumColors) + 1

\* assignUserColor: among the colors nobody wears (all of them if none is left),
\* the one at the index that the room's UUID and the number of users give.
ColorFor(seed, existing) ==
  LET free    == Color \ {u.color : u \in existing}
      choices == IF free # {} THEN free ELSE Color
      index   == (seed + Cardinality(existing)) % Cardinality(choices)
  IN CHOOSE c \in choices : Cardinality({d \in choices : d < c}) = index

-----------------------------------------------------------------------------
(* Requests arrive, and wait for a client of the pool.                     *)

CreateRoom(r) ==
  \E n \in Capacity, c \in Code :
    /\ req[r].pc = "new"
    /\ Reads(r, [req[r] EXCEPT !.pc = "connect", !.kind = "create", !.code = c,
                               !.capacity = n, !.attempts = 1])

JoinRoom(r) ==
  \E c \in Code :
    /\ req[r].pc = "new"
    /\ Reads(r, [req[r] EXCEPT !.pc = "connect", !.kind = "join", !.code = c])

Connect(r) ==
  /\ req[r].pc = "connect"
  /\ Cardinality(pooled) < PoolSize
  /\ pooled' = pooled \cup {r}
  /\ req' = [req EXCEPT ![r].pc = IF req[r].kind = "join" THEN "find" ELSE "insertRoom"]
  /\ UNCHANGED <<rooms, users, holder, faults>>

-----------------------------------------------------------------------------
(* joinRoom.                                                               *)

\* Mutant: findRoomByCode instead of getRoomForUpdateByCode.
FindRoomUnlocked(r) ==
  /\ req[r].pc = "find"
  /\ Reads(r, IF Exists(req[r].code)
              THEN [req[r] EXCEPT !.pc = "count"]
              ELSE [req[r] EXCEPT !.pc = "rollback", !.next = "missing"])

\* SELECT ... WHERE code = $1 FOR UPDATE.
FindRoom(r) ==
  LET c == req[r].code IN
  /\ req[r].pc = "find"
  /\ \/ /\ ~Exists(c)
        /\ RollbackTo(r, "missing")
        /\ UNCHANGED holder
     \/ /\ Exists(c) /\ holder[c] = Nobody
        /\ holder' = [holder EXCEPT ![c] = r]
        /\ req' = [req EXCEPT ![r].pc = "count"]
  /\ UNCHANGED <<rooms, users, pooled, faults>>

\* Mutant: off by one.
CountUsersOffByOne(r) ==
  LET n == Cardinality(In(req[r].code)) IN
  /\ req[r].pc = "count"
  /\ Reads(r, IF n > rooms[req[r].code].capacity
              THEN [req[r] EXCEPT !.pc = "rollback", !.next = "full"]
              ELSE [req[r] EXCEPT !.pc = "list", !.count = n])

\* SELECT COUNT(id): a query of its own, after the lock is granted.
CountUsers(r) ==
  LET n == Cardinality(In(req[r].code)) IN
  /\ req[r].pc = "count"
  /\ Reads(r, IF n >= rooms[req[r].code].capacity
              THEN [req[r] EXCEPT !.pc = "rollback", !.next = "full"]
              ELSE [req[r] EXCEPT !.pc = "list", !.count = n])

\* Mutant: getActiveUsersInRoom without the transaction's client takes another one.
ListUsersOnOwnClient(r) ==
  /\ req[r].pc = "list"
  /\ Cardinality(pooled) < PoolSize
  /\ Reads(r, [req[r] EXCEPT !.pc = "insertUser",
                             !.color = ColorFor(rooms[req[r].code].seed, In(req[r].code))])

\* getActiveUsersInRoom, and the choice of the color.
ListUsers(r) ==
  /\ req[r].pc = "list"
  /\ Reads(r, [req[r] EXCEPT !.pc = "insertUser",
                             !.color = ColorFor(rooms[req[r].code].seed, In(req[r].code))])

-----------------------------------------------------------------------------
(* createRoom.                                                             *)

\* Mutant: the room is inserted on a client of its own, outside the transaction.
InsertRoomOutside(r) ==
  LET c == req[r].code IN
  /\ req[r].pc = "insertRoom"
  /\ ~Exists(c) /\ holder[c] = Nobody
  /\ \E s \in Seed :
       /\ rooms' = [rooms EXCEPT ![c] = [capacity |-> req[r].capacity, seed |-> s]]
       /\ req' = [req EXCEPT ![r].pc = "insertUser", ![r].seed = s,
                             ![r].color = ColorFor(s, {})]
  /\ holder' = [holder EXCEPT ![c] = r]
  /\ UNCHANGED <<users, pooled, faults>>

\* Mutant: one attempt too many.
InsertRoomOnceMore(r) ==
  LET c == req[r].code IN
  /\ req[r].pc = "insertRoom"
  /\ \/ /\ Exists(c)
        /\ RollbackTo(r, IF req[r].attempts > MaxAttempts THEN "failed" ELSE "retry")
        /\ UNCHANGED holder
     \/ /\ ~Exists(c) /\ holder[c] = Nobody
        /\ holder' = [holder EXCEPT ![c] = r]
        /\ \E s \in Seed :
             req' = [req EXCEPT ![r].pc = "insertUser", ![r].seed = s,
                                ![r].color = ColorFor(s, {})]
  /\ UNCHANGED <<rooms, users, pooled, faults>>

\* INSERT INTO rooms. A committed room with the code is a unique violation, which
\* rolls back and tries the next code, ten times in all.
InsertRoom(r) ==
  LET c == req[r].code IN
  /\ req[r].pc = "insertRoom"
  /\ \/ /\ Exists(c)
        /\ RollbackTo(r, IF req[r].attempts = MaxAttempts THEN "failed" ELSE "retry")
        /\ UNCHANGED holder
     \/ /\ ~Exists(c) /\ holder[c] = Nobody
        /\ holder' = [holder EXCEPT ![c] = r]
        /\ \E s \in Seed :
             req' = [req EXCEPT ![r].pc = "insertUser", ![r].seed = s,
                                ![r].color = ColorFor(s, {})]
  /\ UNCHANGED <<rooms, users, pooled, faults>>

-----------------------------------------------------------------------------
(* The end of either transaction.                                          *)

\* INSERT INTO users: the row is in the transaction until COMMIT.
InsertUser(r) ==
  /\ req[r].pc = "insertUser"
  /\ Reads(r, [req[r] EXCEPT !.pc = "commit"])

\* The transaction of r ends: its rows are unlocked, its client is back in the pool.
Release(r) ==
  /\ holder' = [c \in Code |-> IF holder[c] = r THEN Nobody ELSE holder[c]]
  /\ pooled' = pooled \ {r}

\* What COMMIT makes visible.
Committed(r) ==
  LET c == req[r].code IN
  /\ users' = users \cup {[who |-> r, room |-> c, color |-> req[r].color]}
  /\ rooms' = IF req[r].kind = "create"
              THEN [rooms EXCEPT ![c] = [capacity |-> req[r].capacity, seed |-> req[r].seed]]
              ELSE rooms
  /\ Release(r)

Commit(r) ==
  /\ req[r].pc = "commit"
  /\ Committed(r)
  /\ req' = [req EXCEPT ![r].pc = "ok"]
  /\ UNCHANGED faults

\* The transaction is undone. createRoom starts over with another code after a
\* collision.
Rollback(r) ==
  /\ req[r].pc = "rollback"
  /\ Release(r)
  /\ \/ /\ req[r].next # "retry"
        /\ req' = [req EXCEPT ![r].pc = req[r].next]
     \/ /\ req[r].next = "retry"
        /\ \E c \in Code :
             req' = [req EXCEPT ![r].pc = "connect", ![r].code = c, ![r].attempts = @ + 1]
  /\ UNCHANGED <<rooms, users, faults>>

-----------------------------------------------------------------------------
(* Faults.                                                                 *)

Fault == faults < MaxFaults /\ faults' = faults + 1

\* No client within connectionTimeoutMillis: the request fails.
ConnectTimesOut(r) ==
  /\ req[r].pc = "connect" /\ Fault
  /\ req' = [req EXCEPT ![r].pc = "failed"]
  /\ UNCHANGED <<rooms, users, holder, pooled>>

\* The connection breaks within the transaction. PostgreSQL undoes it; the query
\* and the ROLLBACK after it throw, and the client is released.
Break(r) ==
  /\ req[r].pc \in Queries /\ Fault
  /\ Release(r)
  /\ req' = [req EXCEPT ![r].pc = "failed"]
  /\ UNCHANGED <<rooms, users>>

\* The connection breaks after PostgreSQL committed and before its answer: the
\* request fails as above, with the user in the room.
LoseCommitReply(r) ==
  /\ req[r].pc = "commit" /\ Fault
  /\ Committed(r)
  /\ req' = [req EXCEPT ![r].pc = "lostReply"]

-----------------------------------------------------------------------------
Arrive(r) == CreateRoom(r) \/ JoinRoom(r)
Serve(r)  == \/ Connect(r) \/ FindRoom(r) \/ CountUsers(r) \/ ListUsers(r)
             \/ InsertRoom(r) \/ InsertUser(r) \/ Commit(r) \/ Rollback(r)
Faulty(r) == ConnectTimesOut(r) \/ Break(r) \/ LoseCommitReply(r)

Next == \E r \in Request : Arrive(r) \/ Serve(r) \/ Faulty(r)

Spec == Init /\ [][Next]_vars

\* PostgreSQL answers every query and grants a lock that is free; requests need
\* not arrive, and nothing has to break or time out.
FairSpec == Spec /\ \A r \in Request : WF_vars(Serve(r))

-----------------------------------------------------------------------------
(* Properties.                                                             *)

\* Requirement 4.3 and design Property 8: however many joinRoom requests race for
\* the last seat, a room never has more users than its capacity
\* (resolvers.ts:331-365, database.ts:185-220).
CapacityHolds ==
  \A c \in Code : Cardinality(In(c)) <= rooms[c].capacity

\* Two users of a room never wear the same color while there are colors for all
\* of them, creator included (color-assignment.ts:18-42).
ColorsDistinct ==
  \A c \in Code :
    Cardinality(In(c)) <= NumColors => Cardinality({u.color : u \in In(c)}) = Cardinality(In(c))

\* A transaction is all or nothing: a room is never without the user who created
\* it, and a request that was refused or failed left no user behind, unless the
\* answer to its COMMIT was lost (database.ts:76-91, resolvers.ts:252-293).
AllOrNothing ==
  /\ \A c \in Code : Exists(c) <=> In(c) # {}
  /\ \A r \in Request :
       (\E u \in users : u.who = r) <=> req[r].pc \in {"ok", "lostReply"}

\* Every request is answered: transactions that wait for the pool, for a row lock
\* or for the fate of a code never wait for each other in a circle
\* (database.ts:76-91 passes one client to every query of a transaction).
EveryRequestAnswered ==
  \A r \in Request : req[r].pc = "connect" ~> req[r].pc \in Answers

\* The service implements RoomSeats: what is committed changes only by opening a
\* room with its creator or by taking a free seat in a fresh color.
Seats == INSTANCE RoomSeats
  WITH Person <- Request,
       capacity <- [c \in Code |-> rooms[c].capacity],
       seats <- [c \in Code |-> {[who |-> u.who, color |-> u.color] : u \in In(c)}]
ImplementsSeats == Seats!Spec

=============================================================================
