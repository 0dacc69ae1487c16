-------------------------------- MODULE Presence --------------------------------
(***************************************************************************)
(* Presence in one room: the connection handler of the canvas service and  *)
(* its disconnect listener (services/canvas-service/src/index.ts), run by  *)
(* several instances of the service over one Redis set of active users.    *)
(*                                                                         *)
(* A user may have several sockets, on one instance or on several: a       *)
(* second tab, or a reconnection while the old socket has not timed out.   *)
(* The set holds user ids, not sockets. Each instance has one connection   *)
(* to Redis, which executes its commands in order; the commands of two     *)
(* instances interleave.                                                   *)
(***************************************************************************)
EXTENDS Naturals, Sequences, SequencesExt

CONSTANTS
  Socket,     \* socket.io connections, each used once
  User,
  Instance,   \* processes of the canvas service
  MaxFaults   \* bound: crashes and lost Redis connections in a behaviour

ASSUME PresenceAssumption == MaxFaults \in Nat /\ User # {} /\ Instance # {}

VARIABLES
  sock,         \* [Socket -> owner, instance, transport and place in the handler]
  conn,         \* [Instance -> SADD and SREM commands not yet answered]
  link,         \* [Instance -> "up", or "closed" for good]
  activeUsers,  \* the set canvas:room:<id>:active_users
  announced,    \* [Socket -> user-joined and user-left sent for it to the room]
  faults        \* faults so far (bound)

vars == <<sock, conn, link, activeUsers, announced, faults>>

\* at: "adding" awaits SADD; from "listening" on the disconnect listener is there.
SocketState == [at : {"new", "adding", "listening", "left", "dead"},
                up : BOOLEAN, user : User, instance : Instance]
Command == [op : {"sadd", "srem"}, socket : Socket]

TypeOK ==
  /\ sock \in [Socket -> SocketState]
  /\ conn \in [Instance -> Seq(Command)]
  /\ link \in [Instance -> {"up", "closed"}]
  /\ activeUsers \subseteq User
  /\ announced \in [Socket -> Seq({"joined", "left"})]
  /\ faults \in 0..MaxFaults

Init ==
  /\ sock = [s \in Socket |-> [at |-> "new", up |-> FALSE,
                               user |-> CHOOSE u \in User : TRUE,
                               instance |-> CHOOSE i \in Instance : TRUE]]
  /\ conn = [i \in Instance |-> <<>>]
  /\ link = [i \in Instance |-> "up"]
  /\ activeUsers = {}
  /\ announced = [s \in Socket |-> <<>>]
  /\ faults = 0

Announce(s, what) == announced' = [announced EXCEPT ![s] = Append(@, what)]
Write(i, c) == conn' = [conn EXCEPT ![i] = Append(@, c)]

-----------------------------------------------------------------------------

\* A client connects: it joins the room, its drawing handlers are installed, and
\* SADD is written. Without Redis the error is caught and the handler goes on.
Connect(s, u, i) ==
  /\ sock[s].at = "new"
  /\ \/ /\ link[i] = "up"
        /\ sock' = [sock EXCEPT ![s] = [at |-> "adding", up |-> TRUE, user |-> u, instance |-> i]]
        /\ Write(i, [op |-> "sadd", socket |-> s])
        /\ UNCHANGED announced
     \/ /\ link[i] = "closed"
        /\ sock' = [sock EXCEPT ![s] = [at |-> "listening", up |-> TRUE, user |-> u, instance |-> i]]
        /\ Announce(s, "joined")
        /\ UNCHANGED conn
  /\ UNCHANGED <<link, activeUsers, faults>>

\* Mutant: the disconnect listener is installed before the await.
DisconnectFromTheStart(s) ==
  /\ sock[s].at \in {"adding", "listening"} /\ sock[s].up
  /\ sock' = [sock EXCEPT ![s].at = "left", ![s].up = FALSE]
  /\ Announce(s, "left")
  /\ IF link[sock[s].instance] = "up"
     THEN Write(sock[s].instance, [op |-> "srem", socket |-> s])
     ELSE UNCHANGED conn
  /\ UNCHANGED <<link, activeUsers, faults>>

\* Mutant: the listener forgets SREM.
DisconnectKeepsUser(s) ==
  /\ sock[s].at \in {"adding", "listening"} /\ sock[s].up
  /\ \/ /\ sock[s].at = "adding"
        /\ sock' = [sock EXCEPT ![s].up = FALSE]
        /\ UNCHANGED announced
     \/ /\ sock[s].at = "listening"
        /\ sock' = [sock EXCEPT ![s].at = "left", ![s].up = FALSE]
        /\ Announce(s, "left")
  /\ UNCHANGED <<conn, link, activeUsers, faults>>

\* The transport closes. The listener announces the departure and writes SREM; it
\* does not run for a socket that closes before it is installed.
Disconnect(s) ==
  /\ sock[s].at \in {"adding", "listening"} /\ sock[s].up
  /\ \/ /\ sock[s].at = "adding"
        /\ sock' = [sock EXCEPT ![s].up = FALSE]
        /\ UNCHANGED <<conn, announced>>
     \/ /\ sock[s].at = "listening"
        /\ sock' = [sock EXCEPT ![s].at = "left", ![s].up = FALSE]
        /\ Announce(s, "left")
        /\ IF link[sock[s].instance] = "up"
           THEN Write(sock[s].instance, [op |-> "srem", socket |-> s])
           ELSE UNCHANGED conn
  /\ UNCHANGED <<link, activeUsers, faults>>

\* Mutant: SADD adds the socket instead of its user.
ExecutedForSocket(set, c) ==
  IF c.op = "sadd" THEN set \cup {c.socket} ELSE set \ {sock[c.socket].user}

\* Mutant: DEL of the whole set instead of SREM.
ExecutedDel(set, c) ==
  IF c.op = "sadd" THEN set \cup {sock[c.socket].user} ELSE {}

\* Redis executes a command on the set of active users.
Executed(set, c) ==
  IF c.op = "sadd" THEN set \cup {sock[c.socket].user} ELSE set \ {sock[c.socket].user}

\* Redis answers the oldest command of an instance. After SADD the handler
\* announces the user, whether the socket is still there or not, and installs the
\* disconnect listener.
Answer(i) ==
  /\ conn[i] # <<>>
  /\ LET c == Head(conn[i]) IN
     /\ activeUsers' = Executed(activeUsers, c)
     /\ \/ /\ c.op = "sadd"
           /\ sock' = [sock EXCEPT ![c.socket].at = "listening"]
           /\ Announce(c.socket, "joined")
        \/ /\ c.op = "srem"
           /\ UNCHANGED <<sock, announced>>
  /\ conn' = [conn EXCEPT ![i] = Tail(@)]
  /\ UNCHANGED <<link, faults>>

-----------------------------------------------------------------------------
(* Faults. Whatever was written may or may not have reached Redis.         *)

Fault == faults < MaxFaults /\ faults' = faults + 1

\* Some of the waiting commands, the oldest, were executed: of a user's the last one counts.
Reached(i) ==
  \E n \in 0..Len(conn[i]) :
    activeUsers' = {u \in User :
      LET its == {k \in 1..n : sock[conn[i][k].socket].user = u}
      IN  u \in IF its = {} THEN activeUsers ELSE Executed(activeUsers, conn[i][Max(its)])}

\* An instance dies with its sockets, and is started again.
Crash(i) ==
  /\ Fault
  /\ Reached(i)
  /\ conn' = [conn EXCEPT ![i] = <<>>]
  /\ link' = [link EXCEPT ![i] = "up"]
  /\ sock' = [s \in Socket |-> IF sock[s].instance = i /\ sock[s].at # "new"
                               THEN [sock[s] EXCEPT !.at = "dead", !.up = FALSE]
                               ELSE sock[s]]
  /\ UNCHANGED announced

\* The connection to Redis closes for good: the waiting commands fail. The
\* handlers that await SADD catch the error and go on.
GiveUp(i) ==
  LET waiting == {s \in Socket : sock[s].at = "adding" /\ sock[s].instance = i} IN
  /\ link[i] = "up"
  /\ Fault
  /\ Reached(i)
  /\ conn' = [conn EXCEPT ![i] = <<>>]
  /\ link' = [link EXCEPT ![i] = "closed"]
  /\ sock' = [s \in Socket |-> IF s \in waiting THEN [sock[s] EXCEPT !.at = "listening"]
                               ELSE sock[s]]
  /\ announced' = [s \in Socket |-> IF s \in waiting THEN Append(announced[s], "joined")
                                    ELSE announced[s]]

-----------------------------------------------------------------------------
Next ==
  \/ \E s \in Socket : \/ Disconnect(s)
                       \/ \E u \in User, i \in Instance : Connect(s, u, i)
  \/ \E i \in Instance : Answer(i) \/ Crash(i) \/ GiveUp(i)

Spec == Init /\ [][Next]_vars

-----------------------------------------------------------------------------
(* Properties.                                                             *)

SocketsOf(u) == {s \in Socket : sock[s].user = u /\ sock[s].at # "new"}
Here(u) == \E s \in SocketsOf(u) : sock[s].up
Settled(u) == \A i \in Instance : \A k \in DOMAIN conn[i] : sock[conn[i][k].socket].user # u

\* The socket closed while its SADD was in flight: its listener never runs.
Missed(s) == sock[s].at = "listening" /\ ~sock[s].up

\* The room hears of a socket's arrival before it hears of its departure, and of
\* each at most once, with instances and Redis failing at any point
\* (index.ts:805-825).
JoinedBeforeLeft ==
  \A s \in Socket : IsPrefix(announced[s], <<"joined", "left">>)

\* The only way in which a user who left can stay among the active users while
\* Redis and the instances work: a socket that closed before its disconnect
\* listener was installed (index.ts:799-829).
GhostsAreMissedDisconnects ==
  \A u \in User :
    u \in activeUsers /\ ~Here(u) /\ Settled(u) /\ faults = 0
      => \E s \in SocketsOf(u) : Missed(s)

\* The only way in which a user who is here can be missing from the active users
\* while Redis and the instances work: another socket of the same user left.
MissingAfterSecondSocket ==
  \A u \in User :
    Here(u) /\ u \notin activeUsers /\ Settled(u) /\ faults = 0
      => \E s \in SocketsOf(u) : sock[s].at = "left"

\* "Ensure user metadata is cleaned up to prevent stale presence" (index.ts:828),
\* stated where nothing fails: a user without a socket is not an active user.
NoStalePresence ==
  \A u \in User : u \in activeUsers /\ Settled(u) /\ faults = 0 => Here(u)

=============================================================================
