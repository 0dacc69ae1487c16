----------------------------- MODULE PresenceProofs -----------------------------
(***************************************************************************)
(* Presence, proved for any number of sockets, users, instances and        *)
(* faults: its types, the order of its announcements, and the two ways in  *)
(* which the set of active users can be wrong while nothing fails.         *)
(***************************************************************************)
EXTENDS Presence, SequenceTheorems, TLAPS

\* What the room has heard of a socket is what its place in the handler says.
Heard ==
  \A s \in Socket :
    /\ sock[s].at \in {"new", "adding"} => announced[s] = <<>>
    /\ sock[s].at = "listening" => announced[s] = <<"joined">>
    /\ sock[s].at = "left" => announced[s] = <<"joined", "left">>
    /\ sock[s].at = "dead" => announced[s] \in {<<>>, <<"joined">>, <<"joined", "left">>}

\* A command waits at the instance of its socket, SADD while its handler awaits it and
\* SREM after it left; a socket has one SADD, and has it while it is adding.
Commands ==
  \A i \in Instance : \A k \in DOMAIN conn[i] :
    /\ sock[conn[i][k].socket].instance = i
    /\ sock[conn[i][k].socket].at = IF conn[i][k].op = "sadd" THEN "adding" ELSE "left"
Single ==
  \A i \in Instance : \A k, l \in DOMAIN conn[i] :
    conn[i][k].op = "sadd" /\ conn[i][l] = conn[i][k] => k = l
Waits(s) ==
  \E k \in DOMAIN conn[sock[s].instance] :
    conn[sock[s].instance][k] = [op |-> "sadd", socket |-> s]
Awaited == \A s \in Socket : sock[s].at = "adding" => Waits(s)

Present == \A s \in Socket : sock[s].up => sock[s].at \in {"adding", "listening"}

\* A reason for a user to be active: a socket that is adding or listening, or a
\* departure that Redis has not executed yet.
Leaving(u) ==
  \E i \in Instance : \E k \in DOMAIN conn[i] :
    conn[i][k].op = "srem" /\ sock[conn[i][k].socket].user = u
Reason(u) ==
  \/ \E s \in Socket : sock[s].user = u /\ sock[s].at \in {"adding", "listening"}
  \/ Leaving(u)
HasLeft(u) == \E s \in Socket : sock[s].user = u /\ sock[s].at = "left"

\* While nothing fails, the active users have a reason to be, and a user who is
\* listening and not active has another socket that left.
Reasoned == faults = 0 => \A u \in activeUsers : Reason(u)
Counted ==
  faults = 0 => \A s \in Socket :
    sock[s].at = "listening" => sock[s].user \in activeUsers \/ HasLeft(sock[s].user)
Working ==
  faults = 0 => /\ \A i \in Instance : link[i] = "up"
                /\ \A s \in Socket : sock[s].at # "dead"

Invariant ==
  /\ TypeOK /\ Heard /\ Commands /\ Single /\ Awaited
  /\ Present /\ Working /\ Reasoned /\ Counted

-----------------------------------------------------------------------------
(* Queues.                                                                 *)

\* Writing a command keeps the others at their places.
LEMMA Written ==
  ASSUME NEW S, NEW q \in Seq(S), NEW c \in S
  PROVE  /\ Append(q, c) \in Seq(S)
         /\ Len(q) + 1 \in DOMAIN Append(q, c) /\ Append(q, c)[Len(q) + 1] = c
         /\ \A k \in DOMAIN q : k \in DOMAIN Append(q, c) /\ Append(q, c)[k] = q[k]
         /\ \A k \in DOMAIN Append(q, c) : k \in DOMAIN q \/ k = Len(q) + 1
         /\ Len(q) + 1 \notin DOMAIN q
<1>1. /\ Append(q, c) \in Seq(S) /\ Len(Append(q, c)) = Len(q) + 1
      /\ \A k \in 1..Len(q) : Append(q, c)[k] = q[k]
      /\ Append(q, c)[Len(q) + 1] = c
  BY AppendProperties
<1>2. DOMAIN q = 1..Len(q) /\ DOMAIN Append(q, c) = 1..Len(Append(q, c)) /\ Len(q) \in Nat
  BY <1>1, LenProperties
<1> QED BY <1>1, <1>2

\* Answering the oldest command moves the others up by one.
LEMMA Answered ==
  ASSUME NEW S, NEW q \in Seq(S), q # <<>>
  PROVE  /\ Tail(q) \in Seq(S)
         /\ 1 \in DOMAIN q /\ Head(q) = q[1]
         /\ \A k \in DOMAIN Tail(q) : k + 1 \in DOMAIN q /\ Tail(q)[k] = q[k + 1] /\ k \in Nat \ {0}
         /\ \A k \in DOMAIN q : k # 1 => k - 1 \in DOMAIN Tail(q) /\ Tail(q)[k - 1] = q[k]
<1>1. /\ Tail(q) \in Seq(S) /\ Len(Tail(q)) = Len(q) - 1 /\ Len(q) \in Nat \ {0}
      /\ \A k \in 1..Len(Tail(q)) : Tail(q)[k] = q[k + 1]
  BY HeadTailProperties, EmptySeq, LenProperties
<1>2. DOMAIN q = 1..Len(q) /\ DOMAIN Tail(q) = 1..Len(Tail(q))
  BY <1>1, LenProperties
<1>3. Head(q) = q[1] /\ 1 \in DOMAIN q
  BY <1>1, <1>2
<1>4. ASSUME NEW k \in DOMAIN q, k # 1
      PROVE  k - 1 \in DOMAIN Tail(q) /\ Tail(q)[k - 1] = q[k]
  <2>1. k \in 2..Len(q) /\ k - 1 \in 1..Len(Tail(q)) /\ (k - 1) + 1 = k
    BY <1>1, <1>2, <1>4
  <2> QED BY <2>1, <1>1, <1>2
<1>5. ASSUME NEW k \in DOMAIN Tail(q)
      PROVE  k + 1 \in DOMAIN q /\ Tail(q)[k] = q[k + 1] /\ k \in Nat \ {0}
  BY <1>1, <1>2
<1> QED BY <1>1, <1>3, <1>4, <1>5

\* The two notices of a socket, one after the other.
LEMMA TwoNotices == Append(<<"joined">>, "left") = <<"joined", "left">>
<1> DEFINE q == <<"joined">>
           r == <<"joined", "left">>
           S == {"joined", "left"}
<1>1. q \in Seq(S) /\ Len(q) = 1 /\ q[1] = "joined" /\ "left" \in S
  OBVIOUS
<1>2. r \in Seq(S) /\ Len(r) = 2 /\ r[1] = "joined" /\ r[2] = "left"
  OBVIOUS
<1> HIDE DEF q, r, S
<1>3. Append(q, "left") \in Seq(S) /\ Len(Append(q, "left")) = 2
  <2> DEFINE e == "left"
  <2>1. e \in S
    BY <1>1
  <2> HIDE DEF e
  <2>2. Append(q, e) \in Seq(S) /\ Len(Append(q, e)) = Len(q) + 1
    BY <1>1, <2>1, AppendProperties
  <2> QED BY <1>1, <2>2 DEF e
<1>4. Append(q, "left")[1] = "joined" /\ Append(q, "left")[2] = "left"
  <2>1. 1 \in DOMAIN q /\ Len(q) + 1 = 2
    BY <1>1, LenProperties
  <2> QED BY <1>1, <2>1, Written
<1>5. \A k \in 1..Len(r) : Append(q, "left")[k] = r[k]
  BY <1>2, <1>4
<1>6. Append(q, "left") = r
  BY <1>2, <1>3, <1>5, SeqEqual
<1> QED BY <1>6 DEF q, r

\* A socket that is adding or has left has its handler's instance and user; what waits
\* in a queue is a command of such a socket.
LEMMA CommandFacts ==
  ASSUME TypeOK, Commands, NEW i \in Instance, NEW k \in DOMAIN conn[i]
  PROVE  /\ conn[i][k] \in Command /\ conn[i][k].socket \in Socket
         /\ conn[i][k].op \in {"sadd", "srem"}
         /\ conn[i][k] = [op |-> conn[i][k].op, socket |-> conn[i][k].socket]
         /\ sock[conn[i][k].socket].instance = i
         /\ conn[i][k].op = "sadd" => sock[conn[i][k].socket].at = "adding"
         /\ conn[i][k].op = "srem" => sock[conn[i][k].socket].at = "left"
<1>1. conn[i] \in Seq(Command)
  BY DEF TypeOK
<1>2. conn[i][k] \in Command
  BY <1>1, ElementOfSeq, LenProperties
<1>3. /\ conn[i][k].socket \in Socket /\ conn[i][k].op \in {"sadd", "srem"}
      /\ conn[i][k] = [op |-> conn[i][k].op, socket |-> conn[i][k].socket]
  BY <1>2 DEF Command
<1> QED BY <1>2, <1>3 DEF Commands

-----------------------------------------------------------------------------
(* The invariant is kept.                                                  *)

\* Nothing has connected yet.
LEMMA InvariantInit == Init => Invariant
<1> SUFFICES ASSUME Init PROVE Invariant
  OBVIOUS
<1> USE PresenceAssumption
<1>1. (CHOOSE u \in User : TRUE) \in User /\ (CHOOSE i \in Instance : TRUE) \in Instance
  OBVIOUS
<1>2. \A i \in Instance : conn[i] = <<>> /\ DOMAIN conn[i] = {} /\ conn[i] \in Seq(Command)
  BY DEF Init
<1>3. \A s \in Socket : /\ sock[s].at = "new" /\ ~sock[s].up /\ sock[s] \in SocketState
                        /\ announced[s] = <<>> /\ announced[s] \in Seq({"joined", "left"})
  BY <1>1 DEF Init, SocketState
<1>4. TypeOK
  <2>1. sock \in [Socket -> SocketState] /\ announced \in [Socket -> Seq({"joined", "left"})]
    BY <1>3 DEF Init
  <2>2. conn \in [Instance -> Seq(Command)]
    BY <1>2 DEF Init
  <2> QED BY <2>1, <2>2 DEF Init, TypeOK
<1>5. Heard /\ Awaited /\ Present /\ Counted
  BY <1>3 DEF Heard, Awaited, Present, Counted
<1>6. Commands /\ Single
  BY <1>2 DEF Commands, Single
<1>7. Working /\ Reasoned
  BY <1>3 DEF Init, Working, Reasoned
<1> QED BY <1>4, <1>5, <1>6, <1>7 DEF Invariant

\* A new socket has no command in a queue, so those there keep their sockets.
LEMMA ConnectKeeps ==
  ASSUME Invariant, NEW s \in Socket, NEW u \in User, NEW i \in Instance, Connect(s, u, i)
  PROVE  Invariant'
<1> USE DEF Invariant
<1>1. /\ sock[s].at = "new" /\ link' = link /\ activeUsers' = activeUsers /\ faults' = faults
      /\ sock \in [Socket -> SocketState] /\ conn \in [Instance -> Seq(Command)]
      /\ announced \in [Socket -> Seq({"joined", "left"})]
  BY DEF Connect, TypeOK
<1>2. \A j \in Instance : \A k \in DOMAIN conn[j] :
         conn[j][k].socket \in Socket \ {s} /\ conn[j][k] \in Command
  BY <1>1, CommandFacts
<1>3. announced[s] = <<>>
  BY <1>1 DEF Heard
<1>4. CASE link[i] = "up"
  <2> DEFINE c == [op |-> "sadd", socket |-> s]
             new == [at |-> "adding", up |-> TRUE, user |-> u, instance |-> i]
  <2>1. /\ sock' = [sock EXCEPT ![s] = new]
        /\ conn' = [conn EXCEPT ![i] = Append(conn[i], c)]
        /\ announced' = announced
    BY <1>4 DEF Connect, Write
  <2>2. c \in Command /\ new \in SocketState /\ c.op = "sadd" /\ c.socket = s
    BY DEF Command, SocketState
  <2>3. new.at = "adding" /\ new.up = TRUE /\ new.user = u /\ new.instance = i
    OBVIOUS
  <2> HIDE DEF c, new
  <2>4. conn[i] \in Seq(Command)
    BY <1>1
  <2>5. /\ sock'[s] = new
        /\ \A t \in Socket : t # s => sock'[t] = sock[t]
        /\ conn'[i] = Append(conn[i], c)
        /\ \A j \in Instance : j # i => conn'[j] = conn[j]
    BY <1>1, <2>1
  <2>6. /\ Len(conn[i]) + 1 \in DOMAIN conn'[i] /\ conn'[i][Len(conn[i]) + 1] = c
        /\ \A k \in DOMAIN conn[i] : k \in DOMAIN conn'[i] /\ conn'[i][k] = conn[i][k]
        /\ \A k \in DOMAIN conn'[i] : k \in DOMAIN conn[i] \/ k = Len(conn[i]) + 1
        /\ Append(conn[i], c) \in Seq(Command)
    BY <2>2, <2>4, <2>5, Written
  <2>7. TypeOK'
    <3>1. sock' \in [Socket -> SocketState] /\ conn' \in [Instance -> Seq(Command)]
      BY <1>1, <2>1, <2>2, <2>6
    <3> QED BY <1>1, <2>1, <3>1 DEF TypeOK
  <2>8. Heard'
    BY <1>3, <2>1, <2>3, <2>5 DEF Heard
  <2>9. Commands'
    <3> SUFFICES ASSUME NEW j \in Instance, NEW k \in DOMAIN conn'[j]
                 PROVE  /\ sock'[conn'[j][k].socket].instance = j
                        /\ sock'[conn'[j][k].socket].at =
                             IF conn'[j][k].op = "sadd" THEN "adding" ELSE "left"
      BY DEF Commands
    <3>1. CASE j = i /\ k = Len(conn[i]) + 1
      BY <2>2, <2>3, <2>5, <2>6, <3>1
    <3>2. CASE ~(j = i /\ k = Len(conn[i]) + 1)
      <4>1. k \in DOMAIN conn[j] /\ conn'[j][k] = conn[j][k]
        BY <2>5, <2>6, <3>2
      <4>2. sock'[conn[j][k].socket] = sock[conn[j][k].socket]
        BY <1>2, <2>5, <4>1
      <4> QED BY <4>1, <4>2 DEF Commands
    <3> QED BY <3>1, <3>2
  <2>10. Single'
    <3> SUFFICES ASSUME NEW j \in Instance, NEW k \in DOMAIN conn'[j], NEW l \in DOMAIN conn'[j],
                        conn'[j][k].op = "sadd", conn'[j][l] = conn'[j][k]
                 PROVE  k = l
      BY DEF Single
    <3>1. CASE j # i
      BY <2>5, <3>1 DEF Single
    <3>2. CASE j = i
      <4>1. \A m \in DOMAIN conn[i] : conn'[i][m] = conn[i][m] /\ conn[i][m] # c
        BY <1>2, <2>2, <2>6
      <4> QED BY <2>6, <3>2, <4>1 DEF Single
    <3> QED BY <3>1, <3>2
  <2>11. Awaited'
    <3> SUFFICES ASSUME NEW t \in Socket, sock'[t].at = "adding" PROVE Waits(t)'
      BY DEF Awaited
    <3>1. CASE t = s
      BY <2>3, <2>5, <2>6, <3>1 DEF Waits, c
    <3>2. CASE t # s
      <4>1. sock'[t] = sock[t] /\ Waits(t)
        BY <2>5, <3>2 DEF Awaited
      <4>2. PICK k \in DOMAIN conn[sock[t].instance] :
              conn[sock[t].instance][k] = [op |-> "sadd", socket |-> t]
        BY <4>1 DEF Waits
      <4>3. sock[t].instance \in Instance
        BY <1>1 DEF SocketState
      <4>4. k \in DOMAIN conn'[sock[t].instance] /\ conn'[sock[t].instance][k] = conn[sock[t].instance][k]
        BY <2>5, <2>6, <4>2, <4>3
      <4> QED BY <4>1, <4>2, <4>4 DEF Waits
    <3> QED BY <3>1, <3>2
  <2>12. Present' /\ Working'
    BY <1>1, <2>3, <2>5 DEF Present, Working
  <2>13. Reasoned'
    <3> SUFFICES ASSUME faults = 0, NEW v \in activeUsers PROVE Reason(v)'
      BY <1>1 DEF Reasoned
    <3>1. Reason(v)
      BY DEF Reasoned
    <3>2. CASE Leaving(v)
      <4>1. PICK j \in Instance : \E k \in DOMAIN conn[j] :
              conn[j][k].op = "srem" /\ sock[conn[j][k].socket].user = v
        BY <3>2 DEF Leaving
      <4>2. PICK k \in DOMAIN conn[j] : conn[j][k].op = "srem" /\ sock[conn[j][k].socket].user = v
        BY <4>1
      <4>3. k \in DOMAIN conn'[j] /\ conn'[j][k] = conn[j][k]
        BY <2>5, <2>6
      <4>4. sock'[conn[j][k].socket] = sock[conn[j][k].socket]
        BY <1>2, <2>5
      <4> QED BY <4>2, <4>3, <4>4 DEF Reason, Leaving
    <3>3. CASE \E t \in Socket : sock[t].user = v /\ sock[t].at \in {"adding", "listening"}
      BY <1>1, <2>5, <3>3 DEF Reason
    <3> QED BY <3>1, <3>2, <3>3 DEF Reason
  <2>14. Counted'
    BY <1>1, <2>3, <2>5 DEF Counted, HasLeft
  <2> QED BY <2>7, <2>8, <2>9, <2>10, <2>11, <2>12, <2>13, <2>14
<1>5. CASE link[i] = "closed"
  <2> DEFINE new == [at |-> "listening", up |-> TRUE, user |-> u, instance |-> i]
  <2>1. /\ sock' = [sock EXCEPT ![s] = new] /\ conn' = conn
        /\ announced' = [announced EXCEPT ![s] = Append(announced[s], "joined")]
    BY <1>5 DEF Connect, Announce
  <2>2. /\ new \in SocketState /\ new.at = "listening" /\ new.up = TRUE
        /\ new.user = u /\ new.instance = i
    BY DEF SocketState
  <2> HIDE DEF new
  <2>3. /\ sock'[s] = new
        /\ \A t \in Socket : t # s => sock'[t] = sock[t]
        /\ announced'[s] = <<"joined">>
        /\ \A t \in Socket : t # s => announced'[t] = announced[t]
    BY <1>1, <1>3, <2>1
  <2>4. faults # 0
    BY <1>5 DEF Working
  <2>5. TypeOK'
    <3>1. sock' \in [Socket -> SocketState] /\ announced' \in [Socket -> Seq({"joined", "left"})]
      BY <1>1, <2>1, <2>2, <2>3
    <3> QED BY <1>1, <2>1, <3>1 DEF TypeOK
  <2>6. Heard' /\ Present'
    BY <2>2, <2>3 DEF Heard, Present
  <2>7. Commands' /\ Single'
    BY <1>2, <2>1, <2>3 DEF Commands, Single
  <2>8. Awaited'
    <3> SUFFICES ASSUME NEW t \in Socket, sock'[t].at = "adding" PROVE Waits(t)'
      BY DEF Awaited
    <3>1. sock'[t] = sock[t] /\ conn' = conn
      BY <2>1, <2>2, <2>3
    <3>2. Waits(t)
      BY <3>1 DEF Awaited
    <3> QED BY <3>1, <3>2 DEF Waits
  <2>9. Working' /\ Reasoned' /\ Counted'
    BY <1>1, <2>4 DEF Working, Reasoned, Counted
  <2> QED BY <2>5, <2>6, <2>7, <2>8, <2>9
<1>6. link[i] \in {"up", "closed"}
  BY DEF TypeOK
<1> QED BY <1>4, <1>5, <1>6

\* A socket that closes while it is adding stays so, and one that is listening has no
\* command in a queue until its SREM is written.
LEMMA DisconnectKeeps ==
  ASSUME Invariant, NEW s \in Socket, Disconnect(s)
  PROVE  Invariant'
<1> USE DEF Invariant
<1>1. /\ link' = link /\ activeUsers' = activeUsers /\ faults' = faults
      /\ sock \in [Socket -> SocketState] /\ conn \in [Instance -> Seq(Command)]
      /\ announced \in [Socket -> Seq({"joined", "left"})]
      /\ sock[s].instance \in Instance /\ sock[s] \in SocketState
  BY DEF Disconnect, TypeOK, SocketState
<1>2. CASE sock[s].at = "adding"
  <2>1. sock' = [sock EXCEPT ![s].up = FALSE] /\ conn' = conn /\ announced' = announced
    BY <1>2 DEF Disconnect
  <2>2. /\ sock' \in [Socket -> SocketState]
        /\ \A t \in Socket : /\ sock'[t].at = sock[t].at /\ sock'[t].user = sock[t].user
                             /\ sock'[t].instance = sock[t].instance
                             /\ sock'[t].up => sock[t].up
    BY <1>1, <2>1 DEF SocketState
  <2>3. TypeOK'
    BY <1>1, <2>1, <2>2 DEF TypeOK
  <2>4. Heard' /\ Present' /\ Working'
    BY <1>1, <2>1, <2>2 DEF Heard, Present, Working
  <2>5. \A i \in Instance : \A k \in DOMAIN conn[i] : conn[i][k].socket \in Socket
    BY CommandFacts
  <2>6. Commands' /\ Single'
    BY <2>1, <2>2, <2>5 DEF Commands, Single
  <2>7. Awaited'
    <3> SUFFICES ASSUME NEW t \in Socket, sock'[t].at = "adding" PROVE Waits(t)'
      BY DEF Awaited
    <3>1. sock'[t].instance = sock[t].instance /\ Waits(t)
      BY <2>2 DEF Awaited
    <3> QED BY <2>1, <3>1 DEF Waits
  <2>8. \A v \in User : Reason(v) => Reason(v)'
    BY <2>1, <2>2, <2>5 DEF Reason, Leaving
  <2>9. activeUsers \subseteq User
    BY DEF TypeOK
  <2>10. Reasoned'
    BY <1>1, <2>8, <2>9 DEF Reasoned
  <2>11. Counted'
    <3> SUFFICES ASSUME faults = 0, NEW t \in Socket, sock'[t].at = "listening"
                 PROVE  (sock[t].user \in activeUsers \/ HasLeft(sock[t].user))'
      BY <1>1 DEF Counted
    <3>2. /\ sock[t].at = "listening" /\ sock'[t].user = sock[t].user /\ sock[t].user \in User
      BY <1>1, <2>2 DEF SocketState
    <3>3. sock[t].user \in activeUsers \/ HasLeft(sock[t].user)
      BY <3>2 DEF Counted
    <3>4. HasLeft(sock[t].user) => HasLeft(sock[t].user)'
      BY <2>2 DEF HasLeft
    <3> QED BY <1>1, <3>2, <3>3, <3>4
  <2> QED BY <2>3, <2>4, <2>6, <2>7, <2>10, <2>11
<1>3. CASE sock[s].at = "listening"
  <2> DEFINE i == sock[s].instance
             c == [op |-> "srem", socket |-> s]
  <2>1. /\ sock' = [sock EXCEPT ![s].at = "left", ![s].up = FALSE]
        /\ announced' = [announced EXCEPT ![s] = Append(announced[s], "left")]
        /\ \/ link[i] = "up" /\ conn' = [conn EXCEPT ![i] = Append(conn[i], c)]
           \/ link[i] # "up" /\ conn' = conn
    BY <1>3 DEF Disconnect, Announce, Write
  <2>2. c \in Command /\ c.op = "srem" /\ c.socket = s
    BY DEF Command
  <2>3. /\ sock' \in [Socket -> SocketState]
        /\ \A t \in Socket : t # s => sock'[t] = sock[t]
        /\ sock'[s].at = "left" /\ ~sock'[s].up
        /\ sock'[s].user = sock[s].user /\ sock'[s].instance = i
    BY <1>1, <2>1 DEF SocketState
  <2>4. announced[s] = <<"joined">>
    BY <1>3 DEF Heard
  <2>5. /\ announced' \in [Socket -> Seq({"joined", "left"})]
        /\ announced'[s] = <<"joined", "left">>
        /\ \A t \in Socket : t # s => announced'[t] = announced[t]
    <3>1. Append(<<"joined">>, "left") = <<"joined", "left">>
      BY TwoNotices
    <3>2. /\ announced'[s] = <<"joined", "left">>
          /\ \A t \in Socket : t # s => announced'[t] = announced[t]
      BY <1>1, <2>1, <2>4, <3>1
    <3>3. <<"joined", "left">> \in Seq({"joined", "left"})
      OBVIOUS
    <3> QED BY <1>1, <2>1, <3>2, <3>3
  <2>6. i \in Instance /\ conn[i] \in Seq(Command)
    BY <1>1
  <2> HIDE DEF i, c
  <2>7. \A j \in Instance : \A k \in DOMAIN conn[j] : conn[j][k].socket \in Socket \ {s}
    <3> SUFFICES ASSUME NEW j \in Instance, NEW k \in DOMAIN conn[j]
                 PROVE  conn[j][k].socket \in Socket \ {s}
      OBVIOUS
    <3>1. conn[j][k].socket \in Socket
      BY CommandFacts
    <3>2. sock[conn[j][k].socket].at \in {"adding", "left"}
      BY DEF Commands
    <3> QED BY <1>3, <3>1, <3>2
  <2>8. /\ \A j \in Instance : \A k \in DOMAIN conn[j] :
             k \in DOMAIN conn'[j] /\ conn'[j][k] = conn[j][k]
        /\ \A j \in Instance : \A k \in DOMAIN conn'[j] :
             \/ k \in DOMAIN conn[j]
             \/ j = i /\ k = Len(conn[i]) + 1 /\ conn'[j][k] = c
        /\ conn' \in [Instance -> Seq(Command)]
    <3>1. CASE conn' = conn
      BY <1>1, <3>1
    <3>2. CASE conn' = [conn EXCEPT ![i] = Append(conn[i], c)]
      <4>1. /\ conn'[i] = Append(conn[i], c)
            /\ \A j \in Instance : j # i => conn'[j] = conn[j]
        BY <1>1, <2>6, <3>2
      <4>2. /\ Append(conn[i], c)[Len(conn[i]) + 1] = c /\ Append(conn[i], c) \in Seq(Command)
            /\ \A k \in DOMAIN conn[i] :
                 k \in DOMAIN Append(conn[i], c) /\ Append(conn[i], c)[k] = conn[i][k]
            /\ \A k \in DOMAIN Append(conn[i], c) : k \in DOMAIN conn[i] \/ k = Len(conn[i]) + 1
        BY <2>2, <2>6, Written
      <4>3. conn' \in [Instance -> Seq(Command)]
        BY <1>1, <3>2, <4>2
      <4> QED BY <4>1, <4>2, <4>3
    <3> QED BY <2>1, <3>1, <3>2
  <2>9. TypeOK'
    BY <1>1, <2>3, <2>5, <2>8 DEF TypeOK
  <2>10. Heard' /\ Present'
    BY <2>3, <2>5 DEF Heard, Present
  <2>11. Working'
    BY <1>1, <2>3 DEF Working
  <2>12. Commands'
    <3> SUFFICES ASSUME NEW j \in Instance, NEW k \in DOMAIN conn'[j]
                 PROVE  /\ sock'[conn'[j][k].socket].instance = j
                        /\ sock'[conn'[j][k].socket].at =
                             IF conn'[j][k].op = "sadd" THEN "adding" ELSE "left"
      BY DEF Commands
    <3>1. CASE k \in DOMAIN conn[j]
      <4>1. conn'[j][k] = conn[j][k] /\ sock'[conn[j][k].socket] = sock[conn[j][k].socket]
        BY <2>3, <2>7, <2>8, <3>1
      <4> QED BY <3>1, <4>1 DEF Commands
    <3>2. CASE j = i /\ conn'[j][k] = c
      BY <2>2, <2>3, <3>2
    <3> QED BY <2>8, <3>1, <3>2
  <2>13. Single'
    <3> SUFFICES ASSUME NEW j \in Instance, NEW k \in DOMAIN conn'[j], NEW l \in DOMAIN conn'[j],
                        conn'[j][k].op = "sadd", conn'[j][l] = conn'[j][k]
                 PROVE  k = l
      BY DEF Single
    <3>1. conn'[j][k] # c /\ conn'[j][l] # c
      BY <2>2
    <3>2. k \in DOMAIN conn[j] /\ l \in DOMAIN conn[j]
      BY <2>8, <3>1
    <3>3. conn'[j][k] = conn[j][k] /\ conn'[j][l] = conn[j][l]
      BY <2>8, <3>2
    <3> QED BY <3>2, <3>3 DEF Single
  <2>14. Awaited'
    <3> SUFFICES ASSUME NEW t \in Socket, sock'[t].at = "adding" PROVE Waits(t)'
      BY DEF Awaited
    <3>1. sock'[t] = sock[t] /\ Waits(t) /\ sock[t].instance \in Instance
      BY <1>1, <2>3 DEF Awaited, SocketState
    <3>2. PICK k \in DOMAIN conn[sock[t].instance] :
            conn[sock[t].instance][k] = [op |-> "sadd", socket |-> t]
      BY <3>1 DEF Waits
    <3>3. k \in DOMAIN conn'[sock[t].instance] /\ conn'[sock[t].instance][k] = conn[sock[t].instance][k]
      BY <2>8, <3>1, <3>2
    <3> QED BY <3>1, <3>2, <3>3 DEF Waits
  <2>15. Reasoned'
    <3> SUFFICES ASSUME faults = 0, NEW v \in activeUsers PROVE Reason(v)'
      BY <1>1 DEF Reasoned
    <3>1. Reason(v)
      BY DEF Reasoned
    <3>2. CASE Leaving(v)
      <4>1. PICK j \in Instance : \E k \in DOMAIN conn[j] :
              conn[j][k].op = "srem" /\ sock[conn[j][k].socket].user = v
        BY <3>2 DEF Leaving
      <4>2. PICK k \in DOMAIN conn[j] : conn[j][k].op = "srem" /\ sock[conn[j][k].socket].user = v
        BY <4>1
      <4>3. k \in DOMAIN conn'[j] /\ conn'[j][k] = conn[j][k]
        BY <2>8
      <4>4. sock'[conn[j][k].socket] = sock[conn[j][k].socket]
        BY <2>3, <2>7
      <4> QED BY <4>2, <4>3, <4>4 DEF Reason, Leaving
    <3>3. CASE sock[s].user = v
      <4>1. link[i] = "up"
        BY <2>6 DEF Working
      <4>2. conn'[i] = Append(conn[i], c)
        BY <1>1, <2>1, <2>6, <4>1
      <4>3. Len(conn[i]) + 1 \in DOMAIN conn'[i] /\ conn'[i][Len(conn[i]) + 1] = c
        BY <2>2, <2>6, <4>2, Written
      <4> QED BY <2>2, <2>3, <2>6, <3>3, <4>3 DEF Reason, Leaving
    <3>4. CASE \E t \in Socket \ {s} : sock[t].user = v /\ sock[t].at \in {"adding", "listening"}
      BY <2>3, <3>4 DEF Reason
    <3> QED BY <3>1, <3>2, <3>3, <3>4 DEF Reason
  <2>16. Counted'
    BY <1>1, <2>3 DEF Counted, HasLeft
  <2> QED BY <2>9, <2>10, <2>11, <2>12, <2>13, <2>14, <2>15, <2>16
<1> QED BY <1>2, <1>3 DEF Disconnect

\* The oldest command goes. If it is the SADD of a socket, that was the socket's only
\* command, so the others keep their sockets.
LEMMA AnswerKeeps ==
  ASSUME Invariant, NEW i \in Instance, Answer(i)
  PROVE  Invariant'
<1> USE DEF Invariant
<1> DEFINE c == Head(conn[i])
           s == c.socket
<1>1. /\ link' = link /\ faults' = faults /\ activeUsers' = Executed(activeUsers, c)
      /\ conn' = [conn EXCEPT ![i] = Tail(conn[i])] /\ conn[i] # <<>>
      /\ \/ /\ c.op = "sadd" /\ sock' = [sock EXCEPT ![s].at = "listening"]
            /\ announced' = [announced EXCEPT ![s] = Append(announced[s], "joined")]
         \/ c.op = "srem" /\ sock' = sock /\ announced' = announced
  BY DEF Answer, Announce
<1>2. /\ sock \in [Socket -> SocketState] /\ conn \in [Instance -> Seq(Command)]
      /\ announced \in [Socket -> Seq({"joined", "left"})] /\ activeUsers \subseteq User
      /\ conn[i] \in Seq(Command)
  BY DEF TypeOK
<1>3. /\ 1 \in DOMAIN conn[i] /\ c = conn[i][1] /\ Tail(conn[i]) \in Seq(Command)
      /\ \A k \in DOMAIN Tail(conn[i]) :
           k + 1 \in DOMAIN conn[i] /\ Tail(conn[i])[k] = conn[i][k + 1] /\ k \in Nat \ {0}
      /\ \A k \in DOMAIN conn[i] :
           k # 1 => k - 1 \in DOMAIN Tail(conn[i]) /\ Tail(conn[i])[k - 1] = conn[i][k]
  BY <1>1, <1>2, Answered
<1> HIDE DEF c
<1>4. /\ s \in Socket /\ c.op \in {"sadd", "srem"} /\ c = [op |-> c.op, socket |-> s]
      /\ sock[s].instance = i
      /\ c.op = "sadd" => sock[s].at = "adding"
      /\ c.op = "srem" => sock[s].at = "left"
  <2>1. /\ conn[i][1].socket \in Socket /\ conn[i][1].op \in {"sadd", "srem"}
        /\ conn[i][1] = [op |-> conn[i][1].op, socket |-> conn[i][1].socket]
        /\ sock[conn[i][1].socket].instance = i
    BY <1>3, CommandFacts
  <2>2. sock[conn[i][1].socket].at = IF conn[i][1].op = "sadd" THEN "adding" ELSE "left"
    BY <1>3 DEF Commands
  <2> QED BY <1>3, <2>1, <2>2
<1> HIDE DEF s
<1>5. /\ conn'[i] = Tail(conn[i]) /\ \A j \in Instance : j # i => conn'[j] = conn[j]
      /\ conn' \in [Instance -> Seq(Command)]
  BY <1>1, <1>2, <1>3
<1>6. /\ sock' \in [Socket -> SocketState]
      /\ \A t \in Socket : /\ sock'[t].user = sock[t].user /\ sock'[t].up = sock[t].up
                           /\ sock'[t].instance = sock[t].instance
                           /\ t # s \/ c.op = "srem" => sock'[t].at = sock[t].at
      /\ c.op = "sadd" => sock'[s].at = "listening"
  <2>1. CASE c.op = "sadd"
    <3>1. sock' = [sock EXCEPT ![s].at = "listening"]
      BY <1>1, <2>1
    <3> QED BY <1>2, <1>4, <2>1, <3>1 DEF SocketState
  <2>2. CASE c.op = "srem"
    BY <1>1, <1>2, <2>2
  <2> QED BY <1>4, <2>1, <2>2
\* Where a command that is still there was.
<1>7. ASSUME NEW j \in Instance, NEW k \in DOMAIN conn'[j]
      PROVE  \E m \in DOMAIN conn[j] : /\ conn'[j][k] = conn[j][m]
                                        /\ m = IF j = i THEN k + 1 ELSE k
  BY <1>3, <1>5
\* Where a command that is not the one answered is now.
<1>8. ASSUME NEW j \in Instance, NEW m \in DOMAIN conn[j], j # i \/ conn[j][m] # c
      PROVE  \E k \in DOMAIN conn'[j] : conn'[j][k] = conn[j][m]
  <2>1. CASE j # i
    BY <1>5, <2>1
  <2>2. CASE j = i
    <3>1. m \in DOMAIN conn[i] /\ m # 1
      BY <1>3, <1>8, <2>2
    <3>2. m - 1 \in DOMAIN conn'[i] /\ conn'[i][m - 1] = conn[i][m]
      BY <1>3, <1>5, <3>1
    <3> QED BY <2>2, <3>2
  <2> QED BY <2>1, <2>2
<1>9. TypeOK'
  <2>1. announced' \in [Socket -> Seq({"joined", "left"})]
    <3>1. CASE announced' = announced
      BY <1>2, <3>1
    <3>2. CASE c.op = "sadd"
      <4>1. Append(announced[s], "joined") = <<"joined">>
        <5>1. announced[s] = <<>>
          BY <1>4, <3>2 DEF Heard
        <5> QED BY <5>1
      <4>2. <<"joined">> \in Seq({"joined", "left"})
        OBVIOUS
      <4> QED BY <1>1, <1>2, <3>2, <4>1, <4>2
    <3> QED BY <1>1, <3>1, <3>2
  <2>2. activeUsers' \subseteq User
    BY <1>1, <1>2, <1>4 DEF Executed, SocketState, s
  <2> QED BY <1>1, <1>5, <1>6, <2>1, <2>2 DEF TypeOK
<1>10. Heard'
  <2>1. CASE c.op = "sadd"
    <3>1. Append(announced[s], "joined") = <<"joined">>
      <4>1. announced[s] = <<>>
        BY <1>4, <2>1 DEF Heard
      <4> QED BY <4>1
    <3>2. announced'[s] = <<"joined">> /\ \A t \in Socket : t # s => announced'[t] = announced[t]
      BY <1>1, <1>2, <1>4, <2>1, <3>1
    <3> QED BY <1>4, <1>6, <2>1, <3>2 DEF Heard
  <2>2. CASE c.op = "srem"
    BY <1>1, <2>2 DEF Heard
  <2> QED BY <1>4, <2>1, <2>2
<1>11. Commands'
  <2> SUFFICES ASSUME NEW j \in Instance, NEW k \in DOMAIN conn'[j]
               PROVE  /\ sock'[conn'[j][k].socket].instance = j
                      /\ sock'[conn'[j][k].socket].at =
                           IF conn'[j][k].op = "sadd" THEN "adding" ELSE "left"
    BY DEF Commands
  <2>1. PICK m \in DOMAIN conn[j] : conn'[j][k] = conn[j][m] /\ m = IF j = i THEN k + 1 ELSE k
    BY <1>7
  <2>2. /\ conn[j][m].socket \in Socket /\ sock[conn[j][m].socket].instance = j
        /\ sock[conn[j][m].socket].at = IF conn[j][m].op = "sadd" THEN "adding" ELSE "left"
        /\ conn[j][m] = [op |-> conn[j][m].op, socket |-> conn[j][m].socket]
        /\ conn[j][m].op \in {"sadd", "srem"}
    BY CommandFacts DEF Commands
  <2>3. CASE c.op = "sadd"
    <3>1. conn[j][m].socket # s
      <4> SUFFICES ASSUME conn[j][m].socket = s PROVE FALSE
        OBVIOUS
      <4>1. j = i /\ conn[j][m].op = "sadd"
        BY <1>4, <2>2, <2>3
      <4>2. conn[i][m] = conn[i][1] /\ conn[i][1].op = "sadd"
        BY <1>3, <1>4, <2>2, <2>3, <4>1
      <4>3. m = 1
        BY <1>3, <4>1, <4>2 DEF Single
      <4>4. m = k + 1 /\ k \in Nat \ {0}
        BY <1>3, <1>5, <2>1, <4>1
      <4> QED BY <4>3, <4>4
    <3>2. sock'[conn[j][m].socket].at = sock[conn[j][m].socket].at
      BY <1>6, <2>2, <3>1
    <3> QED BY <1>6, <2>1, <2>2, <3>2
  <2>4. CASE c.op = "srem"
    BY <1>6, <2>1, <2>2, <2>4
  <2> QED BY <1>4, <2>3, <2>4
<1>12. Single'
  <2> SUFFICES ASSUME NEW j \in Instance, NEW k \in DOMAIN conn'[j], NEW l \in DOMAIN conn'[j],
                      conn'[j][k].op = "sadd", conn'[j][l] = conn'[j][k]
               PROVE  k = l
    BY DEF Single
  <2>1. CASE j # i
    BY <1>5, <2>1 DEF Single
  <2>2. CASE j = i
    <3>1. /\ k + 1 \in DOMAIN conn[i] /\ conn'[i][k] = conn[i][k + 1] /\ k \in Nat
          /\ l + 1 \in DOMAIN conn[i] /\ conn'[i][l] = conn[i][l + 1] /\ l \in Nat
      BY <1>3, <1>5, <2>2
    <3>2. k + 1 = l + 1
      BY <2>2, <3>1 DEF Single
    <3> QED BY <3>1, <3>2
  <2> QED BY <2>1, <2>2
<1>13. Awaited'
  <2> SUFFICES ASSUME NEW t \in Socket, sock'[t].at = "adding" PROVE Waits(t)'
    BY DEF Awaited
  <2>1. /\ sock[t].at = "adding" /\ sock'[t].instance = sock[t].instance
        /\ sock[t].instance \in Instance /\ (c.op = "sadd" => t # s)
    BY <1>2, <1>4, <1>6 DEF SocketState
  <2>2. PICK m \in DOMAIN conn[sock[t].instance] :
          conn[sock[t].instance][m] = [op |-> "sadd", socket |-> t]
    BY <2>1 DEF Awaited, Waits
  <2>3. [op |-> "sadd", socket |-> t] # c
    BY <2>1 DEF s
  <2>4. PICK k \in DOMAIN conn'[sock[t].instance] :
          conn'[sock[t].instance][k] = conn[sock[t].instance][m]
    BY <1>8, <2>1, <2>2, <2>3
  <2> QED BY <2>1, <2>2, <2>4 DEF Waits
<1>14. Present' /\ Working'
  BY <1>1, <1>4, <1>6 DEF Present, Working
<1>15. Reasoned'
  <2> SUFFICES ASSUME faults = 0, NEW v \in activeUsers' PROVE Reason(v)'
    BY <1>1 DEF Reasoned
  <2>1. CASE c.op = "sadd" /\ v = sock[s].user
    BY <1>4, <1>6, <2>1 DEF Reason
  <2>2. CASE c.op = "srem" \/ v # sock[s].user
    <3>1. v \in activeUsers /\ (c.op = "srem" => v # sock[s].user)
      BY <1>1, <1>4, <2>2 DEF Executed, s
    <3>2. Reason(v)
      BY <3>1 DEF Reasoned
    <3>3. CASE \E t \in Socket : sock[t].user = v /\ sock[t].at \in {"adding", "listening"}
      <4>1. PICK t \in Socket : sock[t].user = v /\ sock[t].at \in {"adding", "listening"}
        BY <3>3
      <4>2. sock'[t].user = v /\ sock'[t].at \in {"adding", "listening"}
        BY <1>4, <1>6, <4>1
      <4> QED BY <4>2 DEF Reason
    <3>4. CASE Leaving(v)
      <4>1. PICK j \in Instance : \E m \in DOMAIN conn[j] :
              conn[j][m].op = "srem" /\ sock[conn[j][m].socket].user = v
        BY <3>4 DEF Leaving
      <4>2. PICK m \in DOMAIN conn[j] : conn[j][m].op = "srem" /\ sock[conn[j][m].socket].user = v
        BY <4>1
      <4>3. conn[j][m] # c
        BY <1>4, <3>1, <4>2 DEF s
      <4>4. PICK k \in DOMAIN conn'[j] : conn'[j][k] = conn[j][m]
        BY <1>8, <4>3
      <4>5. conn[j][m].socket \in Socket
        BY CommandFacts
      <4>6. sock'[conn[j][m].socket].user = v
        BY <1>6, <4>2, <4>5
      <4> QED BY <4>2, <4>4, <4>6 DEF Reason, Leaving
    <3> QED BY <3>2, <3>3, <3>4 DEF Reason
  <2> QED BY <1>4, <2>1, <2>2
<1>16. Counted'
  <2> SUFFICES ASSUME faults = 0, NEW t \in Socket, sock'[t].at = "listening"
               PROVE  (sock[t].user \in activeUsers \/ HasLeft(sock[t].user))'
    BY <1>1 DEF Counted
  <2>1. sock'[t].user = sock[t].user /\ sock[t].user \in User
    BY <1>2, <1>6 DEF SocketState
  <2>2. CASE c.op = "sadd"
    <3>1. activeUsers' = activeUsers \cup {sock[s].user}
      BY <1>1, <2>2 DEF Executed, s
    <3>2. CASE t = s
      BY <2>1, <3>1, <3>2
    <3>3. CASE t # s
      <4>1. sock[t].at = "listening"
        BY <1>6, <3>3
      <4>2. sock[t].user \in activeUsers \/ HasLeft(sock[t].user)
        BY <4>1 DEF Counted
      <4>3. HasLeft(sock[t].user) => \E r \in Socket : sock'[r].user = sock[t].user /\ sock'[r].at = "left"
        BY <1>4, <1>6, <2>2 DEF HasLeft
      <4> QED BY <2>1, <3>1, <4>2, <4>3 DEF HasLeft
    <3> QED BY <3>2, <3>3
  <2>3. CASE c.op = "srem"
    <3>1. sock' = sock /\ activeUsers' = activeUsers \ {sock[s].user}
      BY <1>1, <2>3 DEF Executed, s
    <3>2. sock[t].user \in activeUsers \/ HasLeft(sock[t].user)
      BY <3>1 DEF Counted
    <3>3. sock[s].at = "left"
      BY <1>4, <2>3
    <3> QED BY <1>4, <3>1, <3>2, <3>3 DEF HasLeft
  <2> QED BY <1>4, <2>2, <2>3
<1> QED BY <1>9, <1>10, <1>11, <1>12, <1>13, <1>14, <1>15, <1>16

\* What Redis executed of a queue that is lost leaves a set of users.
LEMMA ReachedType ==
  ASSUME NEW i \in Instance, Reached(i)
  PROVE  activeUsers' \subseteq User
BY DEF Reached

\* A fault at one instance empties its queue; its sockets stop waiting, and what the
\* others wait for is untouched.
LEMMA FaultKeeps ==
  ASSUME Invariant, NEW i \in Instance, Fault,
         conn' = [conn EXCEPT ![i] = <<>>], sock' \in [Socket -> SocketState],
         \A t \in Socket : /\ sock'[t].instance = sock[t].instance
                           /\ sock[t].instance # i => sock'[t] = sock[t]
                           /\ sock[t].instance = i => sock'[t].at # "adding"
  PROVE  /\ conn' \in [Instance -> Seq(Command)] /\ faults' \in 0..MaxFaults
         /\ Commands' /\ Single' /\ Awaited' /\ Working' /\ Reasoned' /\ Counted'
<1> USE DEF Invariant
<1>1. faults' # 0 /\ faults' \in 0..MaxFaults
  BY PresenceAssumption DEF Fault, TypeOK
<1>2. /\ conn \in [Instance -> Seq(Command)] /\ sock \in [Socket -> SocketState]
      /\ conn'[i] = <<>> /\ \A j \in Instance : j # i => conn'[j] = conn[j]
  BY DEF TypeOK
<1>3. conn' \in [Instance -> Seq(Command)] /\ DOMAIN conn'[i] = {}
  BY <1>2
<1>4. Commands'
  <2> SUFFICES ASSUME NEW j \in Instance, NEW k \in DOMAIN conn'[j]
               PROVE  /\ sock'[conn'[j][k].socket].instance = j
                      /\ sock'[conn'[j][k].socket].at =
                           IF conn'[j][k].op = "sadd" THEN "adding" ELSE "left"
    BY DEF Commands
  <2>1. j # i /\ k \in DOMAIN conn[j] /\ conn'[j][k] = conn[j][k]
    BY <1>2, <1>3
  <2>2. conn[j][k].socket \in Socket /\ sock[conn[j][k].socket].instance = j
    BY <2>1, CommandFacts
  <2>3. sock'[conn[j][k].socket] = sock[conn[j][k].socket]
    BY <2>1, <2>2
  <2> QED BY <2>1, <2>3 DEF Commands
<1>5. Single'
  BY <1>2, <1>3 DEF Single
<1>6. Awaited'
  <2> SUFFICES ASSUME NEW t \in Socket, sock'[t].at = "adding" PROVE Waits(t)'
    BY DEF Awaited
  <2>1. sock[t].instance \in Instance /\ sock[t].instance # i /\ sock'[t] = sock[t]
    BY <1>2 DEF SocketState
  <2>2. conn'[sock[t].instance] = conn[sock[t].instance] /\ Waits(t)
    BY <1>2, <2>1 DEF Awaited
  <2> QED BY <2>1, <2>2 DEF Waits
<1> QED BY <1>1, <1>3, <1>4, <1>5, <1>6 DEF Working, Reasoned, Counted

\* The sockets of a process that crashes are dead, whatever was heard of them.
LEMMA CrashKeeps ==
  ASSUME Invariant, NEW i \in Instance, Crash(i)
  PROVE  Invariant'
<1> USE DEF Invariant
<1>1. /\ Fault /\ announced' = announced
      /\ conn' = [conn EXCEPT ![i] = <<>>] /\ link' = [link EXCEPT ![i] = "up"]
      /\ sock' = [s \in Socket |-> IF sock[s].instance = i /\ sock[s].at # "new"
                                   THEN [sock[s] EXCEPT !.at = "dead", !.up = FALSE]
                                   ELSE sock[s]]
      /\ activeUsers' \subseteq User
  BY ReachedType DEF Crash
<1>2. /\ sock \in [Socket -> SocketState] /\ link \in [Instance -> {"up", "closed"}]
      /\ announced \in [Socket -> Seq({"joined", "left"})]
  BY DEF TypeOK
<1>3. /\ sock' \in [Socket -> SocketState]
      /\ \A t \in Socket :
           /\ sock'[t].instance = sock[t].instance
           /\ sock[t].instance # i => sock'[t] = sock[t]
           /\ sock[t].instance = i => sock'[t].at # "adding"
           /\ \/ sock'[t] = sock[t]
              \/ sock'[t].at = "dead" /\ ~sock'[t].up /\ sock[t].at # "new"
  BY <1>1, <1>2 DEF SocketState
<1>4. /\ conn' \in [Instance -> Seq(Command)] /\ faults' \in 0..MaxFaults
      /\ Commands' /\ Single' /\ Awaited' /\ Working' /\ Reasoned' /\ Counted'
  BY <1>1, <1>3, FaultKeeps
<1>5. link' \in [Instance -> {"up", "closed"}]
  BY <1>1, <1>2
<1>6. TypeOK'
  BY <1>1, <1>2, <1>3, <1>4, <1>5 DEF TypeOK
<1>7. Heard'
  <2>1. \A t \in Socket : sock[t].at \in {"new", "adding", "listening", "left", "dead"}
    BY <1>2 DEF SocketState
  <2> QED BY <1>1, <1>3, <2>1 DEF Heard
<1>8. Present'
  BY <1>3 DEF Present
<1> QED BY <1>4, <1>6, <1>7, <1>8

\* The handlers that await SADD go on as if it had been answered.
LEMMA GiveUpKeeps ==
  ASSUME Invariant, NEW i \in Instance, GiveUp(i)
  PROVE  Invariant'
<1> USE DEF Invariant
<1> DEFINE waiting == {s \in Socket : sock[s].at = "adding" /\ sock[s].instance = i}
<1>1. /\ Fault
      /\ conn' = [conn EXCEPT ![i] = <<>>] /\ link' = [link EXCEPT ![i] = "closed"]
      /\ sock' = [s \in Socket |-> IF s \in waiting THEN [sock[s] EXCEPT !.at = "listening"]
                                   ELSE sock[s]]
      /\ announced' = [s \in Socket |-> IF s \in waiting THEN Append(announced[s], "joined")
                                        ELSE announced[s]]
      /\ activeUsers' \subseteq User
  BY ReachedType DEF GiveUp
<1>2. /\ sock \in [Socket -> SocketState] /\ link \in [Instance -> {"up", "closed"}]
      /\ announced \in [Socket -> Seq({"joined", "left"})]
  BY DEF TypeOK
<1>3. /\ sock' \in [Socket -> SocketState]
      /\ \A t \in Socket :
           /\ sock'[t].instance = sock[t].instance
           /\ sock[t].instance # i => sock'[t] = sock[t]
           /\ sock[t].instance = i => sock'[t].at # "adding"
           /\ t \in waiting => sock'[t].at = "listening"
           /\ t \notin waiting => sock'[t] = sock[t]
  BY <1>1, <1>2 DEF SocketState
<1>4. /\ conn' \in [Instance -> Seq(Command)] /\ faults' \in 0..MaxFaults
      /\ Commands' /\ Single' /\ Awaited' /\ Working' /\ Reasoned' /\ Counted'
  BY <1>1, <1>3, FaultKeeps
<1>5. \A t \in Socket : announced'[t] = IF t \in waiting THEN <<"joined">> ELSE announced[t]
  <2> SUFFICES ASSUME NEW t \in waiting PROVE Append(announced[t], "joined") = <<"joined">>
    BY <1>1
  <2>1. announced[t] = <<>>
    BY DEF Heard
  <2> QED BY <2>1
<1>6. announced' \in [Socket -> Seq({"joined", "left"})]
  <2>1. <<"joined">> \in Seq({"joined", "left"})
    OBVIOUS
  <2>2. \A t \in Socket : announced'[t] \in Seq({"joined", "left"})
    BY <1>2, <1>5, <2>1
  <2> QED BY <1>1, <2>2
<1>7. link' \in [Instance -> {"up", "closed"}]
  BY <1>1, <1>2
<1>8. TypeOK'
  BY <1>1, <1>3, <1>4, <1>6, <1>7 DEF TypeOK
<1>9. Heard'
  <2> SUFFICES ASSUME NEW t \in Socket
               PROVE  /\ sock'[t].at \in {"new", "adding"} => announced'[t] = <<>>
                      /\ sock'[t].at = "listening" => announced'[t] = <<"joined">>
                      /\ sock'[t].at = "left" => announced'[t] = <<"joined", "left">>
                      /\ sock'[t].at = "dead" =>
                           announced'[t] \in {<<>>, <<"joined">>, <<"joined", "left">>}
    BY DEF Heard
  <2>1. CASE t \in waiting
    BY <1>3, <1>5, <2>1
  <2>2. CASE t \notin waiting
    BY <1>3, <1>5, <2>2 DEF Heard
  <2> QED BY <2>1, <2>2
<1>10. Present'
  <2> SUFFICES ASSUME NEW t \in Socket, sock'[t].up PROVE sock'[t].at \in {"adding", "listening"}
    BY DEF Present
  <2>1. CASE t \in waiting
    BY <1>3, <2>1
  <2>2. CASE t \notin waiting
    BY <1>3, <2>2 DEF Present
  <2> QED BY <2>1, <2>2
<1> QED BY <1>4, <1>8, <1>9, <1>10

\* A step that changes nothing keeps the invariant.
LEMMA StutterKeeps ==
  ASSUME Invariant, UNCHANGED vars
  PROVE  Invariant'
<1> USE DEF vars, Invariant
<1>1. TypeOK' /\ Heard' /\ Present' /\ Working'
  BY DEF TypeOK, Heard, Present, Working
<1>2. Commands' /\ Single' /\ Awaited'
  BY DEF Commands, Single, Awaited, Waits
<1>3. Reasoned'
  BY DEF Reasoned, Reason, Leaving
<1>4. Counted'
  BY DEF Counted, HasLeft
<1> QED BY <1>1, <1>2, <1>3, <1>4

\* Every step keeps the invariant.
LEMMA InvariantNext == Invariant /\ [Next]_vars => Invariant'
<1> SUFFICES ASSUME Invariant, [Next]_vars PROVE Invariant'
  OBVIOUS
<1>1. CASE \E s \in Socket : Disconnect(s)
  BY <1>1, DisconnectKeeps
<1>2. CASE \E s \in Socket, u \in User, i \in Instance : Connect(s, u, i)
  BY <1>2, ConnectKeeps
<1>3. CASE \E i \in Instance : Answer(i)
  BY <1>3, AnswerKeeps
<1>4. CASE \E i \in Instance : Crash(i)
  BY <1>4, CrashKeeps
<1>5. CASE \E i \in Instance : GiveUp(i)
  BY <1>5, GiveUpKeeps
<1>6. CASE UNCHANGED vars
  BY <1>6, StutterKeeps
<1> QED BY <1>1, <1>2, <1>3, <1>4, <1>5, <1>6 DEF Next

\* The invariant holds in every reachable state.
LEMMA InvariantAlways == Spec => []Invariant
BY InvariantInit, InvariantNext, PTL DEF Spec

-----------------------------------------------------------------------------
(* The properties.                                                         *)

\* Every variable of Presence keeps its type.
THEOREM PresenceTypeCorrect == Spec => []TypeOK
<1>1. Invariant => TypeOK
  BY DEF Invariant
<1> QED BY <1>1, InvariantAlways, PTL

\* A sequence that agrees with the beginning of another is a prefix of it.
LEMMA Begins ==
  ASSUME NEW S, NEW s \in Seq(S), NEW t \in Seq(S), Len(s) <= Len(t),
         \A k \in 1..Len(s) : s[k] = t[k]
  PROVE  IsPrefix(s, t)
<1>1. Len(s) \in Nat /\ Len(t) \in Nat
  BY LenProperties
<1>2. /\ SubSeq(s, 1, Len(s)) \in Seq(S) /\ SubSeq(t, 1, Len(s)) \in Seq(S)
      /\ Len(SubSeq(s, 1, Len(s))) = Len(s) /\ Len(SubSeq(t, 1, Len(s))) = Len(s)
      /\ \A k \in 1..Len(s) :
           SubSeq(s, 1, Len(s))[k] = s[k] /\ SubSeq(t, 1, Len(s))[k] = t[k]
  BY <1>1
<1>3. SubSeq(s, 1, Len(s)) = SubSeq(t, 1, Len(s))
  BY <1>2, SeqEqual
<1> QED BY <1>3 DEF IsPrefix

\* The notices that a socket may have caused are the beginnings of one story.
LEMMA OneStory ==
  ASSUME NEW q \in {<<>>, <<"joined">>, <<"joined", "left">>}
  PROVE  IsPrefix(q, <<"joined", "left">>)
<1> DEFINE r == <<"joined", "left">>
           N == {"joined", "left"}
<1>1. r \in Seq(N) /\ Len(r) = 2 /\ r[1] = "joined" /\ r[2] = "left"
  OBVIOUS
<1>2. q \in Seq(N) /\ Len(q) <= 2 /\ \A k \in 1..Len(q) : q[k] = r[k]
  <2>1. CASE q = <<>>
    BY <2>1
  <2>2. CASE q = <<"joined">>
    BY <2>2, <1>1
  <2>3. CASE q = <<"joined", "left">>
    BY <2>3, <1>1
  <2> QED BY <2>1, <2>2, <2>3
<1> HIDE DEF r, N
<1>3. IsPrefix(q, r)
  BY <1>1, <1>2, Begins
<1> QED BY <1>3 DEF r

\* The room hears of a socket's arrival before its departure, and of each at most once.
THEOREM JoinedAlwaysBeforeLeft == Spec => []JoinedBeforeLeft
<1>1. Invariant => JoinedBeforeLeft
  <2> SUFFICES ASSUME Invariant, NEW s \in Socket
               PROVE  IsPrefix(announced[s], <<"joined", "left">>)
    BY DEF JoinedBeforeLeft
  <2>1. sock[s].at \in {"new", "adding", "listening", "left", "dead"}
    BY DEF Invariant, TypeOK, SocketState
  <2>2. announced[s] \in {<<>>, <<"joined">>, <<"joined", "left">>}
    BY <2>1 DEF Invariant, Heard
  <2> QED BY <2>2, OneStory
<1> QED BY <1>1, InvariantAlways, PTL

\* A user about whom nothing waits has no socket that is adding, and no departure.
LEMMA SettledFacts ==
  ASSUME Invariant, NEW u \in User, Settled(u)
  PROVE  ~Leaving(u) /\ \A s \in Socket : sock[s].user = u => sock[s].at # "adding"
<1>1. ~Leaving(u)
  BY DEF Settled, Leaving
<1>2. ASSUME NEW s \in Socket, sock[s].user = u, sock[s].at = "adding" PROVE FALSE
  <2>1. sock[s].instance \in Instance /\ Waits(s)
    BY <1>2 DEF Invariant, TypeOK, SocketState, Awaited
  <2>2. PICK k \in DOMAIN conn[sock[s].instance] :
          conn[sock[s].instance][k] = [op |-> "sadd", socket |-> s]
    BY <2>1 DEF Waits
  <2>3. conn[sock[s].instance][k].socket = s
    BY <2>2
  <2> QED BY <1>2, <2>1, <2>3 DEF Settled
<1> QED BY <1>1, <1>2

\* While nothing fails, a user who is active and not here has a socket that closed
\* before its disconnect listener was installed.
THEOREM GhostsAlwaysMissed == Spec => []GhostsAreMissedDisconnects
<1>1. Invariant => GhostsAreMissedDisconnects
  <2> SUFFICES ASSUME Invariant, NEW u \in User,
                      u \in activeUsers, ~Here(u), Settled(u), faults = 0
               PROVE  \E s \in SocketsOf(u) : Missed(s)
    BY DEF GhostsAreMissedDisconnects
  <2>1. Reason(u)
    BY DEF Invariant, Reasoned
  <2>2. PICK s \in Socket : sock[s].user = u /\ sock[s].at = "listening"
    BY <2>1, SettledFacts DEF Reason
  <2>3. s \in SocketsOf(u)
    BY <2>2 DEF SocketsOf
  <2> QED BY <2>2, <2>3 DEF Here, Missed
<1> QED BY <1>1, InvariantAlways, PTL

\* While nothing fails, a user who is here and not active has another socket that left.
THEOREM MissingAlwaysAfterSecond == Spec => []MissingAfterSecondSocket
<1>1. Invariant => MissingAfterSecondSocket
  <2> SUFFICES ASSUME Invariant, NEW u \in User,
                      Here(u), u \notin activeUsers, Settled(u), faults = 0
               PROVE  \E s \in SocketsOf(u) : sock[s].at = "left"
    BY DEF MissingAfterSecondSocket
  <2>1. PICK s \in Socket : sock[s].user = u /\ sock[s].up
    BY DEF Here, SocketsOf
  <2>2. sock[s].at = "listening"
    BY <2>1, SettledFacts DEF Invariant, Present
  <2>3. HasLeft(u)
    BY <2>1, <2>2 DEF Invariant, Counted
  <2> QED BY <2>3 DEF HasLeft, SocketsOf
<1> QED BY <1>1, InvariantAlways, PTL
=============================================================================
