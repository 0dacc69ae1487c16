---------------------------- MODULE CanvasClientProofs ----------------------------
(***************************************************************************)
(* Proofs about CanvasClient: types, that the service hangs up only on     *)
(* what an earlier room or user left in the queue, that the events of a    *)
(* session reach the room once and in order, and that the watcher draws    *)
(* what was drawn, for any rooms, sessions, events and lost connections.   *)
(*                                                                         *)
(* The events of a session pass through one line: those that reached the   *)
(* room, then the wire, then socket.io's queue, then the provider's. The   *)
(* invariant is that a later place in the line holds a later event, unless *)
(* that event is late; it needs that nothing but late events waits in the  *)
(* provider's queue while the last render saw a connection. The watcher is *)
(* then a function of the line.                                            *)
(***************************************************************************)
EXTENDS CanvasClient, FiniteSetTheorems, SequenceTheorems, TLAPS

-----------------------------------------------------------------------------
(* The invariants.                                                          *)

\* A queue in which every two places are related.
OrderedBy(queue, rel) == \A i, j \in DOMAIN queue : i < j => <<queue[i], queue[j]>> \in rel

\* Of two events of a session, which may come first in its line: the earlier one, or any
\* if the other is late. Nothing is said of events of other sessions.
AllowedIn(s) ==
  {p \in Event \X Event :
     events[p[1]].session = s /\ events[p[2]].session = s =>
       p[1] # p[2] /\ (p[1] < p[2] \/ events[p[2]].late)}

\* What has reached the room, and then the wire.
SentInLine(s) ==
  /\ OrderedBy(relayed, AllowedIn(s)) /\ OrderedBy(wire[s], AllowedIn(s))
  /\ Names(relayed) \X Names(wire[s]) \subseteq AllowedIn(s)

\* What the tab still holds comes after that, socket.io's queue first.
HeldInLine ==
  /\ OrderedBy(sendBuffer, AllowedIn(session)) /\ OrderedBy(pending, AllowedIn(session))
  /\ Names(relayed) \X (Names(sendBuffer) \cup Names(pending)) \subseteq AllowedIn(session)
  /\ session > 0 =>
       Names(wire[session]) \X (Names(sendBuffer) \cup Names(pending)) \subseteq AllowedIn(session)
  /\ Names(sendBuffer) \X Names(pending) \subseteq AllowedIn(session)

InLine == (\A s \in 1 .. MaxSessions : SentInLine(s)) /\ HeldInLine

\* socket.io's queue is empty while there is a connection; the provider's holds only late
\* events then, and until a render has seen that the connection is lost.
QueuesMeet ==
  /\ link = "up" => sendBuffer = <<>>
  /\ \A n \in Names(pending) : view \/ link = "up" => events[n].late

\* An event belongs to the session whose socket it is on, or was carried over from an
\* earlier one with another user.
BelongsTo(n, on) ==
  \/ events[n].session = on
  \/ events[n].session < on /\ sessions[on].user # UserOf(events[n])

CarriedOver ==
  /\ \A s \in 1 .. session : sessions[s].user <= s
  /\ \A n \in Names(pending) : BelongsTo(n, session)
  /\ \A on \in 1 .. MaxSessions : \A n \in Names(wire[on]) : on <= session /\ BelongsTo(n, on)

\* A stroke is named by its begin, belongs to one session and has its end last.
StrokesHaveShape ==
  /\ \A n \in Event : events[n].kind = "stroke_begin" => events[n].stroke = n
  /\ \A n \in Event : events[n].kind = "coffee_pour" <=> events[n].stroke = 0
  /\ \A n \in Event : events[n].stroke # 0 =>
       /\ events[n].stroke \in 1 .. n
       /\ events[events[n].stroke].kind = "stroke_begin"
       /\ events[events[n].stroke].session = events[n].session
  /\ \A n, m \in Event : events[n].kind = "stroke_end" /\ events[m].stroke = events[n].stroke => m <= n
  /\ active # 0 =>
       /\ events[active].kind = "stroke_begin" /\ events[active].session = session
       /\ \A n \in Event : events[n].stroke = active => events[n].kind # "stroke_end"

\* A stroke of the watched room of which nothing was late and the watcher missed nothing.
Followed(stroke) ==
  /\ events[stroke].kind = "stroke_begin" /\ RoomOf(events[stroke]) = Watched
  /\ \A n \in Event : events[n].stroke = stroke => ~events[n].late /\ n \notin missed

\* The segments of the stroke that have reached the room.
Shown(stroke) ==
  {n \in Names(relayed) : events[n].stroke = stroke /\ events[n].kind = "stroke_segment"}

\* What the watcher has of a stroke: nothing before its begin, then its segments in order
\* until its end.
Watches(stroke) ==
  /\ stroke \notin Names(relayed) => watcher.drawn[stroke] = <<>>
  /\ Followed(stroke) /\ stroke \in Names(relayed) =>
       /\ Names(watcher.drawn[stroke]) = Shown(stroke)
       /\ \A i, j \in DOMAIN watcher.drawn[stroke] :
            i < j => watcher.drawn[stroke][i] < watcher.drawn[stroke][j]
       /\ stroke \in watcher.open <=>
            ~\E n \in Names(relayed) : events[n].stroke = stroke /\ events[n].kind = "stroke_end"

Watching ==
  /\ \A n \in begun : n \in Names(relayed) /\ events[n].kind = "stroke_begin"
  /\ \A n \in (1 .. MaxEvents) \ Event : watcher.drawn[n] = <<>>
  /\ \A stroke \in Event : Watches(stroke)

\* What the service hung up on was carried over to a session that there has been.
Kicked ==
  \A kick \in kicks : /\ kick.on <= session /\ events[kick.event].session < kick.on
                      /\ sessions[kick.on].user # UserOf(events[kick.event])

\* The service has a hash of every stroke whose beginning reached the room.
RelayedBegan == \A n \in Names(relayed) : events[n].kind = "stroke_begin" => n \in begun

\* The inductive invariant.
Invariant ==
  /\ TypeOK /\ StrokesHaveShape /\ QueuesMeet /\ CarriedOver /\ InLine /\ Watching /\ Kicked
  /\ RelayedBegan /\ LostOnlyWithConnection

-----------------------------------------------------------------------------
(* Queues.                                                                  *)

\* The names in a queue.
LEMMA NamesInQueue ==
  ASSUME NEW S, NEW q \in Seq(S)
  PROVE  /\ DOMAIN q = 1 .. Len(q) /\ Len(q) \in Nat
         /\ Names(q) \subseteq S /\ \A i \in DOMAIN q : q[i] \in Names(q)
         /\ \A x \in Names(q) : \E i \in DOMAIN q : q[i] = x
<1>1. DOMAIN q = 1 .. Len(q) /\ Len(q) \in Nat
  BY LenProperties
<1>2. Names(q) = {q[i] : i \in DOMAIN q}
  BY DEF Names, ToSet
<1>3. \A i \in DOMAIN q : q[i] \in S
  BY <1>1, ElementOfSeq
<1> QED
  BY <1>1, <1>2, <1>3

\* The empty queue.
LEMMA EmptyQueue == Names(<<>>) = {} /\ \A rel : OrderedBy(<<>>, rel)
BY DEF Names, ToSet, OrderedBy

\* A queue that takes a name at its end.
LEMMA AppendToQueue ==
  ASSUME NEW S, NEW q \in Seq(S), NEW x \in S
  PROVE  /\ Append(q, x) \in Seq(S) /\ Names(Append(q, x)) = Names(q) \cup {x}
         /\ \A rel : OrderedBy(q, rel) /\ Names(q) \X {x} \subseteq rel
                       => OrderedBy(Append(q, x), rel)
<1>1. /\ Append(q, x) \in Seq(S) /\ Len(Append(q, x)) = Len(q) + 1
      /\ \A i \in 1 .. Len(q) : Append(q, x)[i] = q[i]
      /\ Append(q, x)[Len(q) + 1] = x
  BY AppendProperties
<1>2. DOMAIN q = 1 .. Len(q) /\ Len(q) \in Nat /\ \A i \in DOMAIN q : q[i] \in Names(q)
  BY NamesInQueue
<1> DEFINE more == Append(q, x)
<1>3. DOMAIN more = 1 .. Len(q) + 1
  BY <1>1, LenProperties
<1>4. Names(more) = {more[i] : i \in DOMAIN more} /\ Names(q) = {q[i] : i \in DOMAIN q}
  BY DEF Names, ToSet
<1> HIDE DEF more
<1>5. /\ \A i \in DOMAIN q : i \in DOMAIN more /\ more[i] = q[i]
      /\ \A i \in DOMAIN more : i \in DOMAIN q \/ i = Len(q) + 1
      /\ Len(q) + 1 \in DOMAIN more /\ more[Len(q) + 1] = x
  BY <1>1, <1>2, <1>3 DEF more
<1>6. Names(more) = Names(q) \cup {x}
  BY <1>4, <1>5
<1>7. ASSUME NEW rel, OrderedBy(q, rel), Names(q) \X {x} \subseteq rel
      PROVE  OrderedBy(more, rel)
  <2> SUFFICES ASSUME NEW i \in DOMAIN more, NEW j \in DOMAIN more, i < j
               PROVE  <<more[i], more[j]>> \in rel
    BY DEF OrderedBy
  <2>1. i \in DOMAIN q
    BY <1>2, <1>3
  <2>2. CASE j \in DOMAIN q
    BY <1>5, <1>7, <2>1, <2>2 DEF OrderedBy
  <2>3. CASE j = Len(q) + 1
    BY <1>2, <1>5, <1>7, <2>1, <2>3
  <2> QED
    BY <1>5, <2>2, <2>3
<1> QED
  BY <1>1, <1>6, <1>7 DEF more

\* A queue that loses its first name.
LEMMA TailOfQueue ==
  ASSUME NEW S, NEW q \in Seq(S), q # <<>>
  PROVE  /\ Head(q) \in Names(q) /\ Tail(q) \in Seq(S) /\ Names(Tail(q)) \subseteq Names(q)
         /\ \A rel : OrderedBy(q, rel) =>
              OrderedBy(Tail(q), rel) /\ {Head(q)} \X Names(Tail(q)) \subseteq rel
<1>1. /\ Tail(q) \in Seq(S) /\ Len(Tail(q)) = Len(q) - 1
      /\ \A i \in 1 .. Len(Tail(q)) : Tail(q)[i] = q[i + 1]
  BY HeadTailProperties
<1>2. Len(q) \in Nat \ {0} /\ DOMAIN q = 1 .. Len(q)
  BY EmptySeq, LenProperties
<1>3. Head(q) = q[1]
  OBVIOUS
<1> DEFINE rest == Tail(q)
<1>4. DOMAIN rest = 1 .. Len(rest)
  BY <1>1, LenProperties
<1>5. Names(rest) = {rest[i] : i \in DOMAIN rest} /\ Names(q) = {q[i] : i \in DOMAIN q}
  BY DEF Names, ToSet
<1> HIDE DEF rest
<1>6. \A i \in DOMAIN rest : i \in Int /\ i > 0 /\ i + 1 \in DOMAIN q /\ rest[i] = q[i + 1]
  BY <1>1, <1>2, <1>4 DEF rest
<1>7. 1 \in DOMAIN q
  BY <1>2
<1>8. ASSUME NEW rel, OrderedBy(q, rel)
      PROVE  OrderedBy(rest, rel) /\ {Head(q)} \X Names(rest) \subseteq rel
  <2>1. OrderedBy(rest, rel)
    <3> SUFFICES ASSUME NEW i \in DOMAIN rest, NEW j \in DOMAIN rest, i < j
                 PROVE  <<rest[i], rest[j]>> \in rel
      BY DEF OrderedBy
    <3>1. i + 1 < j + 1
      BY <1>6
    <3> QED
      BY <1>6, <1>8, <3>1 DEF OrderedBy
  <2>2. ASSUME NEW y \in Names(rest) PROVE <<q[1], y>> \in rel
    <3>1. PICK i \in DOMAIN rest : rest[i] = y
      BY <1>5
    <3>2. 1 < i + 1
      BY <1>6
    <3> QED
      BY <1>6, <1>7, <1>8, <3>1, <3>2 DEF OrderedBy
  <2> QED
    BY <1>3, <2>1, <2>2
<1>9. Names(rest) \subseteq Names(q)
  BY <1>5, <1>6
<1>10. Head(q) \in Names(q)
  BY <1>3, <1>5, <1>7
<1> QED
  BY <1>1, <1>8, <1>9, <1>10 DEF rest

\* A queue without its first name and without what is behind place n.
LEMMA PartOfQueue ==
  ASSUME NEW S, NEW q \in Seq(S), NEW n \in DOMAIN q
  PROVE  /\ SubSeq(q, 2, n) \in Seq(S) /\ Names(SubSeq(q, 2, n)) \subseteq Names(q)
         /\ Names(SubSeq(q, n + 1, Len(q))) \subseteq Names(q)
         /\ Names(q) \subseteq {Head(q)} \cup Names(SubSeq(q, 2, n)) \cup Names(SubSeq(q, n + 1, Len(q)))
         /\ \A rel : OrderedBy(q, rel) => OrderedBy(SubSeq(q, 2, n), rel)
<1> DEFINE part == SubSeq(q, 2, n)
           rest == SubSeq(q, n + 1, Len(q))
<1>1. /\ DOMAIN q = 1 .. Len(q) /\ Len(q) \in Nat
      /\ \A i \in DOMAIN q : q[i] \in Names(q)
      /\ \A x \in Names(q) : \E i \in DOMAIN q : q[i] = x
  BY NamesInQueue
<1>2. \A i \in 2 .. n : q[i] \in S
  BY <1>1, ElementOfSeq
<1>3. \A i \in n + 1 .. Len(q) : q[i] \in S
  BY <1>1, ElementOfSeq
<1>4. /\ part \in Seq(S) /\ Len(part) = n - 1
      /\ \A i \in 1 .. n - 1 : part[i] = q[2 + i - 1]
  <2>1. 2 \in Int /\ n \in Int /\ \A i \in 2 .. n : i \in DOMAIN q
    BY <1>1
  <2>2. /\ SubSeq(q, 2, n) \in Seq(S)
        /\ Len(SubSeq(q, 2, n)) = IF 2 <= n THEN n - 2 + 1 ELSE 0
        /\ \A i \in 1 .. n - 2 + 1 : SubSeq(q, 2, n)[i] = q[2 + i - 1]
    BY <1>2, <2>1, SubSeqProperties
  <2> QED
    BY <1>1, <2>2
<1>5. /\ rest \in Seq(S) /\ Len(rest) = Len(q) - n
      /\ \A i \in 1 .. Len(q) - n : rest[i] = q[n + 1 + i - 1]
  <2>1. n + 1 \in Int /\ Len(q) \in Int /\ \A i \in n + 1 .. Len(q) : i \in DOMAIN q
    BY <1>1
  <2>2. /\ SubSeq(q, n + 1, Len(q)) \in Seq(S)
        /\ Len(SubSeq(q, n + 1, Len(q))) = IF n + 1 <= Len(q) THEN Len(q) - (n + 1) + 1 ELSE 0
        /\ \A i \in 1 .. Len(q) - (n + 1) + 1 : SubSeq(q, n + 1, Len(q))[i] = q[n + 1 + i - 1]
    BY <1>3, <2>1, SubSeqProperties
  <2> QED
    BY <1>1, <2>2
<1> HIDE DEF part, rest
<1>6. /\ DOMAIN part = 1 .. n - 1 /\ \A i \in DOMAIN part : part[i] \in Names(part)
      /\ \A x \in Names(part) : \E i \in DOMAIN part : part[i] = x
  <2>1. /\ DOMAIN part = 1 .. Len(part) /\ \A i \in DOMAIN part : part[i] \in Names(part)
        /\ \A x \in Names(part) : \E i \in DOMAIN part : part[i] = x
    <3>1. part \in Seq(S)
      BY <1>4
    <3> QED
      BY ONLY <3>1, NamesInQueue
  <2> QED
    BY <1>4, <2>1
<1>7. /\ DOMAIN rest = 1 .. Len(q) - n /\ \A i \in DOMAIN rest : rest[i] \in Names(rest)
      /\ \A x \in Names(rest) : \E i \in DOMAIN rest : rest[i] = x
  <2>1. /\ DOMAIN rest = 1 .. Len(rest) /\ \A i \in DOMAIN rest : rest[i] \in Names(rest)
        /\ \A x \in Names(rest) : \E i \in DOMAIN rest : rest[i] = x
    <3>1. rest \in Seq(S)
      BY <1>5
    <3> QED
      BY ONLY <3>1, NamesInQueue
  <2> QED
    BY <1>5, <2>1
<1>8. \A i \in DOMAIN part : i + 1 \in DOMAIN q /\ part[i] = q[i + 1]
  <2> SUFFICES ASSUME NEW i \in DOMAIN part PROVE i + 1 \in DOMAIN q /\ part[i] = q[i + 1]
    OBVIOUS
  <2>1. i \in 1 .. n - 1 /\ n \in 1 .. Len(q) /\ 2 + i - 1 = i + 1
    BY <1>1, <1>6
  <2>2. part[i] = q[2 + i - 1]
    BY <1>4, <2>1
  <2> QED
    BY <1>1, <2>1, <2>2
<1>9. \A i \in DOMAIN rest : i + n \in DOMAIN q /\ rest[i] = q[i + n]
  <2> SUFFICES ASSUME NEW i \in DOMAIN rest PROVE i + n \in DOMAIN q /\ rest[i] = q[i + n]
    OBVIOUS
  <2>1. i \in 1 .. Len(q) - n /\ n \in 1 .. Len(q) /\ n + 1 + i - 1 = i + n
    BY <1>1, <1>7
  <2>2. rest[i] = q[n + 1 + i - 1]
    BY <1>5, <2>1
  <2> QED
    BY <1>1, <2>1, <2>2
<1>10. Names(part) \subseteq Names(q) /\ Names(rest) \subseteq Names(q)
  <2>1. \A x \in Names(part) : \E i \in DOMAIN q : q[i] = x
    BY <1>6, <1>8
  <2>2. \A x \in Names(rest) : \E i \in DOMAIN q : q[i] = x
    BY <1>7, <1>9
  <2> QED
    BY <1>1, <2>1, <2>2
<1>11. ASSUME NEW x \in Names(q), x # Head(q) PROVE x \in Names(part) \cup Names(rest)
  <2>1. PICK i \in DOMAIN q : q[i] = x
    BY <1>1
  <2>2. i # 1
    BY <1>11, <2>1
  <2>3. CASE i <= n
    <3>1. i - 1 \in DOMAIN part /\ (i - 1) + 1 = i
      BY <1>1, <1>6, <2>2, <2>3
    <3>2. part[i - 1] = q[i]
      BY <1>8, <3>1
    <3> QED
      BY <1>6, <2>1, <3>1, <3>2
  <2>4. CASE i > n
    <3>1. i - n \in DOMAIN rest /\ (i - n) + n = i
      BY <1>1, <1>7, <2>4
    <3>2. rest[i - n] = q[i]
      BY <1>9, <3>1
    <3> QED
      BY <1>7, <2>1, <3>1, <3>2
  <2> QED
    BY <1>1, <2>3, <2>4
<1>12. ASSUME NEW rel, OrderedBy(q, rel) PROVE OrderedBy(part, rel)
  <2> SUFFICES ASSUME NEW i \in DOMAIN part, NEW j \in DOMAIN part, i < j
               PROVE  <<part[i], part[j]>> \in rel
    BY DEF OrderedBy
  <2>1. i + 1 < j + 1
    BY <1>6
  <2> QED
    BY <1>8, <1>12, <2>1 DEF OrderedBy
<1> QED
  BY <1>4, <1>10, <1>11, <1>12 DEF part, rest

\* The names of a queue are its first and those behind.
LEMMA FirstAndRest ==
  ASSUME NEW S, NEW q \in Seq(S), q # <<>>
  PROVE  Names(q) = {Head(q)} \cup Names(Tail(q))
<1>1. Head(q) \in Names(q) /\ Names(Tail(q)) \subseteq Names(q)
  BY TailOfQueue
<1>2. DOMAIN q = 1 .. Len(q) /\ Len(q) \in Nat \ {0}
      /\ \A x \in Names(q) : \E i \in DOMAIN q : q[i] = x
  BY NamesInQueue, EmptySeq
<1>3. Tail(q) \in Seq(S) /\ Len(Tail(q)) = Len(q) - 1 /\ \A i \in 1 .. Len(Tail(q)) : Tail(q)[i] = q[i + 1]
  BY HeadTailProperties
<1>4. DOMAIN Tail(q) = 1 .. Len(Tail(q)) /\ \A i \in DOMAIN Tail(q) : Tail(q)[i] \in Names(Tail(q))
  BY <1>3, NamesInQueue
<1>5. ASSUME NEW x \in Names(q), x # Head(q) PROVE x \in Names(Tail(q))
  <2>1. PICK i \in DOMAIN q : q[i] = x
    BY <1>2
  <2>2. i # 1
    BY <1>5, <2>1
  <2>3. i - 1 \in 1 .. Len(q) - 1 /\ i - 1 + 1 = i
    BY <1>2, <2>2
  <2>4. Tail(q)[i - 1] = x /\ i - 1 \in DOMAIN Tail(q)
    BY <1>3, <1>4, <2>1, <2>3
  <2> QED
    BY <1>4, <2>4
<1> QED
  BY <1>1, <1>5

\* Two queues in one.
LEMMA JoinedQueues ==
  ASSUME NEW S, NEW p \in Seq(S), NEW q \in Seq(S)
  PROVE  /\ p \o q \in Seq(S) /\ Names(p \o q) = Names(p) \cup Names(q)
         /\ \A rel : OrderedBy(p, rel) /\ OrderedBy(q, rel) /\ Names(p) \X Names(q) \subseteq rel
                       => OrderedBy(p \o q, rel)
<1>1. /\ p \o q \in Seq(S) /\ Len(p \o q) = Len(p) + Len(q)
      /\ \A i \in 1 .. Len(p) + Len(q) : (p \o q)[i] = IF i <= Len(p) THEN p[i] ELSE q[i - Len(p)]
  BY ConcatProperties
<1>2. /\ DOMAIN p = 1 .. Len(p) /\ Len(p) \in Nat /\ \A i \in DOMAIN p : p[i] \in Names(p)
      /\ DOMAIN q = 1 .. Len(q) /\ Len(q) \in Nat /\ \A i \in DOMAIN q : q[i] \in Names(q)
  BY NamesInQueue
<1> DEFINE both == p \o q
<1>3. DOMAIN both = 1 .. Len(p) + Len(q)
  BY <1>1, LenProperties
<1>4. /\ Names(both) = {both[i] : i \in DOMAIN both}
      /\ Names(p) = {p[i] : i \in DOMAIN p} /\ Names(q) = {q[i] : i \in DOMAIN q}
  BY DEF Names, ToSet
<1> HIDE DEF both
<1>5. /\ \A i \in DOMAIN p : i \in DOMAIN both /\ both[i] = p[i]
      /\ \A i \in DOMAIN q : i + Len(p) \in DOMAIN both /\ both[i + Len(p)] = q[i]
      /\ \A i \in DOMAIN both : \/ i \in DOMAIN p
                                \/ i > Len(p) /\ i - Len(p) \in DOMAIN q /\ both[i] = q[i - Len(p)]
  BY <1>1, <1>2, <1>3 DEF both
<1>6. Names(both) = Names(p) \cup Names(q)
  BY <1>4, <1>5
<1>7. ASSUME NEW rel, OrderedBy(p, rel), OrderedBy(q, rel), Names(p) \X Names(q) \subseteq rel
      PROVE  OrderedBy(both, rel)
  <2> SUFFICES ASSUME NEW i \in DOMAIN both, NEW j \in DOMAIN both, i < j
               PROVE  <<both[i], both[j]>> \in rel
    BY DEF OrderedBy
  <2>1. CASE i \in DOMAIN p /\ j \in DOMAIN p
    BY <1>5, <1>7, <2>1 DEF OrderedBy
  <2>2. CASE i \in DOMAIN p /\ j \notin DOMAIN p
    BY <1>2, <1>5, <1>7, <2>2
  <2>3. CASE i \notin DOMAIN p
    <3>1. /\ i - Len(p) \in DOMAIN q /\ both[i] = q[i - Len(p)]
          /\ j - Len(p) \in DOMAIN q /\ both[j] = q[j - Len(p)]
          /\ i - Len(p) < j - Len(p)
      BY <1>2, <1>3, <1>5, <2>3
    <3> QED
      BY <1>7, <3>1 DEF OrderedBy
  <2> QED
    BY <2>1, <2>2, <2>3
<1> QED
  BY <1>1, <1>6, <1>7 DEF both

\* A queue is ordered by every wider relation.
LEMMA WiderOrder ==
  ASSUME NEW q, NEW rel, NEW wider, rel \subseteq wider, OrderedBy(q, rel)
  PROVE  OrderedBy(q, wider)
BY DEF OrderedBy

-----------------------------------------------------------------------------
(* Types.                                                                   *)

\* An event of one of the first n sessions.
SomeEvent(n) == [kind : Kind, stroke : 0 .. MaxEvents, session : 1 .. n, late : BOOLEAN]

\* Events and sessions by their place.
LEMMA Places ==
  ASSUME TabTyped
  PROVE  /\ Event = 1 .. Len(events) /\ Len(events) \in Nat /\ Len(events) <= MaxEvents
         /\ \A n \in Event : events[n] \in SomeEvent(session)
         /\ session \in Nat /\ session <= MaxSessions /\ DOMAIN sessions = 1 .. session
         /\ \A s \in 1 .. session : sessions[s] \in [room : Room, user : 1 .. MaxSessions]
         /\ MaxEvents \in Nat /\ MaxSessions \in Nat /\ MaxLosses \in Nat
<1>1. events \in Seq(SomeEvent(session)) /\ Len(events) <= MaxEvents
  BY DEF TabTyped, SomeEvent
<1>2. Event = 1 .. Len(events) /\ Len(events) \in Nat
  BY <1>1, LenProperties DEF Event
<1>3. \A n \in Event : events[n] \in SomeEvent(session)
  BY <1>1, <1>2, ElementOfSeq
<1>4. sessions \in Seq([room : Room, user : 1 .. MaxSessions]) /\ session <= MaxSessions
  BY DEF TabTyped
<1>5. session \in Nat /\ DOMAIN sessions = 1 .. session
  BY <1>4, LenProperties DEF session
<1>6. \A s \in 1 .. session : sessions[s] \in [room : Room, user : 1 .. MaxSessions]
  BY <1>4, ElementOfSeq DEF session
<1> QED
  BY <1>1, <1>2, <1>3, <1>4, <1>5, <1>6, ClientAssumption

\* The initial state is typed.
LEMMA TypeInit == Init => TypeOK
<1> SUFFICES ASSUME Init PROVE TypeOK
  OBVIOUS
<1>1. <<>> \in Seq([room : Room, user : 1 .. MaxSessions]) /\ Len(<<>>) = 0
  BY EmptySeq
<1>2. <<>> \in Seq(Event) /\ Event = {} /\ session = 0
  <2>1. Event = {}
    BY DEF Init, Event
  <2> QED
    BY <1>1, <2>1, EmptySeq DEF Init, session
<1>3. {MaxEvents, MaxSessions, MaxLosses} \subseteq Nat
  BY ClientAssumption
<1>4. TabTyped
  <2>1. <<>> \in Seq([kind : Kind, stroke : 0 .. MaxEvents, session : 1 .. session, late : BOOLEAN])
    BY EmptySeq
  <2> QED
    <3>1. sessions \in Seq([room : Room, user : 1 .. MaxSessions]) /\ session <= MaxSessions
      BY <1>1, <1>2, <1>3 DEF Init
    <3>2. events \in Seq([kind : Kind, stroke : 0 .. MaxEvents, session : 1 .. session, late : BOOLEAN])
          /\ Len(events) <= MaxEvents
      BY <1>1, <1>3, <2>1 DEF Init
    <3> QED
      BY <3>1, <3>2 DEF Init, TabTyped
<1>5. SocketTyped
  BY <1>2, EmptyQueue DEF Init, SocketTyped
<1>6. RoomTyped
  BY <1>2, EmptyQueue DEF Init, RoomTyped
<1> QED
  BY <1>3, <1>4, <1>5, <1>6 DEF Init, TypeOK

\* The room's variables stay typed while events are added.
LEMMA RoomStaysTyped ==
  ASSUME RoomTyped, UNCHANGED roomVars, Event \subseteq Event'
  PROVE  RoomTyped'
<1>1. relayed' \in Seq(Event')
  BY SeqMonotonic DEF RoomTyped, roomVars
<1>2. \A n \in 1 .. MaxEvents : watcher.drawn[n] \in Seq(Event')
  <2>1. \A n \in 1 .. MaxEvents : watcher.drawn[n] \in Seq(Event)
    BY DEF RoomTyped
  <2> QED
    BY <2>1, SeqMonotonic
<1>3. watcher' \in [on : BOOLEAN, open : SUBSET begun', drawn : [1 .. MaxEvents -> Seq(Event')],
                    stains : SUBSET Event', cursor : {"none", "fresh", "old"}]
  BY <1>2 DEF RoomTyped, roomVars
<1>4. begun' \subseteq Event' /\ kicks' \subseteq [event : Event', on : 1 .. MaxSessions]
      /\ missed' \subseteq Names(relayed')
  BY DEF RoomTyped, roomVars
<1> QED
  BY <1>1, <1>3, <1>4 DEF RoomTyped

\* So are the room's while nothing is emitted.
LEMMA SameRoom ==
  ASSUME RoomTyped, UNCHANGED <<roomVars, events>>
  PROVE  RoomTyped'
<1>1. Event' = Event
  BY DEF Event
<1> QED
  BY <1>1, RoomStaysTyped

\* New credentials.
LEMMA NewSocketTyped ==
  ASSUME TypeOK, NEW credentials \in [room : Room, user : 1 .. MaxSessions],
         NewSocket(credentials), UNCHANGED <<events, wire, lost, roomVars, losses>>,
         expired' \in BOOLEAN, page' = "canvas", active' \in Event \cup {0},
         pending' \in {pending, <<>>}
  PROVE  TypeOK' /\ session' = session + 1 /\ session' \in 1 .. MaxSessions
         /\ sessions'[session'] = credentials
         /\ \A s \in 1 .. session : sessions'[s] = sessions[s]
<1>1. session \in Nat /\ session <= MaxSessions /\ MaxSessions \in Nat /\ DOMAIN sessions = 1 .. session
  BY Places DEF TypeOK
<1>2. sessions \in Seq([room : Room, user : 1 .. MaxSessions])
  BY DEF TypeOK, TabTyped
<1>3. sessions' = Append(sessions, credentials) /\ session < MaxSessions
  BY DEF NewSocket
<1>4. /\ sessions' \in Seq([room : Room, user : 1 .. MaxSessions])
      /\ session' = session + 1
      /\ \A s \in 1 .. session : sessions'[s] = sessions[s]
      /\ sessions'[session + 1] = credentials
  BY <1>2, <1>3, AppendProperties DEF session
<1>5. session' \in 1 .. MaxSessions
  BY <1>1, <1>3, <1>4
<1>6. Event' = Event
  BY DEF Event
<1>7. events' \in Seq(SomeEvent(session'))
  <2>1. events \in Seq(SomeEvent(session))
    BY DEF TypeOK, TabTyped, SomeEvent
  <2>2. SomeEvent(session) \subseteq SomeEvent(session')
    <3>1. 1 .. session \subseteq 1 .. session'
      BY <1>1, <1>4
    <3> QED
      BY <3>1 DEF SomeEvent
  <2> QED
    BY <2>1, <2>2, SeqMonotonic
<1>8. TabTyped'
  <2>1. Len(events') <= MaxEvents /\ view' \in BOOLEAN
    BY DEF TypeOK, TabTyped, NewSocket
  <2>2. active' \in Event' \cup {0} /\ page' \in {"lobby", "canvas"} /\ page' # "lobby"
    BY <1>6
  <2>3. session' <= MaxSessions /\ session' > 0
    BY <1>5
  <2> QED
    BY <1>4, <1>7, <2>1, <2>2, <2>3 DEF TabTyped, SomeEvent
<1>9. SocketTyped'
  <2>1. sendBuffer' = <<>> /\ link' = "connecting" /\ isConnected' = FALSE
    BY DEF NewSocket
  <2>2. <<>> \in Seq(Event)
    BY EmptySeq
  <2>3. wire \in [1 .. MaxSessions -> Seq(Event)] /\ pending' \in Seq(Event)
    BY <2>2 DEF TypeOK, SocketTyped
  <2>4. Names(sendBuffer') = {}
    BY <2>1, EmptyQueue
  <2>5. isConnected' = (link' = "up")
    BY <2>1
  <2>6. (link' # "none" => session' > 0) /\ (link' = "refused" => expired') /\ (link' = "up" => ~expired')
    BY <1>5, <2>1
  <2>7. sendBuffer' \in Seq(Event') /\ pending' \in Seq(Event') /\ wire' \in [1 .. MaxSessions -> Seq(Event')]
    BY <1>6, <2>1, <2>2, <2>3
  <2>8. lost' \subseteq Event'
    BY <1>6 DEF TypeOK, SocketTyped
  <2> QED
    BY <2>1, <2>4, <2>5, <2>6, <2>7, <2>8 DEF SocketTyped
<1>10. RoomTyped'
  BY SameRoom DEF TypeOK
<1> QED
  BY <1>4, <1>5, <1>8, <1>9, <1>10 DEF TypeOK

\* Entering a room and loading the page again give credentials that are typed.
LEMMA EntersTyped ==
  ASSUME TypeOK, NEW room \in Room, Enter(room)
  PROVE  TypeOK' /\ session' = session + 1 /\ session' \in 1 .. MaxSessions
         /\ sessions'[session'] = AuthPayload(room)
         /\ \A s \in 1 .. session : sessions'[s] = sessions[s]
<1>1. session \in Nat /\ MaxSessions \in Nat
  BY Places DEF TypeOK
<1>2. AuthPayload(room) \in [room : Room, user : 1 .. MaxSessions]
  BY <1>1 DEF AuthPayload, Enter, NewSocket
<1>3. NewSocket(AuthPayload(room)) /\ UNCHANGED <<events, wire, lost, roomVars, losses>>
      /\ expired' \in BOOLEAN /\ page' = "canvas" /\ active' = active /\ pending' = pending
  BY DEF Enter
<1>4. active' \in Event \cup {0}
  BY <1>3 DEF TypeOK, TabTyped
<1> QED
  BY <1>2, <1>3, <1>4, NewSocketTyped

\* See EntersTyped.
LEMMA ReloadsTyped ==
  ASSUME TypeOK, Reload
  PROVE  TypeOK' /\ session' = session + 1 /\ session' \in 1 .. MaxSessions
         /\ sessions'[session'] = sessions[session]
         /\ \A s \in 1 .. session : sessions'[s] = sessions[s]
<1>1. session \in 1 .. session
  BY Places DEF TypeOK, TabTyped, Reload
<1>2. Last(sessions) = sessions[session] /\ sessions[session] \in [room : Room, user : 1 .. MaxSessions]
  BY <1>1, Places DEF TypeOK, Last, session
<1>3. NewSocket(Last(sessions)) /\ UNCHANGED <<events, wire, lost, roomVars, losses>>
      /\ expired' = expired /\ page' = page /\ page = "canvas" /\ active' = 0 /\ pending' = <<>>
  BY DEF Reload
<1>4. expired' \in BOOLEAN
  BY <1>3 DEF TypeOK, TabTyped
<1> QED
  BY <1>2, <1>3, <1>4, NewSocketTyped

\* The tab's variables stay typed while it keeps its sessions and events.
LEMMA SameTab ==
  ASSUME TabTyped, UNCHANGED <<sessions, events>>, view' \in BOOLEAN, expired' \in BOOLEAN,
         \/ UNCHANGED <<page, active>>
         \/ page' = "lobby" /\ active' = 0
         \/ page' = "canvas" /\ session > 0 /\ active' = active
  PROVE  TabTyped' /\ session' = session /\ Event' = Event
<1>1. session' = session /\ Event' = Event
  BY DEF session, Event
<1>2. events' \in Seq([kind : Kind, stroke : 0 .. MaxEvents, session : 1 .. session', late : BOOLEAN])
  BY <1>1 DEF TabTyped
<1>3. sessions' \in Seq([room : Room, user : 1 .. MaxSessions]) /\ session' <= MaxSessions
      /\ Len(events') <= MaxEvents
  BY <1>1 DEF TabTyped
<1>4. /\ active' \in Event' \cup {0} /\ (page' = "lobby" => active' = 0)
      /\ page' \in {"lobby", "canvas"} /\ (page' = "canvas" => session' > 0)
  BY <1>1 DEF TabTyped
<1> QED
  BY <1>1, <1>2, <1>3, <1>4 DEF TabTyped

\* A link that is lost, refused or given up, or stays as it is, with or without what is
\* on the wire.
LEMMA SocketWithoutConnection ==
  ASSUME SocketTyped, UNCHANGED <<sessions, events, sendBuffer, pending>>,
         \/ UNCHANGED <<link, isConnected, expired>>
         \/ /\ link' \in {"down", "given up", "kicked", "refused"} /\ isConnected' = FALSE
            /\ session > 0 /\ (link' = "refused" => expired' = TRUE),
         wire' \in [1 .. MaxSessions -> Seq(Event)], lost' \subseteq Event,
         \A on \in 1 .. MaxSessions : Names(wire'[on]) \subseteq Names(wire[on])
  PROVE  SocketTyped'
<1>1. session' = session /\ Event' = Event
  BY DEF session, Event
<1>2. /\ link' \in {"none", "connecting", "up", "down", "given up", "kicked", "refused"}
      /\ link' # "none" => session' > 0
  BY <1>1 DEF SocketTyped
<1>3. (link' = "refused" => expired') /\ (link' = "up" => ~expired')
  <2>1. CASE UNCHANGED <<link, isConnected, expired>>
    BY <2>1 DEF SocketTyped
  <2>2. CASE link' \in {"down", "given up", "kicked", "refused"} /\ (link' = "refused" => expired' = TRUE)
    BY <2>2
  <2> QED
    BY <2>1, <2>2
<1>4. isConnected' = (link' = "up")
  <2>1. CASE UNCHANGED <<link, isConnected, expired>>
    BY <2>1 DEF SocketTyped
  <2>2. CASE link' \in {"down", "given up", "kicked", "refused"} /\ isConnected' = FALSE
    BY <2>2
  <2> QED
    BY <2>1, <2>2
<1>5. sendBuffer' \in Seq(Event') /\ pending' \in Seq(Event') /\ wire' \in [1 .. MaxSessions -> Seq(Event')]
  BY <1>1 DEF SocketTyped
<1>6. \A name \in Names(sendBuffer') :
        /\ events'[name].session = session' /\ name \notin Names(pending')
        /\ \A on \in 1 .. MaxSessions : name \notin Names(wire'[on])
  BY <1>1 DEF SocketTyped
<1>7. lost' \subseteq Event'
  BY <1>1
<1> QED
  BY <1>2, <1>3, <1>4, <1>5, <1>6, <1>7 DEF SocketTyped

\* Steps that emit nothing and deliver nothing.
LEMMA QuietTyped ==
  ASSUME TypeOK, Leave \/ Mount \/ Render \/ Refused \/ Lose \/ GiveUp \/ WatcherAway
                   \/ WatcherBack \/ CursorMove \/ CursorAges \/ SweepCursors \/ UNCHANGED vars
  PROVE  TypeOK' /\ session' = session /\ Event' = Event
<1>1. UNCHANGED <<sessions, events>>
  BY DEF Leave, Mount, Render, Refused, Lose, GiveUp, WatcherAway, WatcherBack, CursorMove,
         CursorAges, SweepCursors, vars, tabVars
<1>2. TabTyped' /\ session' = session /\ Event' = Event
  <2>1. \/ UNCHANGED <<page, active>>
        \/ page' = "lobby" /\ active' = 0
        \/ page' = "canvas" /\ session > 0 /\ active' = active
    BY DEF Leave, Mount, Render, Refused, Lose, GiveUp, WatcherAway, WatcherBack, CursorMove,
           CursorAges, SweepCursors, vars, tabVars
  <2>2. view' \in BOOLEAN
    <3>1. view \in BOOLEAN /\ isConnected \in BOOLEAN
      BY DEF TypeOK, TabTyped, SocketTyped
    <3>2. view' = view \/ view' = isConnected
      BY DEF Leave, Mount, Render, Refused, Lose, GiveUp, WatcherAway, WatcherBack, CursorMove,
             CursorAges, SweepCursors, vars, tabVars
    <3> QED
      BY <3>1, <3>2
  <2>3. expired' \in BOOLEAN
    <3>1. expired \in BOOLEAN
      BY DEF TypeOK, TabTyped
    <3>2. expired' = expired \/ expired' = TRUE
      BY DEF Leave, Mount, Render, Refused, Lose, GiveUp, WatcherAway, WatcherBack, CursorMove,
             CursorAges, SweepCursors, vars, tabVars
    <3> QED
      BY <3>1, <3>2
  <2>4. TabTyped
    BY DEF TypeOK
  <2> QED
    BY <1>1, <2>1, <2>2, <2>3, <2>4, SameTab
<1>3. SocketTyped'
  <2>1. SocketTyped
    BY DEF TypeOK
  <2>2. UNCHANGED <<sendBuffer, pending>>
    BY DEF Leave, Mount, Render, Refused, Lose, GiveUp, WatcherAway, WatcherBack, CursorMove,
           CursorAges, SweepCursors, vars, socketVars
  <2>3. CASE UNCHANGED <<link, isConnected, expired, wire, lost>>
    BY <1>1, <2>1, <2>2, <2>3, SocketWithoutConnection DEF SocketTyped
  <2>4. CASE Refused \/ GiveUp
    <3>1. /\ link' \in {"given up", "refused"} /\ isConnected' = FALSE /\ UNCHANGED <<wire, lost>>
          /\ link' = "refused" => expired' = TRUE
      BY <2>4 DEF Refused, GiveUp
    <3>2. session > 0
      BY <2>1, <2>4 DEF Refused, GiveUp, SocketTyped
    <3>3. wire' \in [1 .. MaxSessions -> Seq(Event)] /\ lost' \subseteq Event
      BY <2>1, <3>1 DEF SocketTyped
    <3> QED
      BY <1>1, <2>1, <2>2, <3>1, <3>2, <3>3, SocketWithoutConnection
  <2>5. CASE Lose
    <3>1. /\ link' = "down" /\ isConnected' = FALSE /\ wire' = [wire EXCEPT ![session] = <<>>]
          /\ lost' = lost \cup Names(wire[session])
      BY <2>5 DEF Lose, Names
    <3>2. session > 0 /\ wire \in [1 .. MaxSessions -> Seq(Event)]
      BY <2>1, <2>5 DEF Lose, SocketTyped
    <3>3. <<>> \in Seq(Event) /\ Names(<<>>) = {}
      BY EmptySeq, EmptyQueue
    <3>4. wire' \in [1 .. MaxSessions -> Seq(Event)]
          /\ \A on \in 1 .. MaxSessions : Names(wire'[on]) \subseteq Names(wire[on])
      BY <3>1, <3>2, <3>3
    <3>5. lost' \subseteq Event
      <4>1. session \in 1 .. MaxSessions
        BY <2>5, <3>2, Places DEF TypeOK
      <4>2. Names(wire[session]) \subseteq Event /\ lost \subseteq Event
        BY <2>1, <4>1, NamesInQueue DEF SocketTyped
      <4> QED
        BY <3>1, <4>2
    <3> QED
      BY <1>1, <2>1, <2>2, <3>1, <3>2, <3>4, <3>5, SocketWithoutConnection
  <2>6. \/ UNCHANGED <<link, isConnected, expired, wire, lost>>
        \/ Refused \/ GiveUp \/ Lose
    BY DEF Leave, Mount, Render, WatcherAway, WatcherBack, CursorMove, CursorAges, SweepCursors,
           vars, tabVars, socketVars
  <2> QED
    BY <2>3, <2>4, <2>5, <2>6
<1>4. RoomTyped'
  <2>1. RoomTyped
    BY DEF TypeOK
  <2>2. CASE UNCHANGED roomVars
    BY <1>1, <2>1, <2>2, SameRoom
  <2>3. CASE WatcherAway \/ WatcherBack \/ CursorMove \/ CursorAges \/ SweepCursors
    <3>1. UNCHANGED <<relayed, missed, begun, kicks>>
      BY <2>3 DEF WatcherAway, WatcherBack, CursorMove, CursorAges, SweepCursors
    <3>2. watcher' \in [on : BOOLEAN, open : SUBSET begun, drawn : [1 .. MaxEvents -> Seq(Event)],
                        stains : SUBSET Event, cursor : {"none", "fresh", "old"}]
      BY <2>1, <2>3 DEF WatcherAway, WatcherBack, CursorMove, CursorAges, SweepCursors, RoomTyped
    <3> QED
      BY <1>2, <2>1, <3>1, <3>2 DEF RoomTyped
  <2>4. \/ UNCHANGED roomVars
        \/ WatcherAway \/ WatcherBack \/ CursorMove \/ CursorAges \/ SweepCursors
    BY DEF Leave, Mount, Render, Refused, Lose, GiveUp, vars
  <2> QED
    BY <2>2, <2>3, <2>4
<1>5. losses' \in 0 .. MaxLosses
  <2>1. losses' = losses \/ (losses < MaxLosses /\ losses' = losses + 1)
    BY DEF Leave, Mount, Render, Refused, Lose, GiveUp, WatcherAway, WatcherBack, CursorMove,
           CursorAges, SweepCursors, vars
  <2> QED
    BY <2>1, ClientAssumption DEF TypeOK
<1> QED
  BY <1>2, <1>3, <1>4, <1>5 DEF TypeOK

\* What socket.io and the provider kept goes on the wire.
LEMMA ConnectTyped ==
  ASSUME TypeOK, Connect
  PROVE  /\ TypeOK' /\ session' = session /\ Event' = Event
         /\ session \in 1 .. MaxSessions
         /\ wire'[session] = (wire[session] \o sendBuffer) \o pending
         /\ Names(wire'[session]) = Names(wire[session]) \cup Names(sendBuffer) \cup Names(pending)
         /\ \A on \in 1 .. MaxSessions : on # session => wire'[on] = wire[on]
<1>1. /\ link' = "up" /\ link \in {"connecting", "down"} /\ ~expired
      /\ wire' = [wire EXCEPT ![session] = (@ \o sendBuffer) \o pending]
      /\ sendBuffer' = <<>> /\ pending' = <<>> /\ isConnected' = TRUE
      /\ UNCHANGED <<tabVars, lost, roomVars, losses>>
  BY DEF Connect, validateJWT
<1>2. session \in 1 .. MaxSessions
  <2>1. session \in Nat /\ session <= MaxSessions /\ MaxSessions \in Nat
    BY Places DEF TypeOK
  <2>2. session > 0
    BY <1>1 DEF TypeOK, SocketTyped
  <2> QED
    BY <2>1, <2>2
<1>3. /\ wire \in [1 .. MaxSessions -> Seq(Event)]
      /\ sendBuffer \in Seq(Event) /\ pending \in Seq(Event)
  BY DEF TypeOK, SocketTyped
<1>4. wire[session] \in Seq(Event)
  BY <1>2, <1>3
<1>5. /\ wire[session] \o sendBuffer \in Seq(Event)
      /\ Names(wire[session] \o sendBuffer) = Names(wire[session]) \cup Names(sendBuffer)
  BY <1>3, <1>4, JoinedQueues
<1>6. /\ (wire[session] \o sendBuffer) \o pending \in Seq(Event)
      /\ Names((wire[session] \o sendBuffer) \o pending)
           = (Names(wire[session]) \cup Names(sendBuffer)) \cup Names(pending)
  <2> DEFINE first == wire[session] \o sendBuffer
  <2>1. first \in Seq(Event) /\ Names(first) = Names(wire[session]) \cup Names(sendBuffer)
    BY <1>5
  <2> HIDE DEF first
  <2>2. first \o pending \in Seq(Event) /\ Names(first \o pending) = Names(first) \cup Names(pending)
    BY <1>3, <2>1, JoinedQueues
  <2> QED
    BY <2>1, <2>2 DEF first
<1>7. wire'[session] = (wire[session] \o sendBuffer) \o pending
      /\ \A on \in 1 .. MaxSessions : on # session => wire'[on] = wire[on]
  BY <1>1, <1>2, <1>3
<1>8. TabTyped' /\ session' = session /\ Event' = Event
  BY <1>1, SameTab DEF TypeOK, TabTyped, tabVars
<1>9. SocketTyped'
  <2>1. wire' \in [1 .. MaxSessions -> Seq(Event')]
    BY <1>1, <1>3, <1>6, <1>8
  <2>2. sendBuffer' \in Seq(Event') /\ pending' \in Seq(Event') /\ Names(sendBuffer') = {}
    BY <1>1, EmptySeq, EmptyQueue
  <2>3. ~expired'
    BY <1>1 DEF tabVars
  <2>4. link' = "up" /\ session' > 0
    BY <1>1, <1>2, <1>8
  <2>5. isConnected' = (link' = "up")
    BY <1>1
  <2>6. lost' \subseteq Event'
    BY <1>1, <1>8 DEF TypeOK, SocketTyped
  <2> QED
    BY <2>1, <2>2, <2>3, <2>4, <2>5, <2>6 DEF SocketTyped
<1>10. RoomTyped'
  BY <1>1, SameRoom DEF TypeOK, tabVars
<1> QED
  BY <1>1, <1>2, <1>6, <1>7, <1>8, <1>9, <1>10 DEF TypeOK

\* What is emitted is the next event, of the current session.
LEMMA EmitAppends ==
  ASSUME TypeOK, NEW kind \in Kind, NEW stroke \in 0 .. Len(events) + 1, Emit(kind, stroke),
         NEW name, name = Len(events) + 1
  PROVE  /\ name \in 1 .. MaxEvents /\ name \notin Event /\ Event' = Event \cup {name}
         /\ \A n \in Event : n \in Nat /\ n < name /\ events'[n] = events[n]
         /\ events'[name] = [kind |-> kind, stroke |-> stroke, session |-> session,
                             late |-> ~view /\ link = "up"]
         /\ events' \in Seq(SomeEvent(session)) /\ Len(events') = name
         /\ session \in 1 .. MaxSessions /\ session' = session
<1>1. /\ Event = 1 .. Len(events) /\ Len(events) \in Nat /\ MaxEvents \in Nat
      /\ session \in Nat /\ session <= MaxSessions /\ MaxSessions \in Nat
  BY Places DEF TypeOK
<1>2. events \in Seq(SomeEvent(session)) /\ session > 0
  BY DEF TypeOK, TabTyped, SomeEvent, Emit
<1> DEFINE event == [kind |-> kind, stroke |-> stroke, session |-> session, late |-> ~view /\ link = "up"]
<1>3. name <= MaxEvents /\ events' = Append(events, event) /\ UNCHANGED sessions
  BY DEF Emit
<1>4. event \in SomeEvent(session)
  <2>1. stroke \in 0 .. MaxEvents /\ session \in 1 .. session
    BY <1>1, <1>2, <1>3
  <2> QED
    BY <2>1 DEF SomeEvent
<1> HIDE DEF event
<1>5. /\ events' \in Seq(SomeEvent(session)) /\ Len(events') = Len(events) + 1
      /\ \A n \in 1 .. Len(events) : events'[n] = events[n]
      /\ events'[Len(events) + 1] = event
  BY <1>2, <1>3, <1>4, AppendProperties
<1>6. Event' = 1 .. Len(events) + 1
  BY <1>5, LenProperties DEF Event
<1> QED
  BY <1>1, <1>2, <1>3, <1>5, <1>6 DEF event, session

\* The event goes to the end of one queue, by what the last render and socket.io saw.
LEMMA EmitQueues ==
  ASSUME NEW kind, NEW stroke, Emit(kind, stroke), NEW name, name = Len(events) + 1
  PROVE  \/ /\ ~view /\ pending' = Append(pending, name) /\ UNCHANGED <<sendBuffer, wire>>
         \/ /\ view /\ link = "up"
            /\ wire' = [wire EXCEPT ![session] = Append(wire[session], name)]
            /\ UNCHANGED <<pending, sendBuffer>>
         \/ /\ view /\ link # "up"
            /\ sendBuffer' = Append(sendBuffer, name) /\ UNCHANGED <<pending, wire>>
<1>1. CASE ~view
  BY <1>1 DEF Emit
<1>2. CASE view /\ link = "up"
  BY <1>2 DEF Emit
<1>3. CASE view /\ link # "up"
  BY <1>3 DEF Emit
<1> QED
  BY <1>1, <1>2, <1>3

\* Emitting keeps the types.
LEMMA EmitTyped ==
  ASSUME TypeOK, NEW kind \in Kind, NEW stroke \in 0 .. Len(events) + 1, Emit(kind, stroke),
         active' \in Event \cup {0, Len(events) + 1}
  PROVE  TypeOK'
<1>1. PICK name : name = Len(events) + 1
  OBVIOUS
<1>2. /\ name \in 1 .. MaxEvents /\ name \notin Event /\ Event' = Event \cup {name}
      /\ \A n \in Event : events'[n] = events[n]
      /\ events'[name] = [kind |-> kind, stroke |-> stroke, session |-> session,
                          late |-> ~view /\ link = "up"]
      /\ events' \in Seq(SomeEvent(session)) /\ Len(events') = name
      /\ session \in 1 .. MaxSessions /\ session' = session
  BY <1>1, EmitAppends
<1>3. UNCHANGED <<sessions, expired, page, view, link, isConnected, lost, roomVars, losses>> /\ page = "canvas"
  BY DEF Emit
<1>4. TabTyped'
  <2>1. active' \in Event' \cup {0}
    BY <1>1, <1>2
  <2>2. Len(events') <= MaxEvents
    BY <1>2
  <2>3. /\ sessions' \in Seq([room : Room, user : 1 .. MaxSessions]) /\ session' <= MaxSessions
        /\ page' = "canvas" /\ session' > 0 /\ expired' \in BOOLEAN /\ view' \in BOOLEAN
    BY <1>2, <1>3 DEF TypeOK, TabTyped
  <2> QED
    BY <1>2, <2>1, <2>2, <2>3 DEF TabTyped, SomeEvent
<1>5. RoomTyped'
  BY <1>2, <1>3, RoomStaysTyped DEF TypeOK
<1>6. /\ wire \in [1 .. MaxSessions -> Seq(Event)] /\ sendBuffer \in Seq(Event) /\ pending \in Seq(Event)
      /\ \A n \in Names(sendBuffer) :
           /\ events[n].session = session /\ n \notin Names(pending)
           /\ \A on \in 1 .. MaxSessions : n \notin Names(wire[on])
  BY DEF TypeOK, SocketTyped
<1>7. /\ wire \in [1 .. MaxSessions -> Seq(Event')] /\ sendBuffer \in Seq(Event') /\ pending \in Seq(Event')
  <2>1. \A on \in 1 .. MaxSessions : wire[on] \in Seq(Event')
    <3>1. \A on \in 1 .. MaxSessions : wire[on] \in Seq(Event)
      BY <1>6
    <3> QED
      BY <1>2, <3>1, SeqMonotonic
  <2> QED
    BY <1>2, <1>6, <2>1, SeqMonotonic
<1>8. Names(sendBuffer) \subseteq Event /\ Names(pending) \subseteq Event
      /\ \A on \in 1 .. MaxSessions : Names(wire[on]) \subseteq Event
  BY <1>6, NamesInQueue
<1>9. \A n \in Names(sendBuffer) : events'[n].session = session'
  BY <1>2, <1>6, <1>8
<1>10. /\ sendBuffer' \in Seq(Event') /\ pending' \in Seq(Event')
       /\ wire' \in [1 .. MaxSessions -> Seq(Event')]
       /\ \A n \in Names(sendBuffer') :
            /\ events'[n].session = session' /\ n \notin Names(pending')
            /\ \A on \in 1 .. MaxSessions : n \notin Names(wire'[on])
  <2>1. CASE pending' = Append(pending, name) /\ UNCHANGED <<sendBuffer, wire>>
    <3>1. pending' \in Seq(Event') /\ Names(pending') = Names(pending) \cup {name}
      BY <1>2, <1>7, <2>1, AppendToQueue
    <3> QED
      BY <1>2, <1>6, <1>7, <1>8, <1>9, <2>1, <3>1
  <2>2. CASE /\ wire' = [wire EXCEPT ![session] = Append(wire[session], name)]
             /\ UNCHANGED <<pending, sendBuffer>>
    <3> DEFINE more == Append(wire[session], name)
    <3>1. wire[session] \in Seq(Event')
      BY <1>2, <1>7
    <3>2. more \in Seq(Event') /\ Names(more) = Names(wire[session]) \cup {name}
      BY <1>2, <3>1, AppendToQueue
    <3>3. wire' = [wire EXCEPT ![session] = more]
      BY <2>2
    <3> HIDE DEF more
    <3>4. /\ wire' \in [1 .. MaxSessions -> Seq(Event')]
          /\ \A on \in 1 .. MaxSessions : Names(wire'[on]) \subseteq Names(wire[on]) \cup {name}
      BY <1>7, <3>2, <3>3
    <3> QED
      BY <1>2, <1>6, <1>7, <1>8, <1>9, <2>2, <3>4
  <2>3. CASE sendBuffer' = Append(sendBuffer, name) /\ UNCHANGED <<pending, wire>>
    <3>1. sendBuffer' \in Seq(Event') /\ Names(sendBuffer') = Names(sendBuffer) \cup {name}
      BY <1>2, <1>7, <2>3, AppendToQueue
    <3>2. events'[name].session = session'
      BY <1>2
    <3> QED
      BY <1>2, <1>6, <1>7, <1>8, <1>9, <2>3, <3>1, <3>2
  <2> QED
    BY <1>1, <2>1, <2>2, <2>3, EmitQueues
<1>11. SocketTyped'
  <2>1. link' \in {"none", "connecting", "up", "down", "given up", "kicked", "refused"}
    BY <1>3 DEF TypeOK, SocketTyped
  <2>2. session' > 0
    BY <1>2
  <2>3. isConnected' = (link' = "up")
    BY <1>3 DEF TypeOK, SocketTyped
  <2>4. (link' = "refused" => expired') /\ (link' = "up" => ~expired')
    BY <1>3 DEF TypeOK, SocketTyped
  <2>5. lost' \subseteq Event'
    BY <1>2, <1>3 DEF TypeOK, SocketTyped
  <2> QED
    BY <1>10, <2>1, <2>2, <2>3, <2>4, <2>5 DEF SocketTyped
<1> QED
  BY <1>3, <1>4, <1>5, <1>11 DEF TypeOK

\* So do the pointer's steps.
LEMMA PointerEmits ==
  ASSUME TypeOK, PointerDown \/ PointerPours \/ PointerMove \/ PointerUp
  PROVE  \E kind \in Kind : \E stroke \in 0 .. Len(events) + 1 :
           /\ Emit(kind, stroke)
           /\ \/ kind = "stroke_begin" /\ stroke = Len(events) + 1 /\ active' = stroke
              \/ kind = "coffee_pour" /\ stroke = 0 /\ active' = active
              \/ kind = "stroke_segment" /\ active # 0 /\ stroke = active /\ active' = active
              \/ kind = "stroke_end" /\ active # 0 /\ stroke = active /\ active' = 0
<1>1. Event = 1 .. Len(events) /\ Len(events) \in Nat /\ active \in Event \cup {0}
  BY Places DEF TypeOK, TabTyped
<1>2. active \in 0 .. Len(events) + 1 /\ Len(events) + 1 \in 0 .. Len(events) + 1 /\ 0 \in 0 .. Len(events) + 1
  BY <1>1
<1> QED
  BY <1>2 DEF PointerDown, PointerPours, PointerMove, PointerUp, Kind

\* See PointerEmits.
LEMMA PointerTyped ==
  ASSUME TypeOK, PointerDown \/ PointerPours \/ PointerMove \/ PointerUp
  PROVE  TypeOK'
<1>1. PICK kind \in Kind : \E stroke \in 0 .. Len(events) + 1 :
        /\ Emit(kind, stroke)
        /\ \/ kind = "stroke_begin" /\ stroke = Len(events) + 1 /\ active' = stroke
           \/ kind = "coffee_pour" /\ stroke = 0 /\ active' = active
           \/ kind = "stroke_segment" /\ active # 0 /\ stroke = active /\ active' = active
           \/ kind = "stroke_end" /\ active # 0 /\ stroke = active /\ active' = 0
  BY PointerEmits
<1>2. PICK stroke \in 0 .. Len(events) + 1 :
        Emit(kind, stroke) /\ (active' = Len(events) + 1 \/ active' = active \/ active' = 0)
  BY <1>1
<1>3. active' \in Event \cup {0, Len(events) + 1}
  BY <1>2 DEF TypeOK, TabTyped
<1> QED
  BY <1>2, <1>3, EmitTyped

\* The event has the room and the user of the session on whose socket it arrives.
Own(name, on) ==
  RoomOf(events[name]) = sessions[on].room /\ UserOf(events[name]) = sessions[on].user

\* What the service does with a message: it hangs up, relays it, or ignores it. What was
\* behind the message stays there in its order, or is lost if it hangs up.
LEMMA DeliverCases ==
  ASSUME TypeOK, NEW on \in 1 .. MaxSessions, Deliver(on), NEW name, name = Head(wire[on])
  PROVE  /\ wire[on] \in Seq(Event) /\ wire[on] # <<>> /\ name \in Event /\ name \in Names(wire[on])
         /\ UNCHANGED <<tabVars, sendBuffer, pending, losses>>
         /\ wire' \in [1 .. MaxSessions -> Seq(Event)]
         /\ \A o \in 1 .. MaxSessions : o # on => wire'[o] = wire[o]
         /\ Names(wire'[on]) \subseteq Names(wire[on])
         /\ \A rel : OrderedBy(wire[on], rel) => OrderedBy(wire'[on], rel)
         /\ lost \subseteq lost' /\ lost' \subseteq lost \cup Names(wire[on])
         /\ Names(wire[on]) \subseteq {name} \cup Names(wire'[on]) \cup lost'
         /\ \/ /\ ~Own(name, on) /\ UNCHANGED <<begun, relayed, watcher, missed>>
               /\ kicks' = kicks \cup {[event |-> name, on |-> on]}
            \/ /\ wire'[on] = Tail(wire[on]) /\ UNCHANGED <<roomVars, lost>>
               /\ Own(name, on) => events[name].kind = "stroke_end" /\ events[name].stroke \notin begun
            \/ wire'[on] = Tail(wire[on]) /\ UNCHANGED lost /\ Own(name, on) /\ Relay(name)
               /\ (events[name].kind = "stroke_end" => events[name].stroke \in begun)
         /\ \/ UNCHANGED <<link, isConnected>>
            \/ on = session /\ link' = "kicked" /\ isConnected' = FALSE
<1>1. wire \in [1 .. MaxSessions -> Seq(Event)]
  BY DEF TypeOK, SocketTyped
<1>2. wire[on] \in Seq(Event) /\ wire[on] # <<>>
  BY <1>1 DEF Deliver
<1>3. /\ name \in Names(wire[on]) /\ Tail(wire[on]) \in Seq(Event) /\ Names(wire[on]) \subseteq Event
      /\ Names(Tail(wire[on])) \subseteq Names(wire[on])
      /\ \A rel : OrderedBy(wire[on], rel) => OrderedBy(Tail(wire[on]), rel)
  BY <1>2, TailOfQueue, NamesInQueue
<1>4. Names(wire[on]) \subseteq {name} \cup Names(Tail(wire[on]))
  BY <1>2, FirstAndRest
<1> DEFINE hangup == ~Own(name, on) /\ events[name].kind \in {"stroke_begin", "coffee_pour"}
<1>5. /\ IF hangup
         THEN \E n \in DOMAIN wire[on] :
                /\ wire' = [wire EXCEPT ![on] = SubSeq(@, 2, n)]
                /\ lost' = lost \cup ToSet(SubSeq(wire[on], n + 1, Len(wire[on])))
         ELSE wire' = [wire EXCEPT ![on] = Tail(@)] /\ UNCHANGED lost
      /\ IF hangup
         THEN kicks' = kicks \cup {[event |-> name, on |-> on]}
              /\ UNCHANGED <<begun, relayed, watcher, missed>>
         ELSE IF Own(name, on) /\ (events[name].kind = "stroke_end" => events[name].stroke \in begun)
         THEN Relay(name)
         ELSE UNCHANGED roomVars
      /\ IF hangup /\ on = session
         THEN link' = "kicked" /\ isConnected' = FALSE
         ELSE UNCHANGED <<link, isConnected>>
      /\ UNCHANGED <<tabVars, sendBuffer, pending, losses>>
  BY DEF Deliver, Own
<1>6. CASE hangup
  <2>1. PICK n \in DOMAIN wire[on] :
          /\ wire' = [wire EXCEPT ![on] = SubSeq(wire[on], 2, n)]
          /\ lost' = lost \cup ToSet(SubSeq(wire[on], n + 1, Len(wire[on])))
    BY <1>5, <1>6
  <2> DEFINE part == SubSeq(wire[on], 2, n)
             rest == SubSeq(wire[on], n + 1, Len(wire[on]))
  <2>2. wire' = [wire EXCEPT ![on] = part] /\ lost' = lost \cup Names(rest)
    BY <2>1 DEF Names
  <2>3. part = SubSeq(wire[on], 2, n) /\ rest = SubSeq(wire[on], n + 1, Len(wire[on]))
    OBVIOUS
  <2> HIDE DEF part, rest
  <2>4. /\ part \in Seq(Event) /\ Names(part) \subseteq Names(wire[on]) /\ Names(rest) \subseteq Names(wire[on])
        /\ Names(wire[on]) \subseteq {name} \cup Names(part) \cup Names(rest)
        /\ \A rel : OrderedBy(wire[on], rel) => OrderedBy(part, rel)
    <3> DEFINE q == wire[on]
    <3>1. q \in Seq(Event) /\ n \in DOMAIN q
      BY <1>2, <2>1
    <3>2. part = SubSeq(q, 2, n) /\ rest = SubSeq(q, n + 1, Len(q)) /\ name = Head(q)
      BY <2>3
    <3> HIDE DEF q
    <3>3. /\ SubSeq(q, 2, n) \in Seq(Event) /\ Names(SubSeq(q, 2, n)) \subseteq Names(q)
          /\ Names(SubSeq(q, n + 1, Len(q))) \subseteq Names(q)
          /\ Names(q) \subseteq {Head(q)} \cup Names(SubSeq(q, 2, n)) \cup Names(SubSeq(q, n + 1, Len(q)))
          /\ \A rel : OrderedBy(q, rel) => OrderedBy(SubSeq(q, 2, n), rel)
      BY <3>1, PartOfQueue
    <3> QED
      BY <3>2, <3>3 DEF q
  <2>5. wire' \in [1 .. MaxSessions -> Seq(Event)] /\ wire'[on] = part
        /\ \A o \in 1 .. MaxSessions : o # on => wire'[o] = wire[o]
    BY <1>1, <2>2, <2>4
  <2>6. /\ ~Own(name, on) /\ kicks' = kicks \cup {[event |-> name, on |-> on]}
        /\ UNCHANGED <<begun, relayed, watcher, missed>>
        /\ UNCHANGED <<tabVars, sendBuffer, pending, losses>>
    BY <1>5, <1>6
  <2>7. UNCHANGED <<link, isConnected>> \/ (on = session /\ link' = "kicked" /\ isConnected' = FALSE)
    BY <1>5
  <2> HIDE DEF hangup
  <2> QED
    BY <1>2, <1>3, <2>2, <2>4, <2>5, <2>6, <2>7
<1>7. CASE ~hangup
  <2> DEFINE rest == Tail(wire[on])
  <2>1. UNCHANGED <<link, isConnected, lost>> /\ wire' = [wire EXCEPT ![on] = rest]
        /\ UNCHANGED <<tabVars, sendBuffer, pending, losses>>
    BY <1>5, <1>7
  <2>2. \/ /\ UNCHANGED roomVars
           /\ Own(name, on) => events[name].kind = "stroke_end" /\ events[name].stroke \notin begun
        \/ /\ Own(name, on) /\ Relay(name)
           /\ events[name].kind = "stroke_end" => events[name].stroke \in begun
    BY <1>5, <1>7
  <2>3. rest = Tail(wire[on])
    OBVIOUS
  <2> HIDE DEF hangup, rest
  <2>4. wire' \in [1 .. MaxSessions -> Seq(Event)] /\ wire'[on] = rest
        /\ \A o \in 1 .. MaxSessions : o # on => wire'[o] = wire[o]
    BY <1>1, <1>3, <2>1, <2>3
  <2>5. /\ Names(wire'[on]) \subseteq Names(wire[on])
        /\ \A rel : OrderedBy(wire[on], rel) => OrderedBy(wire'[on], rel)
        /\ lost \subseteq lost' /\ lost' \subseteq lost \cup Names(wire[on])
        /\ Names(wire[on]) \subseteq {name} \cup Names(wire'[on]) \cup lost'
    BY <1>3, <1>4, <2>1, <2>3, <2>4
  <2> QED
    BY <1>2, <1>3, <2>1, <2>2, <2>3, <2>4, <2>5
<1> QED
  BY <1>6, <1>7

\* What the watcher makes of a message is a canvas again, of a stroke it begins if the
\* strokes are named by their begin.
LEMMA DrawnIsTyped ==
  ASSUME NEW names, NEW open,
         NEW canvas \in [on : BOOLEAN, open : SUBSET open,
                         drawn : [1 .. MaxEvents -> Seq(names)],
                         stains : SUBSET names, cursor : {"none", "fresh", "old"}],
         NEW name \in names, NEW event, event.kind \in Kind, NEW more, open \subseteq more,
         event.kind = "stroke_begin" => event.stroke \in more
  PROVE  Drawn(canvas, event, name) \in
           [on : BOOLEAN, open : SUBSET more, drawn : [1 .. MaxEvents -> Seq(names)],
            stains : SUBSET names, cursor : {"none", "fresh", "old"}]
<1>1. CASE event.kind = "stroke_begin"
  <2>1. Drawn(canvas, event, name) = RemoteStrokeBegin(canvas, event.stroke)
    BY <1>1 DEF Drawn
  <2> QED
    BY <1>1, <2>1 DEF RemoteStrokeBegin
<1>2. CASE event.kind = "stroke_segment"
  <2>1. Drawn(canvas, event, name) = RemoteStrokeSegment(canvas, event.stroke, name)
    BY <1>2 DEF Drawn
  <2>2. CASE event.stroke \in canvas.open
    <3> DEFINE drawn == [canvas.drawn EXCEPT ![event.stroke] = Append(canvas.drawn[event.stroke], name)]
    <3>1. drawn \in [1 .. MaxEvents -> Seq(names)]
      <4>1. \A n \in 1 .. MaxEvents : Append(canvas.drawn[n], name) \in Seq(names)
        <5>1. \A n \in 1 .. MaxEvents : canvas.drawn[n] \in Seq(names)
          OBVIOUS
        <5> QED
          BY <5>1, AppendToQueue
      <4> QED
        BY <4>1
    <3>2. Drawn(canvas, event, name) = [canvas EXCEPT !.drawn = drawn]
      BY <2>1, <2>2 DEF RemoteStrokeSegment
    <3> HIDE DEF drawn
    <3> QED
      BY <3>1, <3>2
  <2>3. CASE event.stroke \notin canvas.open
    BY <2>1, <2>3 DEF RemoteStrokeSegment
  <2> QED
    BY <2>2, <2>3
<1>3. CASE event.kind = "stroke_end"
  <2>1. Drawn(canvas, event, name) = RemoteStrokeEnd(canvas, event.stroke)
    BY <1>3 DEF Drawn
  <2> QED
    BY <2>1 DEF RemoteStrokeEnd
<1>4. CASE event.kind = "coffee_pour"
  <2>1. Drawn(canvas, event, name) = StainResult(canvas, name)
    BY <1>4 DEF Drawn
  <2> QED
    BY <2>1 DEF StainResult
<1> QED
  BY <1>1, <1>2, <1>3, <1>4 DEF Kind

\* Relaying a message keeps the room's types.
LEMMA RelayTyped ==
  ASSUME TypeOK, StrokesHaveShape, NEW name \in Event, Relay(name), UNCHANGED events
  PROVE  RoomTyped'
<1>1. Event' = Event /\ events[name] \in SomeEvent(session)
  BY Places DEF TypeOK, Event
<1>2. /\ relayed \in Seq(Event) /\ missed \subseteq Names(relayed)
      /\ begun \subseteq Event /\ kicks \subseteq [event : Event, on : 1 .. MaxSessions]
      /\ watcher \in [on : BOOLEAN, open : SUBSET begun, drawn : [1 .. MaxEvents -> Seq(Event)],
                      stains : SUBSET Event, cursor : {"none", "fresh", "old"}]
  BY DEF TypeOK, RoomTyped
<1>3. relayed' = Append(relayed, name) /\ relayed' \in Seq(Event) /\ Names(relayed') = Names(relayed) \cup {name}
  BY <1>2, AppendToQueue DEF Relay
<1>4. /\ begun \subseteq begun' /\ begun' \subseteq Event
      /\ events[name].kind = "stroke_begin" => events[name].stroke \in begun'
  BY <1>2 DEF Relay, StrokesHaveShape
<1>5. watcher' \in [on : BOOLEAN, open : SUBSET begun', drawn : [1 .. MaxEvents -> Seq(Event)],
                    stains : SUBSET Event, cursor : {"none", "fresh", "old"}]
  <2>1. CASE watcher' = watcher
    BY <1>2, <1>4, <2>1
  <2>2. CASE watcher' = Drawn(watcher, events[name], name)
    <3> DEFINE event == events[name]
    <3>1. PICK more : more = begun'
      OBVIOUS
    <3>2. event.kind \in Kind
      BY <1>1 DEF SomeEvent
    <3>3. event.kind = "stroke_begin" => event.stroke \in more
      BY <1>4, <3>1
    <3>4. begun \subseteq more
      BY <1>4, <3>1
    <3>5. watcher' = Drawn(watcher, event, name)
      BY <2>2
    <3>6. watcher \in [on : BOOLEAN, open : SUBSET begun, drawn : [1 .. MaxEvents -> Seq(Event)],
                       stains : SUBSET Event, cursor : {"none", "fresh", "old"}]
      BY <1>2
    <3> HIDE DEF event
    <3>7. Drawn(watcher, event, name) \in
            [on : BOOLEAN, open : SUBSET more, drawn : [1 .. MaxEvents -> Seq(Event)],
             stains : SUBSET Event, cursor : {"none", "fresh", "old"}]
      BY ONLY <3>2, <3>3, <3>4, <3>6, name \in Event, DrawnIsTyped
    <3> QED
      BY <3>1, <3>5, <3>7
  <2> QED
    BY <2>1, <2>2 DEF Relay
<1>6. missed' \subseteq Names(relayed') /\ kicks' = kicks
  BY <1>2, <1>3 DEF Relay
<1> QED
  BY <1>1, <1>2, <1>3, <1>4, <1>5, <1>6 DEF RoomTyped

\* Delivering a message keeps the types.
LEMMA DeliverTyped ==
  ASSUME TypeOK, StrokesHaveShape, NEW on \in 1 .. MaxSessions, Deliver(on)
  PROVE  TypeOK' /\ session' = session /\ Event' = Event
<1>1. PICK name : name = Head(wire[on])
  OBVIOUS
<1>2. /\ wire[on] \in Seq(Event) /\ wire[on] # <<>> /\ name \in Event
      /\ UNCHANGED <<tabVars, sendBuffer, pending, losses>>
      /\ wire' \in [1 .. MaxSessions -> Seq(Event)]
      /\ \A o \in 1 .. MaxSessions : o # on => wire'[o] = wire[o]
      /\ Names(wire'[on]) \subseteq Names(wire[on]) /\ lost' \subseteq lost \cup Names(wire[on])
  BY <1>1, DeliverCases
<1>3. \/ UNCHANGED <<begun, relayed, watcher, missed>>
         /\ kicks' = kicks \cup {[event |-> name, on |-> on]}
      \/ UNCHANGED roomVars
      \/ Relay(name)
  BY <1>1, DeliverCases
<1>4. \/ UNCHANGED <<link, isConnected>>
      \/ on = session /\ link' = "kicked" /\ isConnected' = FALSE
  BY <1>1, DeliverCases
<1>5. TabTyped' /\ session' = session /\ Event' = Event
  BY <1>2, SameTab DEF TypeOK, TabTyped, tabVars
<1>6. SocketTyped'
  <2>1. lost' \subseteq Event
    BY <1>2, NamesInQueue DEF TypeOK, SocketTyped
  <2>2. \A o \in 1 .. MaxSessions : Names(wire'[o]) \subseteq Names(wire[o])
    BY <1>2
  <2>3. \/ UNCHANGED <<link, isConnected, expired>>
        \/ /\ link' \in {"down", "given up", "kicked", "refused"} /\ isConnected' = FALSE
           /\ session > 0 /\ (link' = "refused" => expired' = TRUE)
    <3>1. CASE UNCHANGED <<link, isConnected>>
      BY <1>2, <3>1 DEF tabVars
    <3>2. CASE on = session /\ link' = "kicked" /\ isConnected' = FALSE
      BY <3>2
    <3> QED
      BY <1>4, <3>1, <3>2
  <2>4. UNCHANGED <<sessions, events, sendBuffer, pending>> /\ SocketTyped
    BY <1>2 DEF tabVars, TypeOK
  <2> QED
    BY <1>2, <2>1, <2>2, <2>3, <2>4, SocketWithoutConnection
<1>7. RoomTyped'
  <2>1. CASE UNCHANGED roomVars
    BY <1>2, <2>1, SameRoom DEF TypeOK, tabVars
  <2>2. CASE UNCHANGED <<begun, relayed, watcher, missed>>
             /\ kicks' = kicks \cup {[event |-> name, on |-> on]}
    BY <1>2, <1>5, <2>2 DEF TypeOK, RoomTyped
  <2>3. CASE Relay(name)
    BY <1>2, <2>3, RelayTyped DEF tabVars
  <2> QED
    BY <1>3, <2>1, <2>2, <2>3
<1> QED
  BY <1>2, <1>5, <1>6, <1>7 DEF TypeOK

-----------------------------------------------------------------------------
(* The shape of strokes.                                                    *)

\* Steps that emit nothing keep the shape of strokes.
LEMMA ShapeKept ==
  ASSUME StrokesHaveShape, UNCHANGED events,
         active' = 0 \/ (active' = active /\ session' = session)
  PROVE  StrokesHaveShape'
<1>1. Event' = Event
  BY DEF Event
<1> QED
  BY <1>1 DEF StrokesHaveShape

\* What the pointer emits fits the strokes that are there.
LEMMA ShapePointer ==
  ASSUME TypeOK, StrokesHaveShape, PointerDown \/ PointerPours \/ PointerMove \/ PointerUp
  PROVE  StrokesHaveShape'
<1>1. PICK kind \in Kind, stroke \in 0 .. Len(events) + 1 :
        /\ Emit(kind, stroke)
        /\ \/ kind = "stroke_begin" /\ stroke = Len(events) + 1 /\ active' = stroke
           \/ kind = "coffee_pour" /\ stroke = 0 /\ active' = active
           \/ kind = "stroke_segment" /\ active # 0 /\ stroke = active /\ active' = active
           \/ kind = "stroke_end" /\ active # 0 /\ stroke = active /\ active' = 0
  BY PointerEmits
<1>2. PICK name : name = Len(events) + 1
  OBVIOUS
<1>3. /\ name \in 1 .. MaxEvents /\ name \notin Event /\ Event' = Event \cup {name}
      /\ \A n \in Event : n \in Nat /\ n < name /\ events'[n] = events[n]
      /\ events'[name] = [kind |-> kind, stroke |-> stroke, session |-> session,
                          late |-> ~view /\ link = "up"]
      /\ session' = session
  BY <1>1, <1>2, EmitAppends
<1>4. active \in Event \cup {0} /\ Event = 1 .. Len(events) /\ Len(events) \in Nat
  BY Places DEF TypeOK, TabTyped
<1>5. /\ events'[name].kind = kind /\ events'[name].stroke = stroke /\ events'[name].session = session
      /\ name \in Nat /\ name # 0 /\ 0 \notin Event
  BY <1>2, <1>3, <1>4
<1>6. \A n \in Event : events[n].stroke # name
  <2>1. \A n \in Event : events[n].stroke # 0 => events[n].stroke \in 1 .. n
    BY DEF StrokesHaveShape
  <2> QED
    BY <1>2, <1>4, <2>1
<1>7. \A n \in Event' : events'[n].kind = "stroke_begin" => events'[n].stroke = n
  BY <1>1, <1>2, <1>3, <1>5 DEF StrokesHaveShape
<1>8. \A n \in Event' : events'[n].kind = "coffee_pour" <=> events'[n].stroke = 0
  <2>1. kind = "coffee_pour" <=> stroke = 0
    BY <1>1, <1>2, <1>5
  <2>2. \A n \in Event : events'[n].kind = "coffee_pour" <=> events'[n].stroke = 0
    BY <1>3 DEF StrokesHaveShape
  <2> QED
    BY <1>3, <1>5, <2>1, <2>2
<1>9. \A n \in Event' : events'[n].stroke # 0 =>
        /\ events'[n].stroke \in 1 .. n
        /\ events'[events'[n].stroke].kind = "stroke_begin"
        /\ events'[events'[n].stroke].session = events'[n].session
  <2> SUFFICES ASSUME NEW n \in Event', events'[n].stroke # 0
               PROVE  /\ events'[n].stroke \in 1 .. n
                      /\ events'[events'[n].stroke].kind = "stroke_begin"
                      /\ events'[events'[n].stroke].session = events'[n].session
    OBVIOUS
  <2>1. CASE n \in Event
    <3> DEFINE st == events[n].stroke
    <3>1. events'[n] = events[n]
      BY <1>3, <2>1
    <3>2. st # 0 /\ st \in 1 .. n /\ events[st].kind = "stroke_begin" /\ events[st].session = events[n].session
      BY <2>1, <3>1 DEF StrokesHaveShape
    <3>3. st \in Event
      BY <1>4, <2>1, <3>2
    <3>4. events'[st] = events[st]
      BY <1>3, <3>3
    <3> QED
      BY <3>1, <3>2, <3>4
  <2>2. CASE n = name /\ stroke = name
    BY <1>1, <1>2, <1>4, <1>5, <2>2
  <2>3. CASE n = name /\ active # 0 /\ stroke = active
    <3>1. active \in Event /\ active \in 1 .. name /\ events'[active] = events[active]
      BY <1>2, <1>3, <1>4, <2>3
    <3>2. events[active].kind = "stroke_begin" /\ events[active].session = session
      BY <2>3 DEF StrokesHaveShape
    <3> QED
      BY <1>5, <2>3, <3>1, <3>2
  <2> QED
    BY <1>1, <1>2, <1>3, <1>5, <2>1, <2>2, <2>3
<1>10. \A n, m \in Event' : events'[n].kind = "stroke_end" /\ events'[m].stroke = events'[n].stroke => m <= n
  <2> SUFFICES ASSUME NEW n \in Event', NEW m \in Event', events'[n].kind = "stroke_end",
                      events'[m].stroke = events'[n].stroke
               PROVE  m <= n
    OBVIOUS
  <2>1. CASE n \in Event /\ m \in Event
    BY <1>3, <2>1 DEF StrokesHaveShape
  <2>2. CASE n = name
    BY <1>3, <1>5, <2>2
  <2>3. CASE n \in Event /\ m = name
    <3>1. events[n].kind = "stroke_end" /\ events[n].stroke = stroke
      BY <1>3, <1>5, <2>3
    <3>2. stroke # name
      BY <1>6, <2>3, <3>1
    <3>3. CASE stroke = 0
      <4>1. kind = "coffee_pour"
        BY <1>1, <1>2, <1>5, <3>3
      <4>2. events[n].stroke # 0
        BY <2>3, <3>1 DEF StrokesHaveShape
      <4> QED
        BY <3>1, <3>3, <4>2
    <3>4. CASE active # 0 /\ stroke = active
      BY <2>3, <3>1, <3>4 DEF StrokesHaveShape
    <3> QED
      BY <1>1, <1>2, <3>2, <3>3, <3>4
  <2> QED
    BY <1>3, <2>1, <2>2, <2>3
<1>11. active' # 0 =>
         /\ events'[active'].kind = "stroke_begin" /\ events'[active'].session = session'
         /\ \A n \in Event' : events'[n].stroke = active' => events'[n].kind # "stroke_end"
  <2>1. CASE kind = "stroke_begin" /\ active' = name
    BY <1>3, <1>5, <1>6, <2>1
  <2>2. CASE active' = active /\ kind # "stroke_end"
    BY <1>3, <1>4, <1>5, <2>2 DEF StrokesHaveShape
  <2>3. CASE active' = 0
    BY <2>3
  <2> QED
    BY <1>1, <1>2, <2>1, <2>2, <2>3
<1> QED
  BY <1>7, <1>8, <1>9, <1>10, <1>11 DEF StrokesHaveShape

-----------------------------------------------------------------------------
(* Where the queues meet.                                                   *)

\* Steps that leave the queues and the events alone and make no connection.
LEMMA QueuesMeetKept ==
  ASSUME TypeOK, QueuesMeet, UNCHANGED <<events, sendBuffer, pending>>,
         \/ UNCHANGED view
         \/ view' = isConnected /\ UNCHANGED link,
         link' = "up" => link = "up"
  PROVE  QueuesMeet'
<1>1. link' = "up" => sendBuffer' = <<>>
  BY DEF QueuesMeet
<1>2. view' \/ link' = "up" => view \/ link = "up"
  <2>1. isConnected = (link = "up")
    BY DEF TypeOK, SocketTyped
  <2> QED
    BY <2>1
<1>3. \A n \in Names(pending') : view' \/ link' = "up" => events'[n].late
  BY <1>2 DEF QueuesMeet
<1> QED
  BY <1>1, <1>3 DEF QueuesMeet

\* What is emitted without a connection in the last render is late if there is one.
LEMMA QueuesMeetPointer ==
  ASSUME TypeOK, QueuesMeet, PointerDown \/ PointerPours \/ PointerMove \/ PointerUp
  PROVE  QueuesMeet'
<1>1. PICK kind \in Kind, stroke \in 0 .. Len(events) + 1 : Emit(kind, stroke)
  BY PointerEmits
<1>2. PICK name : name = Len(events) + 1
  OBVIOUS
<1>3. /\ \A n \in Event : events'[n] = events[n]
      /\ events'[name].late = (~view /\ link = "up") /\ name \notin Event /\ Event' = Event \cup {name}
  <2>1. /\ \A n \in Event : events'[n] = events[n]
        /\ events'[name] = [kind |-> kind, stroke |-> stroke, session |-> session,
                            late |-> ~view /\ link = "up"]
        /\ name \notin Event /\ Event' = Event \cup {name}
    BY <1>1, <1>2, EmitAppends
  <2>2. events'[name].late = (~view /\ link = "up")
    BY <2>1
  <2> QED
    BY <2>1, <2>2
<1>4. UNCHANGED <<view, link>>
  BY <1>1 DEF Emit
<1>5. pending \in Seq(Event) /\ Names(pending) \subseteq Event
  BY NamesInQueue DEF TypeOK, SocketTyped
<1>6. CASE ~view /\ pending' = Append(pending, name) /\ UNCHANGED <<sendBuffer, wire>>
  <2>1. pending \in Seq(Event')
    BY <1>3, <1>5, SeqMonotonic
  <2>2. Names(pending') = Names(pending) \cup {name}
    BY <1>3, <1>6, <2>1, AppendToQueue
  <2>3. link' = "up" => sendBuffer' = <<>>
    BY <1>4, <1>6 DEF QueuesMeet
  <2>4. view' \/ link' = "up" => link = "up"
    BY <1>4, <1>6
  <2>5. link = "up" => events'[name].late
    BY <1>3, <1>6
  <2>6. \A n \in Names(pending) : link = "up" => events'[n].late
    BY <1>3, <1>5 DEF QueuesMeet
  <2> QED
    BY <2>2, <2>3, <2>4, <2>5, <2>6 DEF QueuesMeet
<1>7. CASE UNCHANGED pending /\ (UNCHANGED sendBuffer \/ link # "up")
  <2>1. link' = "up" => sendBuffer' = <<>>
    BY <1>4, <1>7 DEF QueuesMeet
  <2>2. \A n \in Names(pending) : view \/ link = "up" => events'[n].late
    BY <1>3, <1>5 DEF QueuesMeet
  <2> QED
    BY <1>4, <1>7, <2>1, <2>2 DEF QueuesMeet
<1> QED
  BY <1>1, <1>2, <1>6, <1>7, EmitQueues

\* A new socket and a connection empty socket.io's queue; see QueuesMeetKept for the rest.
LEMMA QueuesMeetStep ==
  ASSUME TypeOK, QueuesMeet, [Next]_vars
  PROVE  QueuesMeet'
<1>1. CASE PointerDown \/ PointerPours \/ PointerMove \/ PointerUp
  BY <1>1, QueuesMeetPointer
<1>2. CASE Reload \/ \E room \in Room : Enter(room)
  <2>1. link' = "connecting" /\ sendBuffer' = <<>> /\ view' = FALSE
    BY <1>2 DEF Reload, Enter, NewSocket
  <2> QED
    BY <2>1 DEF QueuesMeet
<1>3. CASE Connect
  <2>1. sendBuffer' = <<>> /\ pending' = <<>>
    BY <1>3 DEF Connect
  <2> QED
    BY <2>1, EmptyQueue DEF QueuesMeet
<1>4. CASE \E on \in 1 .. MaxSessions : Deliver(on)
  <2>1. PICK on \in 1 .. MaxSessions : Deliver(on)
    BY <1>4
  <2>2. UNCHANGED <<events, view, sendBuffer, pending>> /\ (link' = "up" => link = "up")
    BY <2>1, DeliverCases DEF tabVars
  <2> QED
    BY <2>2, QueuesMeetKept
<1>5. CASE Leave \/ Mount \/ Render \/ Refused \/ Lose \/ GiveUp \/ WatcherAway
             \/ WatcherBack \/ CursorMove \/ CursorAges \/ SweepCursors \/ UNCHANGED vars
  <2>1. /\ UNCHANGED <<events, sendBuffer, pending>> /\ (link' = "up" => link = "up")
        /\ UNCHANGED view \/ (view' = isConnected /\ UNCHANGED link)
    BY <1>5 DEF Leave, Mount, Render, Refused, Lose, GiveUp, WatcherAway, WatcherBack, CursorMove,
             CursorAges, SweepCursors, vars, tabVars, socketVars
  <2> QED
    BY <2>1, QueuesMeetKept
<1> QED
  BY <1>1, <1>2, <1>3, <1>4, <1>5 DEF Next

-----------------------------------------------------------------------------
(* Whose event is on a socket.                                              *)

\* Steps that give no credentials and put on a wire at most what waits for it.
LEMMA CarriedKept ==
  ASSUME TypeOK, CarriedOver, UNCHANGED <<sessions, events>>,
         Names(pending') \subseteq Names(pending),
         \A on \in 1 .. MaxSessions :
           \/ Names(wire'[on]) \subseteq Names(wire[on])
           \/ on = session /\ Names(wire'[on]) \subseteq
                Names(wire[on]) \cup Names(sendBuffer) \cup Names(pending)
  PROVE  CarriedOver'
<1>1. session' = session /\ \A n, on : BelongsTo(n, on)' <=> BelongsTo(n, on)
  BY DEF session, BelongsTo, UserOf
<1>2. \A n \in Names(sendBuffer) : BelongsTo(n, session)
  BY DEF TypeOK, SocketTyped, BelongsTo
<1>3. session \in Nat
  BY Places DEF TypeOK
<1>4. ASSUME NEW on \in 1 .. MaxSessions, NEW n \in Names(wire'[on])
      PROVE  on <= session /\ BelongsTo(n, on)
  BY <1>2, <1>3, <1>4 DEF CarriedOver
<1>5. \A n \in Names(pending') : BelongsTo(n, session)
  BY DEF CarriedOver
<1> QED
  BY <1>1, <1>4, <1>5 DEF CarriedOver

\* New credentials: the user is new, or the queue is empty.
LEMMA CarriedNewSocket ==
  ASSUME TypeOK, CarriedOver, Reload \/ \E room \in Room : Enter(room)
  PROVE  CarriedOver'
<1>1. /\ session \in Nat /\ session <= MaxSessions
      /\ \A n \in Event : events[n] \in SomeEvent(session)
  BY Places DEF TypeOK
<1>2. /\ session' = session + 1
      /\ \A s \in 1 .. session : sessions'[s] = sessions[s]
      /\ \/ sessions'[session'].user = session + 1 /\ pending' = pending
         \/ sessions'[session'] = sessions[session] /\ session > 0 /\ pending' = <<>>
  <2>1. CASE Reload
    <3>1. session > 0
      BY <2>1 DEF Reload, TypeOK, TabTyped
    <3> QED
      BY <2>1, <3>1, ReloadsTyped DEF Reload
  <2>2. CASE \E room \in Room : Enter(room)
    <3>1. PICK room \in Room : Enter(room)
      BY <2>2
    <3>2. /\ session' = session + 1 /\ sessions'[session'] = AuthPayload(room)
          /\ \A s \in 1 .. session : sessions'[s] = sessions[s]
      BY <3>1, EntersTyped
    <3>3. AuthPayload(room).user = session + 1 /\ pending' = pending
      BY <3>1 DEF Enter, AuthPayload
    <3> QED
      BY <3>2, <3>3
  <2> QED
    BY <2>1, <2>2
<1>3. UNCHANGED <<events, wire>>
  BY DEF Reload, Enter
<1>4. /\ wire \in [1 .. MaxSessions -> Seq(Event)] /\ pending \in Seq(Event)
  BY DEF TypeOK, SocketTyped
<1>5. \A n \in Event : events[n].session \in 1 .. session
  BY <1>1 DEF SomeEvent
<1>6. \A n \in Event : UserOf(events[n])' = UserOf(events[n]) /\ UserOf(events[n]) <= events[n].session
                       /\ sessions[events[n].session].user \in 1 .. MaxSessions
  <2>1. \A s \in 1 .. session : sessions[s].user \in 1 .. MaxSessions
    BY Places DEF TypeOK
  <2> QED
    BY <1>2, <1>3, <1>5, <2>1 DEF UserOf, CarriedOver
<1>7. \A s \in 1 .. session' : sessions'[s].user <= s
  <2>1. \A s \in 1 .. session : sessions'[s].user <= s
    BY <1>2 DEF CarriedOver
  <2>2. sessions'[session'].user <= session'
    <3>1. CASE sessions'[session'].user = session + 1
      BY <1>1, <1>2, <3>1
    <3>2. CASE sessions'[session'] = sessions[session] /\ session > 0
      <4>1. sessions[session].user \in 1 .. MaxSessions /\ sessions[session].user <= session
        <5>1. session \in 1 .. session
          BY <1>1, <3>2
        <5> QED
          BY <5>1, Places DEF TypeOK, CarriedOver
      <4> QED
        BY <1>1, <1>2, <3>2, <4>1, ClientAssumption
    <3> QED
      BY <1>2, <3>1, <3>2
  <2> QED
    BY <1>1, <1>2, <2>1, <2>2
<1>8. \A on \in 1 .. MaxSessions : \A n \in Names(wire'[on]) : on <= session' /\ BelongsTo(n, on)'
  <2> SUFFICES ASSUME NEW on \in 1 .. MaxSessions, NEW n \in Names(wire[on])
               PROVE  on <= session' /\ BelongsTo(n, on)'
    BY <1>3
  <2>1. on <= session /\ BelongsTo(n, on)
    BY DEF CarriedOver
  <2>2. n \in Event
    <3>1. wire[on] \in Seq(Event)
      BY <1>4
    <3> QED
      BY <3>1, NamesInQueue
  <2>3. sessions'[on] = sessions[on] /\ events'[n] = events[n]
    BY <1>1, <1>2, <1>3, <2>1
  <2> QED
    BY <1>1, <1>2, <1>6, <2>1, <2>2, <2>3 DEF BelongsTo
<1>9. \A n \in Names(pending') : \/ events'[n].session = session'
                                 \/ /\ events'[n].session < session'
                                    /\ sessions'[session'].user # UserOf(events[n])'
  <2>1. CASE pending' = <<>>
    BY <2>1, EmptyQueue
  <2>2. CASE sessions'[session'].user = session + 1 /\ pending' = pending
    <3> SUFFICES ASSUME NEW n \in Names(pending)
                 PROVE  /\ events'[n].session < session'
                        /\ sessions'[session'].user # UserOf(events[n])'
      BY <2>2
    <3>1. n \in Event
      BY <1>4, NamesInQueue
    <3>2. events[n].session \in 1 .. session /\ UserOf(events[n])' \in Int /\ UserOf(events[n])' < session + 1
      BY <1>1, <1>5, <1>6, <3>1, ClientAssumption DEF UserOf
    <3> QED
      BY <1>1, <1>2, <1>3, <2>2, <3>2
  <2> QED
    BY <1>2, <2>1, <2>2
<1>10. \A n \in Names(pending') : BelongsTo(n, session)'
  BY <1>9 DEF BelongsTo
<1> QED
  BY <1>7, <1>8, <1>10 DEF CarriedOver

\* What is emitted belongs to the current session.
LEMMA CarriedPointer ==
  ASSUME TypeOK, CarriedOver, PointerDown \/ PointerPours \/ PointerMove \/ PointerUp
  PROVE  CarriedOver'
<1>1. PICK kind \in Kind, stroke \in 0 .. Len(events) + 1 : Emit(kind, stroke)
  BY PointerEmits
<1>2. PICK name : name = Len(events) + 1
  OBVIOUS
<1>3. /\ \A n \in Event : events'[n] = events[n]
      /\ events'[name].session = session /\ name \notin Event /\ Event' = Event \cup {name}
      /\ session \in 1 .. MaxSessions /\ session' = session
  <2>1. /\ \A n \in Event : events'[n] = events[n]
        /\ events'[name] = [kind |-> kind, stroke |-> stroke, session |-> session,
                            late |-> ~view /\ link = "up"]
        /\ name \notin Event /\ Event' = Event \cup {name}
        /\ session \in 1 .. MaxSessions /\ session' = session
    BY <1>1, <1>2, EmitAppends
  <2>2. events'[name].session = session
    BY <2>1
  <2> QED
    BY <2>1, <2>2
<1>4. UNCHANGED sessions
  BY <1>1 DEF Emit
<1>5. wire \in [1 .. MaxSessions -> Seq(Event)] /\ pending \in Seq(Event)
  BY DEF TypeOK, SocketTyped
<1>6. Names(pending) \subseteq Event /\ \A on \in 1 .. MaxSessions : Names(wire[on]) \subseteq Event
  <2>1. \A on \in 1 .. MaxSessions : wire[on] \in Seq(Event)
    BY <1>5
  <2> QED
    BY <1>5, <2>1, NamesInQueue
<1>7. /\ \A n \in Event : \A on : BelongsTo(n, on)' <=> BelongsTo(n, on)
      /\ BelongsTo(name, session)'
  BY <1>3, <1>4 DEF BelongsTo, UserOf
<1>8. /\ Names(pending') \subseteq Names(pending) \cup {name}
      /\ \A on \in 1 .. MaxSessions :
           \/ Names(wire'[on]) \subseteq Names(wire[on])
           \/ on = session /\ Names(wire'[on]) \subseteq Names(wire[on]) \cup {name}
  <2>1. CASE pending' = Append(pending, name) /\ UNCHANGED <<sendBuffer, wire>>
    <3>1. pending \in Seq(Event')
      BY <1>3, <1>5, SeqMonotonic
    <3>2. Names(pending') = Names(pending) \cup {name}
      BY <1>3, <2>1, <3>1, AppendToQueue
    <3> QED
      BY <2>1, <3>2
  <2>2. CASE /\ wire' = [wire EXCEPT ![session] = Append(wire[session], name)]
             /\ UNCHANGED <<pending, sendBuffer>>
    <3>1. wire[session] \in Seq(Event')
      <4>1. wire[session] \in Seq(Event)
        BY <1>3, <1>5
      <4> QED
        BY <1>3, <4>1, SeqMonotonic
    <3> DEFINE more == Append(wire[session], name)
    <3>2. Names(more) = Names(wire[session]) \cup {name}
      BY <1>3, <3>1, AppendToQueue
    <3>3. wire' = [wire EXCEPT ![session] = more]
      BY <2>2
    <3> HIDE DEF more
    <3> QED
      BY <1>3, <1>5, <2>2, <3>2, <3>3
  <2>3. CASE sendBuffer' = Append(sendBuffer, name) /\ UNCHANGED <<pending, wire>>
    BY <2>3
  <2> QED
    BY <1>1, <1>2, <2>1, <2>2, <2>3, EmitQueues
<1>9. \A s \in 1 .. session' : sessions'[s].user <= s
  BY <1>3, <1>4 DEF CarriedOver
<1>10. PICK now : now = session
  OBVIOUS
<1>11. \A n \in Names(pending') : BelongsTo(n, now)'
  <2>1. \A n \in Names(pending) : BelongsTo(n, now)
    BY <1>10 DEF CarriedOver
  <2>2. BelongsTo(name, now)'
    BY <1>3, <1>10 DEF BelongsTo
  <2> QED
    BY <1>6, <1>7, <1>8, <2>1, <2>2
<1>12. \A on \in 1 .. MaxSessions : \A n \in Names(wire'[on]) : on <= now /\ BelongsTo(n, on)'
  <2>1. \A on \in 1 .. MaxSessions : \A n \in Names(wire[on]) : on <= now /\ BelongsTo(n, on)
    BY <1>10 DEF CarriedOver
  <2>2. BelongsTo(name, now)' /\ now <= now
    BY <1>3, <1>10 DEF BelongsTo
  <2> QED
    BY <1>3, <1>6, <1>7, <1>8, <1>10, <2>1, <2>2
<1>13. \A n \in Names(pending') : BelongsTo(n, session)'
  BY <1>3, <1>10, <1>11 DEF BelongsTo
<1> QED
  BY <1>3, <1>9, <1>10, <1>12, <1>13 DEF CarriedOver

\* An event belongs to its session, or was carried over.
LEMMA CarriedStep ==
  ASSUME TypeOK, CarriedOver, [Next]_vars
  PROVE  CarriedOver'
<1>1. CASE PointerDown \/ PointerPours \/ PointerMove \/ PointerUp
  BY <1>1, CarriedPointer
<1>2. CASE Reload \/ \E room \in Room : Enter(room)
  BY <1>2, CarriedNewSocket
<1>3. CASE Connect
  <2>1. UNCHANGED <<sessions, events>> /\ pending' = <<>>
    BY <1>3 DEF Connect, tabVars
  <2>2. Names(pending') = {}
    BY <2>1, EmptyQueue
  <2>3. \A on \in 1 .. MaxSessions :
          IF on = session
          THEN Names(wire'[on]) = Names(wire[on]) \cup Names(sendBuffer) \cup Names(pending)
          ELSE wire'[on] = wire[on]
    BY <1>3, ConnectTyped
  <2> QED
    BY <2>1, <2>2, <2>3, CarriedKept
<1>4. CASE \E on \in 1 .. MaxSessions : Deliver(on)
  <2>1. PICK on \in 1 .. MaxSessions : Deliver(on)
    BY <1>4
  <2>2. UNCHANGED <<sessions, events, pending>>
    BY <2>1, DeliverCases DEF tabVars
  <2>3. /\ Names(wire'[on]) \subseteq Names(wire[on])
        /\ \A o \in 1 .. MaxSessions : o # on => wire'[o] = wire[o]
    BY <2>1, DeliverCases
  <2>4. \A o \in 1 .. MaxSessions : Names(wire'[o]) \subseteq Names(wire[o])
    BY <2>3
  <2> QED
    BY <2>2, <2>4, CarriedKept
<1>5. CASE Leave \/ Mount \/ Render \/ Refused \/ Lose \/ GiveUp \/ WatcherAway
             \/ WatcherBack \/ CursorMove \/ CursorAges \/ SweepCursors \/ UNCHANGED vars
  <2>1. UNCHANGED <<sessions, events, pending>> /\ (UNCHANGED wire \/ wire' = [wire EXCEPT ![session] = <<>>])
    BY <1>5 DEF Leave, Mount, Render, Refused, Lose, GiveUp, WatcherAway, WatcherBack, CursorMove,
             CursorAges, SweepCursors, vars, tabVars, socketVars
  <2>2. \A on \in 1 .. MaxSessions : wire'[on] = wire[on] \/ wire'[on] = <<>>
    BY <2>1 DEF TypeOK, SocketTyped
  <2>3. \A on \in 1 .. MaxSessions : Names(wire'[on]) \subseteq Names(wire[on])
    BY <2>2, EmptyQueue
  <2> QED
    BY <2>1, <2>3, CarriedKept
<1> QED
  BY <1>1, <1>2, <1>3, <1>4, <1>5 DEF Next

-----------------------------------------------------------------------------
(* The line of a session.                                                   *)

\* Which of two events may come first.
LEMMA Allowed ==
  ASSUME NEW s, NEW x \in Event, NEW y \in Event
  PROVE  <<x, y>> \in AllowedIn(s) <=>
           (events[x].session = s /\ events[y].session = s =>
              x # y /\ (x < y \/ events[y].late))
<1>1. <<x, y>> \in Event \X Event /\ <<x, y>>[1] = x /\ <<x, y>>[2] = y
  OBVIOUS
<1> QED
  BY <1>1 DEF AllowedIn

\* The relation grows with the events.
LEMMA MoreAllowed ==
  ASSUME Event \subseteq Event', \A n \in Event : events'[n] = events[n], NEW s
  PROVE  AllowedIn(s) \subseteq AllowedIn(s)'
<1> SUFFICES ASSUME NEW p \in AllowedIn(s) PROVE p \in AllowedIn(s)'
  OBVIOUS
<1>1. /\ p \in Event \X Event /\ p[1] \in Event /\ p[2] \in Event
      /\ events[p[1]].session = s /\ events[p[2]].session = s =>
           p[1] # p[2] /\ (p[1] < p[2] \/ events[p[2]].late)
  BY DEF AllowedIn
<1>2. p \in Event' \X Event' /\ events'[p[1]] = events[p[1]] /\ events'[p[2]] = events[p[2]]
  BY <1>1
<1> QED
  BY <1>1, <1>2 DEF AllowedIn

\* It is the same while nothing is emitted.
LEMMA SameAllowed ==
  ASSUME UNCHANGED events
  PROVE  Event' = Event /\ \A s : AllowedIn(s)' = AllowedIn(s)
<1>1. Event' = Event
  BY DEF Event
<1> QED
  BY <1>1 DEF AllowedIn

\* The queues are typed, and hold events.
LEMMA QueuesTyped ==
  ASSUME TypeOK
  PROVE  /\ relayed \in Seq(Event) /\ Names(relayed) \subseteq Event
         /\ sendBuffer \in Seq(Event) /\ Names(sendBuffer) \subseteq Event
         /\ pending \in Seq(Event) /\ Names(pending) \subseteq Event
         /\ \A s \in 1 .. MaxSessions : wire[s] \in Seq(Event) /\ Names(wire[s]) \subseteq Event
<1>1. /\ relayed \in Seq(Event) /\ sendBuffer \in Seq(Event) /\ pending \in Seq(Event)
      /\ wire \in [1 .. MaxSessions -> Seq(Event)]
  BY DEF TypeOK, SocketTyped, RoomTyped
<1>2. \A s \in 1 .. MaxSessions : wire[s] \in Seq(Event)
  BY <1>1
<1> QED
  BY <1>1, <1>2, NamesInQueue

\* Steps that only empty a wire or move what is on none of them.
LEMMA LineKept ==
  ASSUME TypeOK, InLine, UNCHANGED <<sessions, events, relayed, sendBuffer, pending>>,
         \A s \in 1 .. MaxSessions : wire'[s] = wire[s] \/ wire'[s] = <<>>
  PROVE  InLine'
<1>1. session' = session /\ Event' = Event /\ \A s : AllowedIn(s)' = AllowedIn(s)
  BY SameAllowed DEF session
<1>2. session \in 0 .. MaxSessions
  BY Places DEF TypeOK
<1>3. ASSUME NEW s \in 1 .. MaxSessions
      PROVE  SentInLine(s)'
  <2>1. /\ OrderedBy(relayed, AllowedIn(s)) /\ OrderedBy(wire[s], AllowedIn(s))
        /\ Names(relayed) \X Names(wire[s]) \subseteq AllowedIn(s)
    BY DEF InLine, SentInLine
  <2>2. OrderedBy(wire'[s], AllowedIn(s)) /\ Names(relayed) \X Names(wire'[s]) \subseteq AllowedIn(s)
    <3>1. CASE wire'[s] = wire[s]
      BY <2>1, <3>1
    <3>2. CASE wire'[s] = <<>>
      BY <3>2, EmptyQueue
    <3> QED
      BY <3>1, <3>2
  <2> QED
    BY <1>1, <2>1, <2>2 DEF SentInLine
<1>4. HeldInLine'
  <2>1. HeldInLine
    BY DEF InLine
  <2> DEFINE held == Names(sendBuffer) \cup Names(pending)
  <2>2. session > 0 => Names(wire'[session]) \X held \subseteq AllowedIn(session)
    <3>1. CASE session > 0 /\ wire'[session] = wire[session]
      BY <2>1, <3>1 DEF HeldInLine
    <3>2. CASE session > 0 /\ wire'[session] = <<>>
      <4>1. Names(wire'[session]) = {}
        BY <3>2, EmptyQueue
      <4> QED
        BY <4>1
    <3> QED
      BY <1>2, <3>1, <3>2
  <2> QED
    BY <1>1, <2>1, <2>2 DEF HeldInLine
<1> QED
  BY <1>3, <1>4 DEF InLine

\* A new session has no events yet.
LEMMA LineNewSocket ==
  ASSUME TypeOK, InLine, Reload \/ \E room \in Room : Enter(room)
  PROVE  InLine'
<1>1. session' = session + 1 /\ session \in Nat
  <2>1. session \in Nat
    BY Places DEF TypeOK
  <2>2. CASE Reload
    BY <2>1, <2>2, ReloadsTyped
  <2>3. CASE \E room \in Room : Enter(room)
    BY <2>1, <2>3, EntersTyped
  <2> QED
    BY <2>2, <2>3
<1>2. /\ UNCHANGED <<events, wire, relayed>> /\ sendBuffer' = <<>>
      /\ pending' = pending \/ pending' = <<>>
  BY DEF Reload, Enter, NewSocket, roomVars
<1>3. Event' = Event /\ \A s : AllowedIn(s)' = AllowedIn(s)
  BY <1>2, SameAllowed
<1>4. AllowedIn(session + 1) = Event \X Event
  <2>1. \A n \in Event : events[n].session # session + 1
    <3>1. \A n \in Event : events[n].session \in 1 .. session
      BY Places DEF TypeOK, SomeEvent
    <3> QED
      BY <1>1, <3>1
  <2> QED
    BY <2>1 DEF AllowedIn
<1>5. \A s \in 1 .. MaxSessions : SentInLine(s)'
  BY <1>2, <1>3 DEF InLine, SentInLine
<1>6. \A q \in Seq(Event) : OrderedBy(q, Event \X Event)
  BY NamesInQueue DEF OrderedBy
<1>7. Names(pending') \subseteq Event /\ pending' \in Seq(Event) /\ Names(sendBuffer') = {}
      /\ sendBuffer' \in Seq(Event)
  BY <1>2, QueuesTyped, EmptyQueue, EmptySeq
<1>8. Names(relayed) \subseteq Event
  BY QueuesTyped
<1>9. session' > 0 => Names(wire[session + 1]) = {} \/ Names(wire[session + 1]) \subseteq Event
  <2>1. session + 1 \in 1 .. MaxSessions
    <3>1. session < MaxSessions
      BY DEF Reload, Enter, NewSocket
    <3> QED
      BY <1>1, <3>1, ClientAssumption
  <2> QED
    BY <2>1, QueuesTyped
<1>10. HeldInLine'
  <2>1. OrderedBy(sendBuffer', AllowedIn(session + 1)) /\ OrderedBy(pending', AllowedIn(session + 1))
    BY <1>4, <1>6, <1>7
  <2>2. Names(relayed) \X (Names(sendBuffer') \cup Names(pending')) \subseteq AllowedIn(session + 1)
    BY <1>4, <1>7, <1>8
  <2>3. Names(wire[session + 1]) \X (Names(sendBuffer') \cup Names(pending')) \subseteq AllowedIn(session + 1)
    BY <1>1, <1>4, <1>7, <1>9
  <2>4. Names(sendBuffer') \X Names(pending') \subseteq AllowedIn(session + 1)
    BY <1>7
  <2>5. AllowedIn(session)' = AllowedIn(session + 1)
    BY <1>1, <1>2, <1>3 DEF AllowedIn
  <2> QED
    BY <1>1, <1>2, <2>1, <2>2, <2>3, <2>4, <2>5 DEF HeldInLine
<1> QED
  BY <1>5, <1>10 DEF InLine

\* The connection puts on the wire what waits for it, in that order.
LEMMA LineConnect ==
  ASSUME TypeOK, InLine, Connect
  PROVE  InLine'
<1>1. /\ session' = session /\ Event' = Event /\ session \in 1 .. MaxSessions
      /\ wire'[session] = (wire[session] \o sendBuffer) \o pending
      /\ \A on \in 1 .. MaxSessions : on # session => wire'[on] = wire[on]
      /\ Names(wire'[session]) = Names(wire[session]) \cup Names(sendBuffer) \cup Names(pending)
  BY ConnectTyped
<1>2. UNCHANGED <<events, relayed>> /\ sendBuffer' = <<>> /\ pending' = <<>>
  BY DEF Connect, tabVars, roomVars
<1>3. \A s : AllowedIn(s)' = AllowedIn(s)
  BY <1>2, SameAllowed
<1>4. /\ wire[session] \in Seq(Event) /\ sendBuffer \in Seq(Event) /\ pending \in Seq(Event)
  BY <1>1, QueuesTyped
<1>5. SentInLine(session) /\ HeldInLine
  BY <1>1 DEF InLine
<1>6. OrderedBy(wire'[session], AllowedIn(session))
  <2> DEFINE first == wire[session] \o sendBuffer
             allowed == AllowedIn(session)
  <2>1. OrderedBy(wire[session], allowed) /\ OrderedBy(sendBuffer, allowed) /\ OrderedBy(pending, allowed)
    BY <1>5 DEF SentInLine, HeldInLine
  <2>2. /\ Names(wire[session]) \X Names(sendBuffer) \subseteq allowed
        /\ Names(wire[session]) \X Names(pending) \subseteq allowed
        /\ Names(sendBuffer) \X Names(pending) \subseteq allowed
    BY <1>1, <1>5 DEF HeldInLine
  <2> HIDE DEF allowed
  <2>3. first \in Seq(Event) /\ Names(first) = Names(wire[session]) \cup Names(sendBuffer)
        /\ OrderedBy(first, allowed)
    BY <1>4, <2>1, <2>2, JoinedQueues
  <2>4. Names(first) \X Names(pending) \subseteq allowed
    BY <2>2, <2>3
  <2>5. wire'[session] = first \o pending
    BY <1>1
  <2> HIDE DEF first
  <2>6. OrderedBy(first \o pending, allowed)
    BY <1>4, <2>1, <2>3, <2>4, JoinedQueues
  <2> QED
    BY <2>5, <2>6 DEF allowed
<1>7. Names(relayed) \X Names(wire'[session]) \subseteq AllowedIn(session)
  <2>1. Names(relayed) \X Names(wire[session]) \subseteq AllowedIn(session)
    BY <1>5 DEF SentInLine
  <2>2. Names(relayed) \X (Names(sendBuffer) \cup Names(pending)) \subseteq AllowedIn(session)
    BY <1>5 DEF HeldInLine
  <2> QED
    BY <1>1, <2>1, <2>2
<1>8. \A s \in 1 .. MaxSessions : SentInLine(s)'
  <2> SUFFICES ASSUME NEW s \in 1 .. MaxSessions PROVE SentInLine(s)'
    OBVIOUS
  <2>1. SentInLine(s)
    BY DEF InLine
  <2>2. CASE s = session
    BY <1>2, <1>3, <1>6, <1>7, <2>1, <2>2 DEF SentInLine
  <2>3. CASE s # session
    BY <1>1, <1>2, <1>3, <2>1, <2>3 DEF SentInLine
  <2> QED
    BY <2>2, <2>3
<1>9. HeldInLine'
  <2>1. Names(sendBuffer') = {} /\ Names(pending') = {}
        /\ OrderedBy(sendBuffer', AllowedIn(session)') /\ OrderedBy(pending', AllowedIn(session)')
    BY <1>2, EmptyQueue
  <2> QED
    BY <2>1 DEF HeldInLine
<1> QED
  BY <1>8, <1>9 DEF InLine

\* What is emitted comes after every event, or before late ones.
LEMMA LinePointer ==
  ASSUME TypeOK, InLine, QueuesMeet, PointerDown \/ PointerPours \/ PointerMove \/ PointerUp
  PROVE  InLine'
<1>1. PICK kind \in Kind, stroke \in 0 .. Len(events) + 1 : Emit(kind, stroke)
  BY PointerEmits
<1>2. PICK name : name = Len(events) + 1
  OBVIOUS
<1>3. /\ \A n \in Event : n \in Nat /\ n < name /\ events'[n] = events[n]
      /\ name \in 1 .. MaxEvents /\ name \notin Event /\ Event' = Event \cup {name}
      /\ session \in 1 .. MaxSessions /\ session' = session
  BY <1>1, <1>2, EmitAppends
<1>4. PICK now : now = session
  OBVIOUS
<1>5. UNCHANGED relayed /\ Event \subseteq Event'
  BY <1>1, <1>3 DEF Emit, roomVars
<1>6. /\ relayed \in Seq(Event') /\ Names(relayed) \subseteq Event
      /\ sendBuffer \in Seq(Event') /\ Names(sendBuffer) \subseteq Event
      /\ pending \in Seq(Event') /\ Names(pending) \subseteq Event
      /\ \A s \in 1 .. MaxSessions : wire[s] \in Seq(Event') /\ Names(wire[s]) \subseteq Event
  <2>1. \A q \in Seq(Event) : q \in Seq(Event')
    BY <1>5, SeqMonotonic
  <2> QED
    BY <2>1, QueuesTyped
<1>7. \A s : AllowedIn(s) \subseteq AllowedIn(s)'
  BY <1>3, <1>5, MoreAllowed
<1>8. \A s : \A x \in Event : <<x, name>> \in AllowedIn(s)'
  <2> SUFFICES ASSUME NEW s, NEW x \in Event PROVE <<x, name>> \in AllowedIn(s)'
    OBVIOUS
  <2>1. <<x, name>> \in Event' \X Event' /\ <<x, name>>[1] = x /\ <<x, name>>[2] = name /\ x < name /\ x # name
    BY <1>3
  <2> QED
    BY <2>1 DEF AllowedIn
<1>9. view => \A s : \A y \in Names(pending) : <<name, y>> \in AllowedIn(s)'
  <2> SUFFICES ASSUME view, NEW s, NEW y \in Names(pending) PROVE <<name, y>> \in AllowedIn(s)'
    OBVIOUS
  <2>1. y \in Event /\ events'[y].late
    BY <1>3, <1>6 DEF QueuesMeet
  <2>2. <<name, y>> \in Event' \X Event' /\ <<name, y>>[1] = name /\ <<name, y>>[2] = y /\ name # y
    BY <1>3, <2>1
  <2> QED
    BY <2>1, <2>2 DEF AllowedIn
<1>10. \A s \in 1 .. MaxSessions :
         /\ OrderedBy(relayed, AllowedIn(s)') /\ OrderedBy(wire[s], AllowedIn(s)')
         /\ Names(relayed) \X Names(wire[s]) \subseteq AllowedIn(s)'
  <2> SUFFICES ASSUME NEW s \in 1 .. MaxSessions
               PROVE  /\ OrderedBy(relayed, AllowedIn(s)') /\ OrderedBy(wire[s], AllowedIn(s)')
                      /\ Names(relayed) \X Names(wire[s]) \subseteq AllowedIn(s)'
    OBVIOUS
  <2>1. SentInLine(s) /\ AllowedIn(s) \subseteq AllowedIn(s)'
    BY <1>7 DEF InLine
  <2> QED
    BY <2>1, WiderOrder DEF SentInLine
<1>11. /\ OrderedBy(sendBuffer, AllowedIn(now)') /\ OrderedBy(pending, AllowedIn(now)')
       /\ Names(relayed) \X (Names(sendBuffer) \cup Names(pending)) \subseteq AllowedIn(now)'
       /\ Names(wire[now]) \X (Names(sendBuffer) \cup Names(pending)) \subseteq AllowedIn(now)'
       /\ Names(sendBuffer) \X Names(pending) \subseteq AllowedIn(now)'
  <2>1. HeldInLine /\ AllowedIn(now) \subseteq AllowedIn(now)' /\ session > 0
    BY <1>3, <1>7 DEF InLine
  <2>2. /\ OrderedBy(sendBuffer, AllowedIn(now)) /\ OrderedBy(pending, AllowedIn(now))
        /\ Names(relayed) \X (Names(sendBuffer) \cup Names(pending)) \subseteq AllowedIn(now)
        /\ Names(wire[now]) \X (Names(sendBuffer) \cup Names(pending)) \subseteq AllowedIn(now)
        /\ Names(sendBuffer) \X Names(pending) \subseteq AllowedIn(now)
    BY <1>4, <2>1 DEF HeldInLine
  <2> QED
    BY <2>1, <2>2, WiderOrder
<1>12. AllowedIn(session)' = AllowedIn(now)'
  BY <1>3, <1>4 DEF AllowedIn
<1>13. CASE ~view /\ pending' = Append(pending, name) /\ UNCHANGED <<sendBuffer, wire>>
  <2>1. Names(pending) \X {name} \subseteq AllowedIn(now)'
    BY <1>6, <1>8
  <2>2. Names(pending') = Names(pending) \cup {name} /\ OrderedBy(pending', AllowedIn(now)')
    <3>1. PICK rel : rel = AllowedIn(now)'
      OBVIOUS
    <3>2. pending \in Seq(Event') /\ name \in Event' /\ OrderedBy(pending, rel) /\ Names(pending) \X {name} \subseteq rel
      BY <1>3, <1>6, <1>11, <2>1, <3>1
    <3>3. Names(Append(pending, name)) = Names(pending) \cup {name} /\ OrderedBy(Append(pending, name), rel)
      BY ONLY <3>2, AppendToQueue
    <3> QED
      BY <1>13, <3>1, <3>3
  <2>3. /\ Names(relayed) \X {name} \subseteq AllowedIn(now)'
        /\ Names(sendBuffer) \X {name} \subseteq AllowedIn(now)'
        /\ Names(wire[now]) \X {name} \subseteq AllowedIn(now)'
    BY <1>3, <1>4, <1>6, <1>8
  <2>4. HeldInLine'
    BY <1>3, <1>4, <1>5, <1>11, <1>12, <1>13, <2>2, <2>3 DEF HeldInLine
  <2>5. \A s \in 1 .. MaxSessions : SentInLine(s)'
    BY <1>5, <1>10, <1>13 DEF SentInLine
  <2> QED
    BY <2>4, <2>5 DEF InLine
<1>14. CASE /\ view /\ link = "up"
            /\ wire' = [wire EXCEPT ![session] = Append(wire[session], name)]
            /\ UNCHANGED <<pending, sendBuffer>>
  <2> DEFINE more == Append(wire[now], name)
  <2>1. wire' = [wire EXCEPT ![now] = more] /\ wire[now] \in Seq(Event')
    BY <1>3, <1>4, <1>6, <1>14
  <2>2. Names(wire[now]) \X {name} \subseteq AllowedIn(now)' /\ Names(relayed) \X {name} \subseteq AllowedIn(now)'
    BY <1>3, <1>4, <1>6, <1>8
  <2>3. OrderedBy(wire[now], AllowedIn(now)') /\ Names(relayed) \X Names(wire[now]) \subseteq AllowedIn(now)'
    BY <1>3, <1>4, <1>10
  <2>4. Names(more) = Names(wire[now]) \cup {name} /\ OrderedBy(more, AllowedIn(now)')
    BY <1>3, <2>1, <2>2, <2>3, AppendToQueue
  <2> HIDE DEF more
  <2>5. wire'[now] = more /\ \A s \in 1 .. MaxSessions : s # now => wire'[s] = wire[s]
    <3>1. wire \in [1 .. MaxSessions -> Seq(Event)]
      BY DEF TypeOK, SocketTyped
    <3> QED
      BY <1>3, <1>4, <2>1, <3>1
  <2>6. \A s \in 1 .. MaxSessions : SentInLine(s)'
    <3> SUFFICES ASSUME NEW s \in 1 .. MaxSessions PROVE SentInLine(s)'
      OBVIOUS
    <3>1. CASE s = now
      <4>1. OrderedBy(wire'[s], AllowedIn(s)') /\ Names(relayed) \X Names(wire'[s]) \subseteq AllowedIn(s)'
        BY <2>2, <2>3, <2>4, <2>5, <3>1
      <4>2. OrderedBy(relayed, AllowedIn(s)')
        BY <1>10
      <4> QED
        BY <1>5, <4>1, <4>2 DEF SentInLine
    <3>2. CASE s # now
      BY <1>5, <1>10, <2>5, <3>2 DEF SentInLine
    <3> QED
      BY <3>1, <3>2
  <2>7. sendBuffer = <<>> /\ Names(sendBuffer) = {}
    BY <1>14, EmptyQueue DEF QueuesMeet
  <2>8. {name} \X (Names(sendBuffer) \cup Names(pending)) \subseteq AllowedIn(now)'
    BY <1>9, <1>14, <2>7
  <2>9. Names(wire'[now]) \X (Names(sendBuffer) \cup Names(pending)) \subseteq AllowedIn(now)'
    BY <1>11, <2>4, <2>5, <2>8
  <2>10. HeldInLine'
    BY <1>3, <1>4, <1>5, <1>11, <1>12, <1>14, <2>9 DEF HeldInLine
  <2> QED
    BY <2>6, <2>10 DEF InLine
<1>15. CASE /\ view /\ link # "up"
            /\ sendBuffer' = Append(sendBuffer, name) /\ UNCHANGED <<pending, wire>>
  <2>1. Names(sendBuffer) \X {name} \subseteq AllowedIn(now)'
    BY <1>6, <1>8
  <2>2. Names(sendBuffer') = Names(sendBuffer) \cup {name} /\ OrderedBy(sendBuffer', AllowedIn(now)')
    <3>1. PICK rel : rel = AllowedIn(now)'
      OBVIOUS
    <3>2. sendBuffer \in Seq(Event') /\ name \in Event' /\ OrderedBy(sendBuffer, rel) /\ Names(sendBuffer) \X {name} \subseteq rel
      BY <1>3, <1>6, <1>11, <2>1, <3>1
    <3>3. Names(Append(sendBuffer, name)) = Names(sendBuffer) \cup {name} /\ OrderedBy(Append(sendBuffer, name), rel)
      BY ONLY <3>2, AppendToQueue
    <3> QED
      BY <1>15, <3>1, <3>3
  <2>3. /\ Names(relayed) \X {name} \subseteq AllowedIn(now)'
        /\ Names(wire[now]) \X {name} \subseteq AllowedIn(now)'
        /\ {name} \X Names(pending) \subseteq AllowedIn(now)'
    BY <1>3, <1>4, <1>6, <1>8, <1>9, <1>15
  <2>4. HeldInLine'
    BY <1>3, <1>4, <1>5, <1>11, <1>12, <1>15, <2>2, <2>3 DEF HeldInLine
  <2>5. \A s \in 1 .. MaxSessions : SentInLine(s)'
    BY <1>5, <1>10, <1>15 DEF SentInLine
  <2> QED
    BY <2>4, <2>5 DEF InLine
<1> QED
  BY <1>1, <1>2, <1>13, <1>14, <1>15, EmitQueues

\* A message that is relayed is the first of its session's wire, and of no other session.
LEMMA LineDeliver ==
  ASSUME TypeOK, InLine, CarriedOver, NEW on \in 1 .. MaxSessions, Deliver(on)
  PROVE  InLine'
<1>1. PICK name : name = Head(wire[on])
  OBVIOUS
<1>2. /\ wire[on] \in Seq(Event) /\ wire[on] # <<>> /\ name \in Event /\ name \in Names(wire[on])
      /\ UNCHANGED <<tabVars, sendBuffer, pending, losses>>
      /\ \A o \in 1 .. MaxSessions : o # on => wire'[o] = wire[o]
      /\ Names(wire'[on]) \subseteq Names(wire[on])
      /\ \A rel : OrderedBy(wire[on], rel) => OrderedBy(wire'[on], rel)
      /\ \/ UNCHANGED relayed
         \/ wire'[on] = Tail(wire[on]) /\ Own(name, on) /\ relayed' = Append(relayed, name)
  BY <1>1, DeliverCases DEF Relay, roomVars
<1>3. UNCHANGED <<sessions, events>>
  BY <1>2 DEF tabVars
<1>4. session' = session /\ Event' = Event /\ \A s : AllowedIn(s)' = AllowedIn(s)
  BY <1>3, SameAllowed DEF session
<1>5. /\ \A s \in 1 .. MaxSessions : SentInLine(s)
      /\ HeldInLine
  BY DEF InLine
<1>6. SentInLine(on)
  BY <1>5
<1>7. OrderedBy(wire'[on], AllowedIn(on))
  BY <1>2, <1>6 DEF SentInLine
<1>8. /\ Names(Tail(wire[on])) \subseteq Names(wire[on])
      /\ OrderedBy(Tail(wire[on]), AllowedIn(on))
      /\ {name} \X Names(Tail(wire[on])) \subseteq AllowedIn(on)
  BY <1>1, <1>2, <1>6, TailOfQueue DEF SentInLine
<1>9. CASE UNCHANGED relayed
  <2>1. \A s \in 1 .. MaxSessions : SentInLine(s)'
    <3> SUFFICES ASSUME NEW s \in 1 .. MaxSessions PROVE SentInLine(s)'
      OBVIOUS
    <3>1. CASE s = on
      BY <1>2, <1>4, <1>6, <1>7, <1>9, <3>1 DEF SentInLine
    <3>2. CASE s # on
      BY <1>2, <1>4, <1>5, <1>9, <3>2 DEF SentInLine
    <3> QED
      BY <3>1, <3>2
  <2>2. session > 0 => Names(wire'[session]) \subseteq Names(wire[session])
    <3>1. session > 0 => session \in 1 .. MaxSessions
      BY Places DEF TypeOK
    <3> QED
      BY <1>2, <3>1
  <2>3. HeldInLine'
    BY <1>2, <1>4, <1>5, <1>9, <2>2 DEF HeldInLine
  <2> QED
    BY <2>1, <2>3 DEF InLine
<1>10. CASE wire'[on] = Tail(wire[on]) /\ Own(name, on) /\ relayed' = Append(relayed, name)
  <2>1. events[name].session = on
    BY <1>2, <1>10 DEF CarriedOver, BelongsTo, Own
  <2>2. \A s : s # on => \A x \in Event : <<x, name>> \in AllowedIn(s) /\ <<name, x>> \in AllowedIn(s)
    BY <1>2, <2>1, Allowed
  <2>3. relayed \in Seq(Event) /\ Names(relayed) \subseteq Event
        /\ Names(sendBuffer) \subseteq Event /\ Names(pending) \subseteq Event
    BY QueuesTyped
  <2>4. \A s : Names(relayed) \X {name} \subseteq AllowedIn(s)
    <3> SUFFICES ASSUME NEW s PROVE Names(relayed) \X {name} \subseteq AllowedIn(s)
      OBVIOUS
    <3>1. CASE s = on
      BY <1>2, <1>6, <3>1 DEF SentInLine
    <3>2. CASE s # on
      <4>1. \A x \in Event : <<x, name>> \in AllowedIn(s)
        BY <2>2, <3>2
      <4> QED
        BY <2>3, <4>1
    <3> QED
      BY <3>1, <3>2
  <2>5. Names(relayed') = Names(relayed) \cup {name}
        /\ \A s : OrderedBy(relayed, AllowedIn(s)) => OrderedBy(relayed', AllowedIn(s))
    BY <1>2, <1>10, <2>3, <2>4, AppendToQueue
  <2>6. \A s \in 1 .. MaxSessions : SentInLine(s)'
    <3> SUFFICES ASSUME NEW s \in 1 .. MaxSessions PROVE SentInLine(s)'
      OBVIOUS
    <3>1. SentInLine(s) /\ Names(wire[s]) \subseteq Event
      BY <1>5, QueuesTyped
    <3>2. OrderedBy(relayed', AllowedIn(s))
      BY <2>5, <3>1 DEF SentInLine
    <3>3. CASE s = on
      <4>1. Names(relayed') \X Names(wire'[s]) \subseteq AllowedIn(s)
        BY <1>8, <1>10, <2>5, <3>1, <3>3 DEF SentInLine
      <4>2. OrderedBy(wire'[s], AllowedIn(s))
        BY <1>8, <1>10, <3>3
      <4> QED
        BY <1>4, <3>2, <4>1, <4>2 DEF SentInLine
    <3>4. CASE s # on
      <4>1. wire'[s] = wire[s]
        BY <1>2, <3>4
      <4>2. {name} \X Names(wire[s]) \subseteq AllowedIn(s)
        <5>1. \A x \in Event : <<name, x>> \in AllowedIn(s)
          BY <2>2, <3>4
        <5> QED
          BY <3>1, <5>1
      <4>3. Names(relayed') \X Names(wire'[s]) \subseteq AllowedIn(s)
        BY <2>5, <3>1, <4>1, <4>2 DEF SentInLine
      <4> QED
        BY <1>4, <3>1, <3>2, <4>1, <4>3 DEF SentInLine
    <3> QED
      BY <3>3, <3>4
  <2> DEFINE held == Names(sendBuffer) \cup Names(pending)
  <2>7. {name} \X held \subseteq AllowedIn(session)
    <3>1. CASE session = on
      <4>1. session > 0 /\ name \in Names(wire[session])
        BY <1>2, <3>1
      <4> QED
        BY <1>5, <4>1 DEF HeldInLine
    <3>2. CASE session # on
      <4>1. \A x \in Event : <<name, x>> \in AllowedIn(session)
        BY <2>2, <3>2
      <4>2. held \subseteq Event
        BY <2>3
      <4> QED
        BY <4>1, <4>2
    <3> QED
      BY <3>1, <3>2
  <2>8. Names(relayed') \X held \subseteq AllowedIn(session)
    BY <1>5, <2>5, <2>7 DEF HeldInLine
  <2>9. session > 0 => Names(wire'[session]) \X held \subseteq AllowedIn(session)
    <3>1. session > 0 => session \in 1 .. MaxSessions
      BY Places DEF TypeOK
    <3>2. session > 0 => Names(wire'[session]) \subseteq Names(wire[session])
      BY <1>2, <1>8, <1>10, <3>1
    <3> QED
      BY <1>5, <3>2 DEF HeldInLine
  <2>10. HeldInLine'
    BY <1>2, <1>4, <1>5, <2>8, <2>9 DEF HeldInLine
  <2> QED
    BY <2>6, <2>10 DEF InLine
<1> QED
  BY <1>2, <1>9, <1>10

\* The line keeps its order.
LEMMA LineStep ==
  ASSUME TypeOK, InLine, QueuesMeet, CarriedOver, [Next]_vars
  PROVE  InLine'
<1>1. CASE PointerDown \/ PointerPours \/ PointerMove \/ PointerUp
  BY <1>1, LinePointer
<1>2. CASE Reload \/ \E room \in Room : Enter(room)
  BY <1>2, LineNewSocket
<1>3. CASE Connect
  BY <1>3, LineConnect
<1>4. CASE \E on \in 1 .. MaxSessions : Deliver(on)
  BY <1>4, LineDeliver
<1>5. CASE Leave \/ Mount \/ Render \/ Refused \/ Lose \/ GiveUp \/ WatcherAway
             \/ WatcherBack \/ CursorMove \/ CursorAges \/ SweepCursors \/ UNCHANGED vars
  <2>1. /\ UNCHANGED <<sessions, events, relayed, sendBuffer, pending>>
        /\ UNCHANGED wire \/ wire' = [wire EXCEPT ![session] = <<>>]
    BY <1>5 DEF Leave, Mount, Render, Refused, Lose, GiveUp, WatcherAway, WatcherBack, CursorMove,
             CursorAges, SweepCursors, vars, tabVars, socketVars, roomVars
  <2>2. \A on \in 1 .. MaxSessions : wire'[on] = wire[on] \/ wire'[on] = <<>>
    BY <2>1 DEF TypeOK, SocketTyped
  <2> QED
    BY <2>1, <2>2, LineKept
<1> QED
  BY <1>1, <1>2, <1>3, <1>4, <1>5 DEF Next

-----------------------------------------------------------------------------
(* The watcher.                                                             *)

\* A canvas with these events and open strokes.
CanvasOf(names, open) ==
  [on : BOOLEAN, open : SUBSET open, drawn : [1 .. MaxEvents -> Seq(names)],
   stains : SUBSET names, cursor : {"none", "fresh", "old"}]

\* What a message changes on the watcher's canvas.
LEMMA DrawnAs ==
  ASSUME NEW names, NEW open, NEW canvas \in CanvasOf(names, open), NEW name, NEW event, event.kind \in Kind, NEW next, next = Drawn(canvas, event, name)
  PROVE  /\ \A s \in 1 .. MaxEvents : s # event.stroke =>
              next.drawn[s] = canvas.drawn[s] /\ (s \in next.open <=> s \in canvas.open)
         /\ \A s \in 1 .. MaxEvents : s \notin canvas.open => next.drawn[s] = canvas.drawn[s]
         /\ event.kind # "stroke_segment" => next.drawn = canvas.drawn
         /\ event.kind = "stroke_begin" => event.stroke \in next.open
         /\ event.kind = "stroke_end" => event.stroke \notin next.open
         /\ event.kind = "stroke_segment" => next.open = canvas.open
         /\ event.kind = "stroke_segment" /\ event.stroke \in canvas.open
            /\ event.stroke \in 1 .. MaxEvents =>
              next.drawn[event.stroke] = Append(canvas.drawn[event.stroke], name)
<1> USE DEF CanvasOf
<1>1. CASE event.kind = "stroke_begin"
  <2>1. next = [canvas EXCEPT !.open = canvas.open \cup {event.stroke}]
    BY <1>1 DEF Drawn, RemoteStrokeBegin
  <2> QED
    BY <1>1, <2>1
<1>2. CASE event.kind = "stroke_segment" /\ event.stroke \notin canvas.open
  <2>1. next = canvas
    BY <1>2 DEF Drawn, RemoteStrokeSegment
  <2> QED
    BY <1>2, <2>1
<1>3. CASE event.kind = "stroke_segment" /\ event.stroke \in canvas.open
  <2> DEFINE drawn == [canvas.drawn EXCEPT ![event.stroke] = Append(canvas.drawn[event.stroke], name)]
  <2>1. next = [canvas EXCEPT !.drawn = drawn]
    BY <1>3 DEF Drawn, RemoteStrokeSegment
  <2>2. canvas.drawn \in [1 .. MaxEvents -> Seq(names)]
    OBVIOUS
  <2>3. /\ \A s \in 1 .. MaxEvents : s # event.stroke => drawn[s] = canvas.drawn[s]
        /\ event.stroke \in 1 .. MaxEvents =>
             drawn[event.stroke] = Append(canvas.drawn[event.stroke], name)
    BY <2>2
  <2> HIDE DEF drawn
  <2>4. next.drawn = drawn /\ next.open = canvas.open
    BY <2>1
  <2> QED
    BY <1>3, <2>3, <2>4
<1>4. CASE event.kind = "stroke_end"
  <2>1. next = [canvas EXCEPT !.open = canvas.open \ {event.stroke}]
    BY <1>4 DEF Drawn, RemoteStrokeEnd
  <2> QED
    BY <1>4, <2>1
<1>5. CASE event.kind = "coffee_pour"
  <2>1. next = [canvas EXCEPT !.stains = canvas.stains \cup {name}]
    BY <1>5 DEF Drawn, StainResult
  <2> QED
    BY <1>5, <2>1
<1> QED
  BY <1>1, <1>2, <1>3, <1>4, <1>5 DEF Kind

\* Steps that relay nothing: a stroke that is new has not been relayed.
LEMMA WatchingKept ==
  ASSUME TypeOK, Watching, UNCHANGED <<begun, relayed, missed>>,
         watcher'.open = watcher.open, watcher'.drawn = watcher.drawn,
         Event \subseteq Event', Event' \subseteq 1 .. MaxEvents,
         \A n \in Event : events'[n] = events[n],
         \A s \in 1 .. session : sessions'[s] = sessions[s]
  PROVE  Watching'
<1>1. Names(relayed) \subseteq Event /\ begun \subseteq Event
  BY QueuesTyped DEF TypeOK, RoomTyped
<1>2. \A n \in Event : RoomOf(events[n])' = RoomOf(events[n])
  <2>1. \A n \in Event : events[n].session \in 1 .. session
    BY Places DEF TypeOK, SomeEvent
  <2> QED
    BY <2>1 DEF RoomOf
<1>3. Names(relayed') = Names(relayed)
  OBVIOUS
<1>4. ASSUME NEW stroke \in Event
      PROVE  Watches(stroke)'
  <2>1. Followed(stroke)' => Followed(stroke)
    <3> SUFFICES ASSUME Followed(stroke)' PROVE Followed(stroke)
      OBVIOUS
    <3>1. /\ events'[stroke].kind = "stroke_begin" /\ RoomOf(events[stroke])' = Watched
          /\ \A n \in Event' : events'[n].stroke = stroke => ~events'[n].late /\ n \notin missed
      BY DEF Followed
    <3> QED
      BY <1>2, <3>1 DEF Followed
  <2>2. Shown(stroke)' = Shown(stroke)
    BY <1>1, <1>3 DEF Shown
  <2>3. (\E n \in Names(relayed) : events'[n].stroke = stroke /\ events'[n].kind = "stroke_end")
          <=> (\E n \in Names(relayed) : events[n].stroke = stroke /\ events[n].kind = "stroke_end")
    BY <1>1
  <2>4. Watches(stroke)
    BY DEF Watching
  <2> QED
    BY <1>3, <2>1, <2>2, <2>3, <2>4 DEF Watches
<1>5. ASSUME NEW stroke \in Event', stroke \notin Event
      PROVE  Watches(stroke)'
  <2>1. stroke \notin Names(relayed) /\ watcher.drawn[stroke] = <<>>
    BY <1>1, <1>5 DEF Watching
  <2> QED
    BY <1>3, <2>1 DEF Watches
<1>6. \A n \in begun' : n \in Names(relayed') /\ events'[n].kind = "stroke_begin"
  BY <1>1 DEF Watching
<1>7. \A n \in (1 .. MaxEvents) \ Event' : watcher'.drawn[n] = <<>>
  BY DEF Watching
<1> QED
  BY <1>4, <1>5, <1>6, <1>7 DEF Watching

\* A message that is relayed after every other of its session is drawn after them.
LEMMA WatchingRelay ==
  ASSUME TypeOK, StrokesHaveShape, Watching, NEW name \in Event, Relay(name),
         UNCHANGED <<events, sessions>>,
         \A n \in Names(relayed) : events[n].session = events[name].session =>
           n # name /\ (n < name \/ events[name].late)
  PROVE  Watching'
<1> DEFINE e == events[name]
           st == events[name].stroke
<1>1. /\ e \in SomeEvent(session) /\ Event' = Event /\ Event = 1 .. Len(events)
      /\ Len(events) \in Nat /\ Len(events) <= MaxEvents /\ MaxEvents \in Nat
  BY Places DEF TypeOK, Event
<1>2. /\ relayed \in Seq(Event) /\ Names(relayed) \subseteq Event
      /\ watcher \in [on : BOOLEAN, open : SUBSET begun, drawn : [1 .. MaxEvents -> Seq(Event)],
                      stains : SUBSET Event, cursor : {"none", "fresh", "old"}]
  BY QueuesTyped DEF TypeOK, RoomTyped
<1>3. Names(relayed') = Names(relayed) \cup {name}
  BY <1>2, AppendToQueue DEF Relay
<1>4. /\ begun' = IF e.kind = "stroke_begin" THEN begun \cup {name} ELSE begun
      /\ watcher' = IF RoomOf(e) = Watched /\ watcher.on THEN Drawn(watcher, e, name) ELSE watcher
      /\ missed' = IF RoomOf(e) = Watched /\ ~watcher.on THEN missed \cup {name} ELSE missed
  BY DEF Relay
<1>5. \A n : RoomOf(events[n])' = RoomOf(events[n])
  BY DEF RoomOf
<1>6. e.kind \in Kind
  BY <1>1 DEF SomeEvent
<1>7. name \notin Names(relayed)
  OBVIOUS
<1>8. watcher \in CanvasOf(Event, begun)
  BY <1>2 DEF CanvasOf
<1>9. /\ \A s \in 1 .. MaxEvents : s # st =>
           watcher'.drawn[s] = watcher.drawn[s] /\ (s \in watcher'.open <=> s \in watcher.open)
      /\ \A s \in 1 .. MaxEvents : s \notin watcher.open => watcher'.drawn[s] = watcher.drawn[s]
  <2>1. CASE watcher' = watcher
    BY <2>1
  <2>2. CASE watcher' = Drawn(watcher, e, name)
    <3>1. PICK next : next = watcher'
      OBVIOUS
    <3>2. next = Drawn(watcher, e, name)
      BY <2>2, <3>1
    <3> HIDE DEF e
    <3>3. /\ \A s \in 1 .. MaxEvents : s # e.stroke =>
               next.drawn[s] = watcher.drawn[s] /\ (s \in next.open <=> s \in watcher.open)
          /\ \A s \in 1 .. MaxEvents : s \notin watcher.open => next.drawn[s] = watcher.drawn[s]
      BY ONLY <1>8, <1>6, <3>2, DrawnAs
    <3> QED
      BY <3>1, <3>3 DEF e
  <2> QED
    BY <1>4, <2>1, <2>2
<1>10. \A n \in begun' : n \in Names(relayed') /\ events'[n].kind = "stroke_begin"
  BY <1>3, <1>4 DEF Watching
<1>11. \A n \in (1 .. MaxEvents) \ Event' : watcher'.drawn[n] = <<>>
  <2>1. \A n \in (1 .. MaxEvents) \ Event : n \notin watcher.open
    BY <1>2 DEF TypeOK, RoomTyped
  <2> QED
    BY <1>1, <1>9, <2>1 DEF Watching
<1>12. \A s \in Event : s \notin Names(relayed') => watcher'.drawn[s] = <<>>
  <2> SUFFICES ASSUME NEW s \in Event, s \notin Names(relayed') PROVE watcher'.drawn[s] = <<>>
    OBVIOUS
  <2>1. s \notin Names(relayed) /\ watcher.drawn[s] = <<>>
    BY <1>3 DEF Watching, Watches
  <2>2. s \notin watcher.open
    BY <1>2, <2>1 DEF Watching
  <2>3. s \in 1 .. MaxEvents
    BY <1>1
  <2> QED
    BY <1>9, <2>1, <2>2, <2>3
<1>13. ASSUME NEW s \in Event, Followed(s)', s \in Names(relayed')
       PROVE  /\ Names(watcher'.drawn[s]) = Shown(s)'
              /\ \A i, j \in DOMAIN watcher'.drawn[s] :
                   i < j => watcher'.drawn[s][i] < watcher'.drawn[s][j]
              /\ s \in watcher'.open <=>
                   ~\E n \in Names(relayed') : events'[n].stroke = s /\ events'[n].kind = "stroke_end"
  <2>1. /\ events[s].kind = "stroke_begin" /\ RoomOf(events[s]) = Watched
        /\ \A n \in Event : events[n].stroke = s => ~events[n].late /\ n \notin missed'
    BY <1>1, <1>5, <1>13 DEF Followed
  <2>2. Followed(s) /\ events[s].stroke = s /\ s \in 1 .. MaxEvents
    <3>1. missed \subseteq missed'
      BY <1>4
    <3> QED
      BY <1>1, <2>1, <3>1 DEF Followed, StrokesHaveShape
  <2>3. Shown(s)' = {n \in Names(relayed) \cup {name} :
                       events[n].stroke = s /\ events[n].kind = "stroke_segment"}
    BY <1>3 DEF Shown
  <2>4. s \in Names(relayed) =>
          /\ Names(watcher.drawn[s]) = Shown(s)
          /\ \A i, j \in DOMAIN watcher.drawn[s] : i < j => watcher.drawn[s][i] < watcher.drawn[s][j]
          /\ s \in watcher.open <=>
               ~\E n \in Names(relayed) : events[n].stroke = s /\ events[n].kind = "stroke_end"
    BY <2>2 DEF Watching, Watches
  <2>5. CASE s # st
    <3>1. s \in Names(relayed)
      BY <1>3, <1>13, <2>2, <2>5
    <3>2. Shown(s)' = Shown(s)
      BY <2>3, <2>5 DEF Shown
    <3>3. (\E n \in Names(relayed') : events'[n].stroke = s /\ events'[n].kind = "stroke_end")
            <=> (\E n \in Names(relayed) : events[n].stroke = s /\ events[n].kind = "stroke_end")
      BY <1>3, <2>5
    <3>4. watcher'.drawn[s] = watcher.drawn[s] /\ (s \in watcher'.open <=> s \in watcher.open)
      BY <1>9, <2>2, <2>5
    <3> QED
      BY <2>4, <3>1, <3>2, <3>3, <3>4
  <2>6. CASE s = st
    <3>1. st # 0 /\ events[s].session = e.session /\ s <= name
      BY <1>1, <2>6 DEF StrokesHaveShape
    <3>2. RoomOf(e) = Watched
      BY <2>1, <3>1 DEF RoomOf
    <3>3. ~e.late /\ name \notin missed'
      BY <2>1, <2>6
    <3>4. watcher' = Drawn(watcher, e, name)
      BY <1>4, <3>2, <3>3
    <3>5. PICK next : next = watcher'
      OBVIOUS
    <3>6. /\ e.kind # "stroke_segment" => next.drawn = watcher.drawn
          /\ e.kind = "stroke_begin" => e.stroke \in next.open
          /\ e.kind = "stroke_end" => e.stroke \notin next.open
          /\ e.kind = "stroke_segment" => next.open = watcher.open
          /\ e.kind = "stroke_segment" /\ e.stroke \in watcher.open /\ e.stroke \in 1 .. MaxEvents =>
               next.drawn[e.stroke] = Append(watcher.drawn[e.stroke], name)
      <4>1. next = Drawn(watcher, e, name)
        BY <3>4, <3>5
      <4> HIDE DEF e
      <4> QED
        BY ONLY <1>8, <1>6, <4>1, DrawnAs
    <3>7. \A n \in Names(relayed) : n \in Nat /\ (events[n].session = e.session => n < name)
      BY <1>1, <1>2, <3>3
    <3>8. \A n \in Names(relayed) : events[n].stroke = s =>
            \/ s <= n /\ n < name /\ events[n].kind # "stroke_end"
            \/ e.kind = "stroke_begin"
      <4>1. \A n \in Names(relayed) : events[n].stroke = s => s \in 1 .. n /\ events[n].session = e.session
        BY <1>2, <3>1, <2>6 DEF StrokesHaveShape
      <4>2. \A n \in Names(relayed) : events[n].stroke = s /\ events[n].kind = "stroke_end" => name <= n
        BY <1>2, <2>6 DEF StrokesHaveShape
      <4> QED
        BY <1>1, <1>2, <3>7, <4>1, <4>2
    <3>9. CASE e.kind = "stroke_begin"
      <4>1. name = s /\ s \notin Names(relayed)
        BY <1>7, <2>6, <3>9 DEF StrokesHaveShape
      <4>2. \A n \in Names(relayed) : events[n].stroke # s
        <5>1. \A n \in Names(relayed) : events[n].stroke = s => s \in 1 .. n /\ events[n].session = e.session
          BY <1>2, <3>1, <2>6 DEF StrokesHaveShape
        <5> QED
          BY <1>1, <1>2, <3>7, <4>1, <5>1
      <4>3. Shown(s)' = {}
        BY <2>3, <3>9, <4>2
      <4>4. ~\E n \in Names(relayed') : events'[n].stroke = s /\ events'[n].kind = "stroke_end"
        BY <1>3, <3>9, <4>2
      <4>5. watcher'.drawn[s] = <<>> /\ s \in watcher'.open
        BY <2>6, <3>5, <3>6, <3>9, <4>1 DEF Watching, Watches
      <4> QED
        BY <4>3, <4>4, <4>5, EmptyQueue
    <3>10. CASE e.kind = "stroke_segment"
      <4>1. s \in Names(relayed)
        BY <1>3, <1>13, <2>1, <3>10
      <4>2. \A n \in Names(relayed) : events[n].stroke = s => n < name /\ events[n].kind # "stroke_end"
        BY <3>8, <3>10
      <4>3. s \in watcher.open
        BY <2>4, <4>1, <4>2
      <4>4. watcher'.drawn[s] = Append(watcher.drawn[s], name) /\ s \in watcher'.open
        BY <2>2, <2>6, <3>5, <3>6, <3>10, <4>3
      <4>5. Shown(s)' = Shown(s) \cup {name}
        BY <2>3, <2>6, <3>10 DEF Shown
      <4>6. ~\E n \in Names(relayed') : events'[n].stroke = s /\ events'[n].kind = "stroke_end"
        BY <1>3, <3>10, <4>2
      <4> DEFINE drawn == watcher.drawn[s]
                 rel == {p \in Event \X Event : p[1] < p[2]}
      <4>7. drawn \in Seq(Event) /\ Names(drawn) = Shown(s)
            /\ \A i, j \in DOMAIN drawn : i < j => drawn[i] < drawn[j]
        BY <1>2, <2>2, <2>4, <4>1
      <4>8. \A i \in DOMAIN drawn : drawn[i] \in Event
        BY <4>7, NamesInQueue
      <4>9. OrderedBy(drawn, rel)
        BY <4>7, <4>8 DEF OrderedBy
      <4>10. Names(drawn) \X {name} \subseteq rel
        BY <1>2, <4>2, <4>7 DEF Shown
      <4> HIDE DEF rel, drawn
      <4>11. Names(Append(drawn, name)) = Names(drawn) \cup {name} /\ OrderedBy(Append(drawn, name), rel)
        BY <4>7, <4>9, <4>10, AppendToQueue
      <4>12. \A i, j \in DOMAIN Append(drawn, name) : i < j => Append(drawn, name)[i] < Append(drawn, name)[j]
        BY <4>11 DEF OrderedBy, rel
      <4> QED
        BY <4>4, <4>5, <4>6, <4>7, <4>11, <4>12 DEF drawn
    <3>11. CASE e.kind = "stroke_end"
      <4>1. s \in Names(relayed)
        BY <1>3, <1>13, <2>1, <3>11
      <4>2. Shown(s)' = Shown(s)
        BY <2>3, <3>11 DEF Shown
      <4>3. \E n \in Names(relayed') : events'[n].stroke = s /\ events'[n].kind = "stroke_end"
        BY <1>3, <2>6, <3>11
      <4>4. watcher'.drawn[s] = watcher.drawn[s] /\ s \notin watcher'.open
        BY <2>6, <3>5, <3>6, <3>11
      <4> QED
        BY <2>4, <4>1, <4>2, <4>3, <4>4
    <3>12. e.kind # "coffee_pour"
      BY <3>1 DEF StrokesHaveShape
    <3> QED
      BY <1>6, <3>9, <3>10, <3>11, <3>12 DEF Kind
  <2> QED
    BY <2>5, <2>6
<1>14. \A s \in Event : Watches(s)'
  BY <1>12, <1>13 DEF Watches
<1> QED
  BY <1>1, <1>10, <1>11, <1>14 DEF Watching

\* A message is relayed, or the watcher sees nothing of it.
LEMMA WatchingDeliver ==
  ASSUME TypeOK, StrokesHaveShape, CarriedOver, InLine, Watching,
         NEW on \in 1 .. MaxSessions, Deliver(on)
  PROVE  Watching'
<1>1. PICK name : name = Head(wire[on])
  OBVIOUS
<1>2. /\ name \in Event /\ name \in Names(wire[on]) /\ UNCHANGED tabVars
      /\ \/ UNCHANGED <<begun, relayed, watcher, missed>>
         \/ Own(name, on) /\ Relay(name)
  BY <1>1, DeliverCases DEF roomVars
<1>3. UNCHANGED <<events, sessions>>
  BY <1>2 DEF tabVars
<1>4. CASE UNCHANGED <<begun, relayed, watcher, missed>>
  <2>1. Event' = Event /\ Event \subseteq 1 .. MaxEvents
    BY <1>3, Places DEF TypeOK, Event
  <2> QED
    BY <1>3, <1>4, <2>1, WatchingKept
<1>5. CASE Own(name, on) /\ Relay(name)
  <2>1. events[name].session = on
    BY <1>2, <1>5 DEF CarriedOver, BelongsTo, Own
  <2>2. \A n \in Names(relayed) : n \in Event /\ <<n, name>> \in AllowedIn(on)
    BY <1>2, QueuesTyped DEF InLine, SentInLine
  <2>3. \A n \in Names(relayed) : events[n].session = events[name].session =>
          n # name /\ (n < name \/ events[name].late)
    BY <1>2, <2>1, <2>2, Allowed
  <2> QED
    BY <1>2, <1>3, <1>5, <2>3, WatchingRelay
<1> QED
  BY <1>2, <1>4, <1>5

\* The watcher has what was relayed.
LEMMA WatchingStep ==
  ASSUME TypeOK, StrokesHaveShape, CarriedOver, InLine, Watching, [Next]_vars
  PROVE  Watching'
<1>1. Event \subseteq 1 .. MaxEvents /\ session \in Nat
  BY Places DEF TypeOK
<1>2. CASE PointerDown \/ PointerPours \/ PointerMove \/ PointerUp
  <2>1. PICK kind \in Kind, stroke \in 0 .. Len(events) + 1 : Emit(kind, stroke)
    BY <1>2, PointerEmits
  <2>2. PICK name : name = Len(events) + 1
    OBVIOUS
  <2>3. /\ \A n \in Event : events'[n] = events[n]
        /\ name \in 1 .. MaxEvents /\ Event' = Event \cup {name}
    BY <2>1, <2>2, EmitAppends
  <2>4. UNCHANGED <<sessions, begun, relayed, missed, watcher>>
    BY <2>1 DEF Emit, roomVars
  <2> QED
    BY <1>1, <2>3, <2>4, WatchingKept
<1>3. CASE Reload \/ \E room \in Room : Enter(room)
  <2>1. \A s \in 1 .. session : sessions'[s] = sessions[s]
    BY <1>3, ReloadsTyped, EntersTyped
  <2>2. UNCHANGED <<events, begun, relayed, missed, watcher>>
    BY <1>3 DEF Reload, Enter, roomVars
  <2>3. Event' = Event
    BY <2>2 DEF Event
  <2> QED
    BY <1>1, <2>1, <2>2, <2>3, WatchingKept
<1>4. CASE \E on \in 1 .. MaxSessions : Deliver(on)
  BY <1>4, WatchingDeliver
<1>5. CASE Connect \/ Leave \/ Mount \/ Render \/ Refused \/ Lose \/ GiveUp \/ WatcherAway
             \/ WatcherBack \/ CursorMove \/ CursorAges \/ SweepCursors \/ UNCHANGED vars
  <2>1. UNCHANGED <<sessions, events, begun, relayed, missed>>
    BY <1>5 DEF Connect, Leave, Mount, Render, Refused, Lose, GiveUp, WatcherAway, WatcherBack,
             CursorMove, CursorAges, SweepCursors, vars, tabVars, socketVars, roomVars
  <2>2. watcher'.open = watcher.open /\ watcher'.drawn = watcher.drawn
    <3>1. CASE UNCHANGED watcher
      BY <3>1
    <3>2. CASE WatcherAway \/ WatcherBack \/ CursorMove \/ CursorAges \/ SweepCursors
      <4>1. watcher \in CanvasOf(Event, begun)
        BY DEF TypeOK, RoomTyped, CanvasOf
      <4> QED
        BY <3>2, <4>1 DEF CanvasOf, WatcherAway, WatcherBack, CursorMove, CursorAges, SweepCursors
    <3>3. UNCHANGED watcher \/ WatcherAway \/ WatcherBack \/ CursorMove \/ CursorAges \/ SweepCursors
      BY <1>5 DEF Connect, Leave, Mount, Render, Refused, Lose, GiveUp, vars, roomVars
    <3> QED
      BY <3>1, <3>2, <3>3
  <2>3. Event' = Event
    BY <2>1 DEF Event
  <2> QED
    BY <1>1, <2>1, <2>2, <2>3, WatchingKept
<1> QED
  BY <1>2, <1>3, <1>4, <1>5 DEF Next

-----------------------------------------------------------------------------
(* The steps together.                                                      *)

\* The types are kept, and what has happened stays: credentials are added, and events.
LEMMA TypeStep ==
  ASSUME TypeOK, StrokesHaveShape, [Next]_vars
  PROVE  /\ TypeOK' /\ session <= session' /\ Event \subseteq Event'
         /\ \A s \in 1 .. session : sessions'[s] = sessions[s]
         /\ \A n \in Event : events'[n] = events[n]
<1>1. session \in Nat
  BY Places DEF TypeOK
<1>2. CASE PointerDown \/ PointerPours \/ PointerMove \/ PointerUp
  <2>1. PICK kind \in Kind, stroke \in 0 .. Len(events) + 1 : Emit(kind, stroke)
    BY <1>2, PointerEmits
  <2>2. PICK name : name = Len(events) + 1
    OBVIOUS
  <2>3. /\ \A n \in Event : events'[n] = events[n]
        /\ Event' = Event \cup {name} /\ session' = session
    BY <2>1, <2>2, EmitAppends
  <2>4. UNCHANGED sessions
    BY <2>1 DEF Emit
  <2>5. TypeOK'
    BY <1>2, PointerTyped
  <2> QED
    BY <1>1, <2>3, <2>4, <2>5
<1>3. CASE Reload \/ \E room \in Room : Enter(room)
  <2>1. TypeOK' /\ session' = session + 1 /\ \A s \in 1 .. session : sessions'[s] = sessions[s]
    BY <1>3, ReloadsTyped, EntersTyped
  <2>2. UNCHANGED events
    BY <1>3 DEF Reload, Enter
  <2>3. Event' = Event
    BY <2>2 DEF Event
  <2> QED
    BY <1>1, <2>1, <2>2, <2>3
<1>4. CASE Connect
  <2>1. TypeOK' /\ session' = session /\ Event' = Event
    BY <1>4, ConnectTyped
  <2>2. UNCHANGED <<sessions, events>>
    BY <1>4 DEF Connect, tabVars
  <2> QED
    BY <1>1, <2>1, <2>2
<1>5. CASE \E on \in 1 .. MaxSessions : Deliver(on)
  <2>1. TypeOK' /\ session' = session /\ Event' = Event
    BY <1>5, DeliverTyped
  <2>2. UNCHANGED <<sessions, events>>
    BY <1>5 DEF Deliver, tabVars
  <2> QED
    BY <1>1, <2>1, <2>2
<1>6. CASE Leave \/ Mount \/ Render \/ Refused \/ Lose \/ GiveUp \/ WatcherAway
             \/ WatcherBack \/ CursorMove \/ CursorAges \/ SweepCursors \/ UNCHANGED vars
  <2>1. TypeOK' /\ session' = session /\ Event' = Event
    BY <1>6, QuietTyped
  <2>2. UNCHANGED <<sessions, events>>
    BY <1>6 DEF Leave, Mount, Render, Refused, Lose, GiveUp, WatcherAway, WatcherBack, CursorMove,
             CursorAges, SweepCursors, vars, tabVars
  <2> QED
    BY <1>1, <2>1, <2>2
<1> QED
  BY <1>2, <1>3, <1>4, <1>5, <1>6 DEF Next

\* Strokes keep their shape.
LEMMA ShapeStep ==
  ASSUME TypeOK, StrokesHaveShape, [Next]_vars
  PROVE  StrokesHaveShape'
<1>1. CASE PointerDown \/ PointerPours \/ PointerMove \/ PointerUp
  BY <1>1, ShapePointer
<1>2. CASE ~(PointerDown \/ PointerPours \/ PointerMove \/ PointerUp)
  <2>1. UNCHANGED events
    BY <1>2 DEF Next, Reload, Enter, Connect, Deliver, Leave, Mount, Render, Refused, Lose, GiveUp,
             WatcherAway, WatcherBack, CursorMove, CursorAges, SweepCursors, vars, tabVars
  <2>2. active' = 0 \/ (active' = active /\ UNCHANGED sessions)
    <3>1. page = "lobby" => active = 0
      BY DEF TypeOK, TabTyped
    <3> QED
      BY <1>2, <3>1 DEF Next, Reload, Enter, Connect, Deliver, Leave, Mount, Render, Refused, Lose,
             GiveUp, WatcherAway, WatcherBack, CursorMove, CursorAges, SweepCursors, vars, tabVars
  <2> QED
    BY <2>1, <2>2, ShapeKept DEF session
<1> QED
  BY <1>1, <1>2

\* The service hangs up on what was carried over.
LEMMA KickedStep ==
  ASSUME TypeOK, StrokesHaveShape, CarriedOver, Kicked, [Next]_vars
  PROVE  Kicked'
<1>1. /\ session \in Nat /\ session' \in Nat /\ session <= session'
      /\ \A s \in 1 .. session : sessions'[s] = sessions[s]
      /\ \A n \in Event : events'[n] = events[n] /\ events[n].session \in 1 .. session
  <2>1. /\ TypeOK' /\ session <= session'
        /\ \A s \in 1 .. session : sessions'[s] = sessions[s]
        /\ \A n \in Event : events'[n] = events[n]
    BY TypeStep
  <2>2. session \in Nat /\ \A n \in Event : events[n].session \in 1 .. session
    BY Places DEF TypeOK, SomeEvent
  <2>3. session' \in Nat
    BY <2>1, LenProperties DEF TypeOK, TabTyped, session
  <2> QED
    BY <2>1, <2>2, <2>3
<1>2. kicks \subseteq [event : Event, on : 1 .. MaxSessions]
  BY DEF TypeOK, RoomTyped
<1>3. ASSUME NEW kick \in [event : Event, on : 1 .. MaxSessions],
             kick.on <= session, events[kick.event].session < kick.on,
             sessions[kick.on].user # UserOf(events[kick.event])
      PROVE  /\ kick.on <= session' /\ events'[kick.event].session < kick.on
             /\ sessions'[kick.on].user # UserOf(events[kick.event])'
  <2>1. kick.on \in 1 .. session /\ kick.event \in Event
    BY <1>1, <1>3
  <2>2. /\ sessions'[kick.on] = sessions[kick.on] /\ events'[kick.event] = events[kick.event]
        /\ sessions'[events[kick.event].session] = sessions[events[kick.event].session]
    BY <1>1, <2>1
  <2> QED
    BY <1>1, <1>3, <2>1, <2>2 DEF UserOf
<1>4. CASE UNCHANGED kicks
  BY <1>2, <1>3, <1>4 DEF Kicked
<1>5. CASE \E on \in 1 .. MaxSessions : Deliver(on)
  <2>1. PICK on \in 1 .. MaxSessions : Deliver(on)
    BY <1>5
  <2>2. PICK name : name = Head(wire[on])
    OBVIOUS
  <2>3. /\ name \in Event /\ name \in Names(wire[on])
        /\ \/ UNCHANGED kicks
           \/ ~Own(name, on) /\ kicks' = kicks \cup {[event |-> name, on |-> on]}
    BY <2>1, <2>2, DeliverCases DEF Relay, roomVars
  <2>4. CASE ~Own(name, on) /\ kicks' = kicks \cup {[event |-> name, on |-> on]}
    <3>1. on <= session /\ BelongsTo(name, on)
      BY <2>3 DEF CarriedOver
    <3>2. events[name].session < on /\ sessions[on].user # UserOf(events[name])
      BY <2>4, <3>1 DEF BelongsTo, Own, RoomOf, UserOf
    <3>3. \A kick \in kicks' : /\ kick \in [event : Event, on : 1 .. MaxSessions]
                               /\ kick.on <= session /\ events[kick.event].session < kick.on
                               /\ sessions[kick.on].user # UserOf(events[kick.event])
      BY <1>2, <2>3, <2>4, <3>1, <3>2 DEF Kicked
    <3> QED
      BY <1>3, <3>3 DEF Kicked
  <2> QED
    BY <1>4, <2>3, <2>4
<1>6. UNCHANGED kicks \/ \E on \in 1 .. MaxSessions : Deliver(on)
  BY DEF Next, Reload, Enter, Connect, Leave, Mount, Render, Refused, Lose, GiveUp, Emit,
         PointerDown, PointerPours, PointerMove, PointerUp,
         WatcherAway, WatcherBack, CursorMove, CursorAges, SweepCursors, vars, roomVars
<1> QED
  BY <1>4, <1>5, <1>6

\* What the service has relayed it has begun.
LEMMA BeganStep ==
  ASSUME TypeOK, StrokesHaveShape, RelayedBegan, [Next]_vars
  PROVE  RelayedBegan'
<1>1. \A n \in Event : events'[n] = events[n]
  BY TypeStep
<1>2. relayed \in Seq(Event) /\ Names(relayed) \subseteq Event
  BY QueuesTyped
<1>3. CASE UNCHANGED <<relayed, begun>>
  BY <1>1, <1>2, <1>3 DEF RelayedBegan
<1>4. CASE \E on \in 1 .. MaxSessions : Deliver(on)
  <2>1. PICK on \in 1 .. MaxSessions : Deliver(on)
    BY <1>4
  <2>2. PICK name : name = Head(wire[on])
    OBVIOUS
  <2>3. name \in Event /\ (UNCHANGED <<relayed, begun>> \/ Relay(name))
    BY <2>1, <2>2, DeliverCases DEF roomVars
  <2>4. CASE Relay(name)
    <3>1. /\ relayed' = Append(relayed, name) /\ begun \subseteq begun'
          /\ events[name].kind = "stroke_begin" => name \in begun'
      BY <2>4 DEF Relay
    <3>2. Names(relayed') = Names(relayed) \cup {name}
      BY <1>2, <2>3, <3>1, AppendToQueue
    <3> QED
      BY <1>1, <1>2, <2>3, <3>1, <3>2 DEF RelayedBegan
  <2> QED
    BY <1>3, <2>3, <2>4
<1>5. UNCHANGED <<relayed, begun>> \/ \E on \in 1 .. MaxSessions : Deliver(on)
  BY DEF Next, Reload, Enter, Connect, Leave, Mount, Render, Refused, Lose, GiveUp, Emit,
         PointerDown, PointerPours, PointerMove, PointerUp,
         WatcherAway, WatcherBack, CursorMove, CursorAges, SweepCursors, vars, roomVars
<1> QED
  BY <1>3, <1>4, <1>5

\* Where an event of the present session is, or why it is nowhere.
Accounted(name) == name \in Held \cup Names(relayed) \cup lost \/ Ignored(events[name])

\* Events stay accounted for while what is held stays held or is lost.
LEMMA AccountedKept ==
  ASSUME NEW name, Accounted(name), events'[name] = events[name],
         \A n \in Event : events'[n] = events[n], events[name].stroke \in Event \cup {0},
         events[name].kind = "stroke_end" => events[name].stroke \in Event,
         Names(relayed) \subseteq Names(relayed'), lost \subseteq lost',
         name \in Held => name \in Held' \cup Names(relayed') \cup lost'
  PROVE  Accounted(name)'
BY DEF Accounted, Ignored

\* An event of a session that there is has a stroke that has begun, or none.
LEMMA StrokesOfEvents ==
  ASSUME TypeOK, StrokesHaveShape, NEW name \in Event
  PROVE  /\ events[name].stroke \in Event \cup {0}
         /\ events[name].kind = "stroke_end" => events[name].stroke \in Event
         /\ events[name].session \in 1 .. session /\ session \in 1 .. MaxSessions
<1>1. /\ Event = 1 .. Len(events) /\ Len(events) \in Nat
      /\ events[name] \in SomeEvent(session) /\ session \in Nat /\ session <= MaxSessions
      /\ MaxSessions \in Nat
  BY Places DEF TypeOK
<1>2. events[name].session \in 1 .. session /\ events[name].stroke \in Nat
      /\ events[name].kind \in Kind
  BY <1>1 DEF SomeEvent
<1>3. events[name].stroke # 0 => events[name].stroke \in 1 .. name
  BY DEF StrokesHaveShape
<1>4. events[name].stroke # 0 => events[name].stroke \in Event
  BY <1>1, <1>3
<1>5. events[name].kind = "stroke_end" => events[name].stroke # 0
  BY DEF StrokesHaveShape
<1> QED
  BY <1>1, <1>2, <1>4, <1>5

\* The end of a stroke that the service has no hash of: its beginning was lost, or is late.
LEMMA EndIgnored ==
  ASSUME TypeOK, StrokesHaveShape, InLine, RelayedBegan, LostOnlyWithConnection,
         session \in 1 .. MaxSessions, wire[session] # <<>>,
         NEW name, name = Head(wire[session]), events[name].session = session,
         events[name].kind = "stroke_end", events[name].stroke \notin begun
  PROVE  Ignored(events[name])
<1> DEFINE begin == events[name].stroke
<1>1. wire[session] \in Seq(Event) /\ Names(wire[session]) \subseteq Event
  BY QueuesTyped
<1>2. name \in Names(wire[session]) /\ name \in Event
  BY <1>1, TailOfQueue
<1>3. /\ begin \in Event /\ begin \in 1 .. name /\ events[begin].kind = "stroke_begin"
      /\ events[begin].session = session
  BY <1>2, StrokesOfEvents, Places DEF StrokesHaveShape, TypeOK
<1>4. name \in Nat /\ begin # name
  BY <1>2, <1>3, Places DEF TypeOK
<1> HIDE DEF begin
<1>5. ASSUME <<name, begin>> \in AllowedIn(session) PROVE events[begin].late
  <2>1. name # begin /\ (name < begin \/ events[begin].late)
    BY <1>2, <1>3, <1>5, Allowed
  <2> QED
    BY <1>3, <1>4, <2>1
<1>6. begin \in Held \cup Names(relayed) \cup lost
  <2>1. ~Ignored(events[begin])
    BY <1>3 DEF Ignored
  <2> QED
    BY <1>3, <2>1 DEF LostOnlyWithConnection
<1>7. CASE begin \in Names(sendBuffer) \cup Names(pending)
  <2>1. Names(wire[session]) \X (Names(sendBuffer) \cup Names(pending)) \subseteq AllowedIn(session)
    BY DEF InLine, HeldInLine
  <2> QED
    BY <1>2, <1>5, <1>7, <2>1 DEF Ignored, begin
<1>8. CASE begin \in Names(wire[session])
  <2>1. OrderedBy(wire[session], AllowedIn(session))
    BY DEF InLine, SentInLine
  <2>2. {name} \X Names(Tail(wire[session])) \subseteq AllowedIn(session)
    BY <1>1, <2>1, TailOfQueue
  <2>3. begin \in Names(Tail(wire[session]))
    BY <1>1, <1>4, <1>8, FirstAndRest
  <2> QED
    BY <1>5, <2>2, <2>3 DEF Ignored, begin
<1>9. CASE begin \in Names(relayed)
  BY <1>3, <1>9 DEF RelayedBegan, begin
<1>10. CASE begin \in lost
  BY <1>10 DEF Ignored, begin
<1> QED
  BY <1>6, <1>7, <1>8, <1>9, <1>10 DEF Held

\* A message that arrives is relayed, or lost behind a hang-up, or the end of a stroke of
\* which the service knows nothing.
LEMMA LossesDeliver ==
  ASSUME TypeOK, StrokesHaveShape, CarriedOver, InLine, RelayedBegan, LostOnlyWithConnection,
         NEW on \in 1 .. MaxSessions, Deliver(on)
  PROVE  LostOnlyWithConnection'
<1>1. PICK name : name = Head(wire[on])
  OBVIOUS
<1>2. /\ wire[on] # <<>> /\ name \in Event /\ UNCHANGED <<tabVars, sendBuffer, pending, losses>>
      /\ \A o \in 1 .. MaxSessions : o # on => wire'[o] = wire[o]
      /\ lost \subseteq lost' /\ Names(wire[on]) \subseteq {name} \cup Names(wire'[on]) \cup lost'
  BY <1>1, DeliverCases
<1>3. \/ ~Own(name, on) /\ UNCHANGED relayed
      \/ /\ UNCHANGED relayed
         /\ Own(name, on) => events[name].kind = "stroke_end" /\ events[name].stroke \notin begun
      \/ relayed' = Append(relayed, name)
  BY <1>1, DeliverCases DEF Relay, roomVars
<1>4. UNCHANGED <<events, sessions>> /\ session' = session /\ Event' = Event
  BY <1>2 DEF tabVars, session, Event
<1>5. Names(relayed) \subseteq Names(relayed') /\ (relayed' = Append(relayed, name) => name \in Names(relayed'))
  <2>1. relayed \in Seq(Event)
    BY QueuesTyped
  <2>2. CASE relayed' = Append(relayed, name)
    <3>1. Names(relayed') = Names(relayed) \cup {name}
      BY <1>2, <2>1, <2>2, AppendToQueue
    <3> QED
      BY <3>1
  <2>3. CASE UNCHANGED relayed /\ relayed' # Append(relayed, name)
    BY <2>3
  <2>4. CASE UNCHANGED relayed /\ relayed' = Append(relayed, name)
    BY <2>2, <2>4
  <2> QED
    BY <1>3, <2>2, <2>3, <2>4
<1> SUFFICES ASSUME NEW n \in Event, events[n].session = session PROVE Accounted(n)'
  BY <1>4 DEF LostOnlyWithConnection, Accounted
<1>6. Accounted(n)
  BY DEF LostOnlyWithConnection, Accounted
<1>7. /\ events[n].stroke \in Event \cup {0}
      /\ events[n].kind = "stroke_end" => events[n].stroke \in Event
      /\ session \in 1 .. MaxSessions
  BY StrokesOfEvents
<1>8. CASE n # name \/ on # session \/ n \in Names(relayed')
  <2>1. n \in Held => n \in Held' \cup Names(relayed') \cup lost'
    <3>1. CASE on # session
      BY <1>2, <1>4, <1>7, <3>1 DEF Held
    <3>2. CASE on = session
      <4>1. Held' = Names(pending) \cup Names(sendBuffer) \cup Names(wire'[on])
        BY <1>2, <1>4, <3>2 DEF Held
      <4>2. Held = Names(pending) \cup Names(sendBuffer) \cup Names(wire[on])
        BY <3>2 DEF Held
      <4> QED
        BY <1>2, <1>8, <3>2, <4>1, <4>2
    <3> QED
      BY <3>1, <3>2
  <2> QED
    BY <1>2, <1>4, <1>5, <1>6, <1>7, <2>1, AccountedKept
<1>9. CASE n = name /\ on = session /\ n \notin Names(relayed')
  <2>1. Own(name, on)
    BY <1>9 DEF Own, RoomOf, UserOf
  <2>2. events[name].kind = "stroke_end" /\ events[name].stroke \notin begun
    BY <1>3, <1>5, <1>9, <2>1
  <2>3. Ignored(events[name])
    BY <1>1, <1>2, <1>9, <2>2, EndIgnored
  <2>4. Ignored(events[n])'
    BY <1>2, <1>4, <1>9, <2>3 DEF Ignored
  <2> QED
    BY <2>4 DEF Accounted
<1> QED
  BY <1>8, <1>9

\* Nothing is lost but with its connection.
LEMMA LossesStep ==
  ASSUME TypeOK, StrokesHaveShape, CarriedOver, InLine, RelayedBegan, LostOnlyWithConnection,
         [Next]_vars
  PROVE  LostOnlyWithConnection'
<1>1. CASE \E on \in 1 .. MaxSessions : Deliver(on)
  BY <1>1, LossesDeliver
<1>2. CASE Reload \/ \E room \in Room : Enter(room)
  <2>1. session' = session + 1
    BY <1>2, ReloadsTyped, EntersTyped
  <2>2. UNCHANGED events
    BY <1>2 DEF Reload, Enter
  <2>3. \A n \in Event : events[n].session \in 1 .. session /\ session \in Nat
    BY Places DEF TypeOK, SomeEvent
  <2>4. \A n \in Event' : events'[n].session # session'
    BY <2>1, <2>2, <2>3 DEF Event
  <2> QED
    BY <2>4 DEF LostOnlyWithConnection
<1>3. CASE PointerDown \/ PointerPours \/ PointerMove \/ PointerUp
  <2>1. PICK kind \in Kind, stroke \in 0 .. Len(events) + 1 : Emit(kind, stroke)
    BY <1>3, PointerEmits
  <2>2. PICK name : name = Len(events) + 1
    OBVIOUS
  <2>3. /\ \A n \in Event : events'[n] = events[n]
        /\ Event' = Event \cup {name} /\ session \in 1 .. MaxSessions /\ session' = session
    BY <2>1, <2>2, EmitAppends
  <2>4. UNCHANGED <<relayed, lost>>
    BY <2>1 DEF Emit, roomVars
  <2>5. Held' = Held \cup {name}
    <3>1. /\ sendBuffer \in Seq(Event') /\ pending \in Seq(Event') /\ wire[session] \in Seq(Event')
          /\ wire \in [1 .. MaxSessions -> Seq(Event)]
      <4>1. Event \subseteq Event'
        BY <2>3
      <4>2. sendBuffer \in Seq(Event) /\ pending \in Seq(Event) /\ wire[session] \in Seq(Event)
        BY <2>3, QueuesTyped
      <4> QED
        BY <4>1, <4>2, SeqMonotonic DEF TypeOK, SocketTyped
    <3>2. name \in Event'
      BY <2>3
    <3>3. CASE pending' = Append(pending, name) /\ UNCHANGED <<sendBuffer, wire>>
      <4>1. Names(pending') = Names(pending) \cup {name}
        BY <3>1, <3>2, <3>3, AppendToQueue
      <4> QED
        BY <2>3, <3>3, <4>1 DEF Held
    <3>4. CASE wire' = [wire EXCEPT ![session] = Append(wire[session], name)]
               /\ UNCHANGED <<pending, sendBuffer>>
      <4>1. wire'[session] = Append(wire[session], name)
        BY <2>3, <3>1, <3>4
      <4>2. Names(Append(wire[session], name)) = Names(wire[session]) \cup {name}
        BY <3>1, <3>2, AppendToQueue
      <4> QED
        BY <2>3, <3>4, <4>1, <4>2 DEF Held
    <3>5. CASE sendBuffer' = Append(sendBuffer, name) /\ UNCHANGED <<pending, wire>>
      <4>1. Names(sendBuffer') = Names(sendBuffer) \cup {name}
        BY <3>1, <3>2, <3>5, AppendToQueue
      <4> QED
        BY <2>3, <3>5, <4>1 DEF Held
    <3> QED
      BY <2>1, <2>2, <3>3, <3>4, <3>5, EmitQueues
  <2>6. ASSUME NEW n \in Event', events'[n].session = session' PROVE Accounted(n)'
    <3>1. CASE n = name
      BY <2>5, <3>1 DEF Accounted
    <3>2. CASE n \in Event
      <4>1. Accounted(n)
        BY <2>3, <2>6, <3>2 DEF LostOnlyWithConnection, Accounted
      <4>2. events[n].stroke \in Event \cup {0} /\ (events[n].kind = "stroke_end" => events[n].stroke \in Event)
        BY <3>2, StrokesOfEvents
      <4>3. n \in Held => n \in Held'
        BY <2>5
      <4> QED
        BY <2>3, <2>4, <3>2, <4>1, <4>2, <4>3, AccountedKept
    <3> QED
      BY <2>3, <2>6, <3>1, <3>2
  <2> QED
    BY <2>6 DEF LostOnlyWithConnection, Accounted
<1>4. CASE Connect \/ Leave \/ Mount \/ Render \/ Refused \/ Lose \/ GiveUp \/ WatcherAway
             \/ WatcherBack \/ CursorMove \/ CursorAges \/ SweepCursors \/ UNCHANGED vars
  <2>1. UNCHANGED <<sessions, events, relayed>> /\ lost \subseteq lost'
    BY <1>4 DEF Connect, Leave, Mount, Render, Refused, Lose, GiveUp, WatcherAway, WatcherBack,
             CursorMove, CursorAges, SweepCursors, vars, tabVars, socketVars, roomVars
  <2>2. session' = session /\ Event' = Event
    BY <2>1 DEF session, Event
  <2>3. Held \subseteq Held' \cup lost'
    <3>1. CASE Connect
      <4>1. /\ session' = session
            /\ Names(wire'[session]) = Names(wire[session]) \cup Names(sendBuffer) \cup Names(pending)
        BY <3>1, ConnectTyped
      <4> QED
        BY <4>1 DEF Held
    <3>2. CASE Lose
      <4>1. lost' = lost \cup Names(wire[session]) /\ UNCHANGED <<pending, sendBuffer>>
        BY <3>2 DEF Lose, Names
      <4> QED
        BY <4>1 DEF Held
    <3>3. CASE UNCHANGED <<pending, sendBuffer, wire>>
      BY <2>2, <3>3 DEF Held
    <3>4. Connect \/ Lose \/ UNCHANGED <<pending, sendBuffer, wire>>
      BY <1>4 DEF Leave, Mount, Render, Refused, GiveUp, WatcherAway, WatcherBack,
             CursorMove, CursorAges, SweepCursors, vars, socketVars
    <3> QED
      BY <3>1, <3>2, <3>3, <3>4
  <2>4. ASSUME NEW n \in Event, events[n].session = session PROVE Accounted(n)'
    <3>1. Accounted(n)
      BY <2>4 DEF LostOnlyWithConnection, Accounted
    <3>2. events[n].stroke \in Event \cup {0} /\ (events[n].kind = "stroke_end" => events[n].stroke \in Event)
      BY StrokesOfEvents
    <3> QED
      BY <2>1, <2>3, <3>1, <3>2, AccountedKept
  <2> QED
    BY <2>1, <2>2, <2>4 DEF LostOnlyWithConnection, Accounted
<1> QED
  BY <1>1, <1>2, <1>3, <1>4 DEF Next

\* The invariant holds at first: nothing has been emitted.
LEMMA InvariantInit == Init => Invariant
<1> SUFFICES ASSUME Init PROVE Invariant
  OBVIOUS
<1>1. TypeOK
  BY TypeInit
<1>2. Event = {} /\ session = 0 /\ Names(relayed) = {} /\ Names(pending) = {} /\ Names(sendBuffer) = {}
      /\ \A s \in 1 .. MaxSessions : wire[s] = <<>>
  <2>1. Len(<<>>) = 0 /\ DOMAIN <<>> = {}
    OBVIOUS
  <2> QED
    BY <2>1, EmptyQueue DEF Init, Event, session
<1>3. StrokesHaveShape
  BY <1>2 DEF Init, StrokesHaveShape
<1>4. QueuesMeet
  BY <1>2 DEF Init, QueuesMeet
<1>5. CarriedOver
  BY <1>2, EmptyQueue DEF CarriedOver
<1>6. InLine
  <2>1. HeldInLine
    BY <1>2, EmptyQueue DEF Init, HeldInLine
  <2>2. \A s \in 1 .. MaxSessions : SentInLine(s)
    BY <1>2, EmptyQueue DEF Init, SentInLine
  <2> QED
    BY <2>1, <2>2 DEF InLine
<1>7. Watching
  BY <1>2 DEF Init, Watching
<1>8. Kicked
  BY DEF Init, Kicked
<1>9. RelayedBegan /\ LostOnlyWithConnection
  BY <1>2 DEF RelayedBegan, LostOnlyWithConnection
<1> QED
  BY <1>1, <1>3, <1>4, <1>5, <1>6, <1>7, <1>8, <1>9 DEF Invariant

\* And every step keeps it.
LEMMA InvariantStep == Invariant /\ [Next]_vars => Invariant'
<1> SUFFICES ASSUME Invariant, [Next]_vars PROVE Invariant'
  OBVIOUS
<1>1. /\ TypeOK /\ StrokesHaveShape /\ QueuesMeet /\ CarriedOver /\ InLine /\ Watching /\ Kicked
      /\ RelayedBegan /\ LostOnlyWithConnection
  BY DEF Invariant
<1>2. TypeOK'
  BY <1>1, TypeStep
<1>3. StrokesHaveShape'
  BY <1>1, ShapeStep
<1>4. QueuesMeet'
  BY <1>1, QueuesMeetStep
<1>5. CarriedOver'
  BY <1>1, CarriedStep
<1>6. InLine'
  BY <1>1, LineStep
<1>7. Watching'
  BY <1>1, WatchingStep
<1>8. Kicked'
  BY <1>1, KickedStep
<1>9. RelayedBegan'
  BY <1>1, BeganStep
<1>10. LostOnlyWithConnection'
  BY <1>1, LossesStep
<1> QED
  BY <1>2, <1>3, <1>4, <1>5, <1>6, <1>7, <1>8, <1>9, <1>10 DEF Invariant

-----------------------------------------------------------------------------
(* Theorems.                                                                *)

\* A queue in growing order has as many names as places.
LEMMA GrowingQueue ==
  ASSUME NEW q \in Seq(Nat), \A i, j \in DOMAIN q : i < j => q[i] < q[j]
  PROVE  Cardinality(Names(q)) = Len(q)
<1>1. /\ DOMAIN q = 1 .. Len(q) /\ Len(q) \in Nat /\ \A i \in DOMAIN q : q[i] \in Names(q)
      /\ \A x \in Names(q) : \E i \in DOMAIN q : q[i] = x
  BY NamesInQueue
<1>2. IsFiniteSet(1 .. Len(q)) /\ Cardinality(1 .. Len(q)) = Len(q)
  <2>1. IsFiniteSet(1 .. Len(q)) /\ Cardinality(1 .. Len(q)) = IF 1 > Len(q) THEN 0 ELSE Len(q) - 1 + 1
    BY <1>1, FS_Interval
  <2> QED
    BY <1>1, <2>1
<1> DEFINE f == [i \in 1 .. Len(q) |-> q[i]]
<1>3. ExistsBijection(1 .. Len(q), Names(q))
  <2>1. f \in [1 .. Len(q) -> Names(q)]
    BY <1>1
  <2>2. \A i, j \in 1 .. Len(q) : f[i] = f[j] => i = j
    <3> SUFFICES ASSUME NEW i \in 1 .. Len(q), NEW j \in 1 .. Len(q), q[i] = q[j] PROVE i = j
      OBVIOUS
    <3>1. q[i] \in Nat /\ q[j] \in Nat
      BY <1>1, ElementOfSeq
    <3>2. ~(q[i] < q[j]) /\ ~(q[j] < q[i])
      BY <3>1
    <3>3. ~(i < j) /\ ~(j < i)
      BY <1>1, <3>2
    <3> QED
      BY <1>1, <3>3
  <2>3. \A x \in Names(q) : \E i \in 1 .. Len(q) : f[i] = x
    BY <1>1
  <2> HIDE DEF f
  <2>4. f \in Bijection(1 .. Len(q), Names(q))
    BY <2>1, <2>2, <2>3 DEF Bijection, Injection, Surjection, IsInjective
  <2> QED
    BY <2>4 DEF ExistsBijection
<1> HIDE DEF f
<1> QED
  BY <1>2, <1>3, FS_Bijection

\* Every variable has its type.
THEOREM TypeCorrect == Spec => []TypeOK
<1>1. Invariant => TypeOK
  BY DEF Invariant
<1> QED
  BY <1>1, InvariantInit, InvariantStep, PTL DEF Spec

\* The service hangs up only on what was carried over from an earlier room or user.
THEOREM KicksAreCarriedOver == Spec => []KickedOnlyByCarryOver
<1>1. Invariant => KickedOnlyByCarryOver
  BY DEF Invariant, Kicked, KickedOnlyByCarryOver
<1> QED
  BY <1>1, InvariantInit, InvariantStep, PTL DEF Spec

\* What the tab emits for its present room is held, sent and relayed, or lost with the
\* connection it was sent on, or is the end of a stroke whose beginning was.
THEOREM NothingElseIsLost == Spec => []LostOnlyWithConnection
<1>1. Invariant => LostOnlyWithConnection
  BY DEF Invariant
<1> QED
  BY <1>1, InvariantInit, InvariantStep, PTL DEF Spec

\* The events of a session reach the room once, and in order but for the late ones.
THEOREM SentOnce == Spec => []SentOnceInOrder
<1>1. Invariant => SentOnceInOrder
  <2> SUFFICES ASSUME Invariant, NEW i \in DOMAIN relayed, NEW j \in DOMAIN relayed, i < j,
                      events[relayed[i]].session = events[relayed[j]].session
               PROVE  relayed[i] # relayed[j] /\ (relayed[i] < relayed[j] \/ events[relayed[j]].late)
    BY DEF SentOnceInOrder
  <2>1. TypeOK /\ InLine
    BY DEF Invariant
  <2>2. relayed[i] \in Event /\ relayed[j] \in Event
    <3>1. relayed \in Seq(Event)
      BY <2>1, QueuesTyped
    <3> QED
      BY <3>1, NamesInQueue
  <2> DEFINE s == events[relayed[i]].session
  <2>3. s \in 1 .. MaxSessions
    <3>1. \A n \in Event : events[n].session \in 1 .. session
      BY <2>1, Places DEF TypeOK, SomeEvent
    <3>2. session \in Nat /\ session <= MaxSessions /\ MaxSessions \in Nat
      BY <2>1, Places DEF TypeOK
    <3> QED
      BY <2>2, <3>1, <3>2
  <2>4. <<relayed[i], relayed[j]>> \in AllowedIn(s)
    <3> HIDE DEF s
    <3> QED
      BY <2>1, <2>3 DEF InLine, SentInLine, OrderedBy
  <2> QED
    BY <2>2, <2>4, Allowed
<1> QED
  BY <1>1, InvariantInit, InvariantStep, PTL DEF Spec

\* A stroke that was relayed in its turn to a watcher that was there is on its canvas.
THEOREM WatcherFollows == Spec => []WatcherDrawsStroke
<1>1. Invariant => WatcherDrawsStroke
  <2> SUFFICES ASSUME Invariant, NEW stroke \in Event,
                      events[stroke].kind = "stroke_begin", RoomOf(events[stroke]) = Watched,
                      {n \in Event : events[n].stroke = stroke} \subseteq Names(relayed) \ missed,
                      \A n \in {m \in Event : events[m].stroke = stroke} : ~events[n].late
               PROVE  LET its == {n \in Event : events[n].stroke = stroke}
                          points == {n \in its : events[n].kind = "stroke_segment"}
                          drawn == watcher.drawn[stroke]
                      IN /\ Names(drawn) = points
                         /\ \A i, j \in DOMAIN drawn : i < j => drawn[i] < drawn[j]
                         /\ StrokeRendererRender(drawn) = <<>> <=> Cardinality(points) < 2
                         /\ stroke \in watcher.open <=> ~\E n \in its : events[n].kind = "stroke_end"
    BY Zenon DEF WatcherDrawsStroke
  <2> DEFINE its == {n \in Event : events[n].stroke = stroke}
             points == {n \in its : events[n].kind = "stroke_segment"}
             drawn == watcher.drawn[stroke]
  <2>1. TypeOK /\ StrokesHaveShape /\ Watching
    BY DEF Invariant
  <2>2. Followed(stroke)
    BY DEF Followed
  <2>3. stroke \in Names(relayed) /\ its \subseteq Names(relayed) /\ Names(relayed) \subseteq Event
    <3>1. events[stroke].stroke = stroke
      BY <2>1 DEF StrokesHaveShape
    <3> QED
      BY <2>1, <3>1, QueuesTyped
  <2>4. /\ Names(drawn) = Shown(stroke)
        /\ \A i, j \in DOMAIN drawn : i < j => drawn[i] < drawn[j]
        /\ stroke \in watcher.open <=>
             ~\E n \in Names(relayed) : events[n].stroke = stroke /\ events[n].kind = "stroke_end"
    BY <2>1, <2>2, <2>3 DEF Watching, Watches
  <2>5. Shown(stroke) = points
    BY <2>3 DEF Shown
  <2>6. stroke \in watcher.open <=> ~\E n \in its : events[n].kind = "stroke_end"
    BY <2>3, <2>4
  <2>7. drawn \in Seq(Nat)
    <3>1. Event \subseteq Nat /\ stroke \in 1 .. MaxEvents
      BY <2>1, Places DEF TypeOK
    <3>2. drawn \in Seq(Event)
      BY <2>1, <3>1 DEF TypeOK, RoomTyped
    <3> QED
      BY <3>1, <3>2, SeqMonotonic
  <2>8. Cardinality(points) = Len(drawn) /\ Len(drawn) \in Nat
    <3> HIDE DEF drawn, points
    <3>1. Cardinality(Names(drawn)) = Len(drawn)
      BY <2>4, <2>7, GrowingQueue
    <3> QED
      BY <2>4, <2>5, <2>7, <3>1, LenProperties
  <2>9. StrokeRendererRender(drawn) = <<>> <=> Cardinality(points) < 2
    <3> HIDE DEF drawn, points
    <3>1. CASE Len(drawn) < 2
      BY <2>8, <3>1 DEF StrokeRendererRender
    <3>2. CASE ~(Len(drawn) < 2)
      <4>1. drawn # <<>>
        BY <2>7, <3>2, EmptySeq
      <4> QED
        BY <2>8, <3>2, <4>1 DEF StrokeRendererRender
    <3> QED
      BY <3>1, <3>2
  <2> QED
    BY <2>4, <2>5, <2>6, <2>9
<1> QED
  BY <1>1, InvariantInit, InvariantStep, PTL DEF Spec

=================================================================================
