-------------------------- MODULE StrokePipelineProofs --------------------------
(***************************************************************************)
(* Type correctness of StrokePipeline, the safety net, and the order of a  *)
(* stroke's handlers with what follows from it, for any number of strokes, *)
(* segments and faults.                                                    *)
(***************************************************************************)
EXTENDS StrokePipeline, SequenceTheorems, FiniteSetLemmas

-----------------------------------------------------------------------------
(* The safety net: a key in Redis is never left without a TTL while nothing *)
(* is in flight for its stroke, unless a handler was cut off.               *)

\* A step of the same handler that comes before EXPIRE, EXPIRE included. The
\* writing step itself is in the set because an outage may have lost its answer.
BeforeHashExpire == {"begin_hset", "begin_sadd", "begin_expire",
                     "end_hset", "end_srem", "end_expire"}
BeforePointsExpire == {"segment_rpush", "segment_expire"}

Awaits(s, steps) == \E i \in DOMAIN conn : conn[i].stroke = s /\ conn[i].step \in steps

NeedsHashExpire(s) ==
  cache[s].meta # "none" /\ cache[s].ttl = Forever /\ "aborted" \notin fault[s]
NeedsPointsExpire(s) ==
  cache[s].points # <<>> /\ cache[s].pointsTtl = Forever /\ "aborted" \notin fault[s]

\* The strengthening of SafetyNet: a key without a TTL still has its EXPIRE to come.
ExpirePending ==
  \A s \in Stroke :
    /\ NeedsHashExpire(s) => Awaits(s, BeforeHashExpire)
    /\ NeedsPointsExpire(s) => Awaits(s, BeforePointsExpire)

-----------------------------------------------------------------------------
(* The queue of commands.                                                  *)

\* Removing the oldest command and adding one keeps every other command.
LEMMA ShiftKeeps ==
  ASSUME NEW S, NEW q \in Seq(S), q # <<>>, NEW c \in S
  PROVE  /\ Tail(q) \in Seq(S)
         /\ Append(Tail(q), c) \in Seq(S)
         /\ Len(Append(Tail(q), c)) = Len(q)
         /\ Append(Tail(q), c)[Len(q)] = c
         /\ \A i \in DOMAIN q : i # 1 =>
              /\ \E j \in DOMAIN Append(Tail(q), c) : Append(Tail(q), c)[j] = q[i]
              /\ \E j \in DOMAIN Tail(q) : Tail(q)[j] = q[i]
<1>1. /\ Tail(q) \in Seq(S) /\ Len(Tail(q)) = Len(q) - 1 /\ Len(q) \in Nat \ {0}
      /\ \A i \in 1..Len(Tail(q)) : Tail(q)[i] = q[i + 1]
  BY HeadTailProperties, EmptySeq, LenProperties
<1>2. /\ Append(Tail(q), c) \in Seq(S)
      /\ Len(Append(Tail(q), c)) = Len(q)
      /\ Append(Tail(q), c)[Len(q)] = c
      /\ \A i \in 1..Len(Tail(q)) : Append(Tail(q), c)[i] = Tail(q)[i]
  BY <1>1
<1>3. ASSUME NEW i \in DOMAIN q, i # 1
      PROVE  /\ \E j \in DOMAIN Append(Tail(q), c) : Append(Tail(q), c)[j] = q[i]
             /\ \E j \in DOMAIN Tail(q) : Tail(q)[j] = q[i]
  <2>1. i \in 2..Len(q)
    BY <1>3, LenProperties
  <2>2. /\ i - 1 \in 1..Len(Tail(q)) /\ i - 1 \in 1..Len(Append(Tail(q), c))
        /\ Tail(q)[i - 1] = q[i]
    BY <2>1, <1>1, <1>2
  <2>3. Append(Tail(q), c)[i - 1] = q[i]
    BY <2>2, <1>2
  <2>4. i - 1 \in DOMAIN Tail(q) /\ i - 1 \in DOMAIN Append(Tail(q), c)
    BY <2>2, <1>1, <1>2, LenProperties
  <2> QED BY <2>2, <2>3, <2>4
<1> QED BY <1>1, <1>2, <1>3

\* Executing a command leaves well-formed keys.
LEMMA WrittenType ==
  ASSUME NEW e \in CacheEntry, NEW c \in Command
  PROVE  Written(e, c) \in CacheEntry
<1>1. /\ e.meta \in {"none", "active", "completed", "statusOnly"}
      /\ e.ttl \in {Forever, Hour, LateJoinTtl}
      /\ e.points \in Seq(Point)
      /\ e.pointsTtl \in {Forever, Hour, LateJoinTtl}
  BY DEF CacheEntry
<1>2. MetaAfter(e, c) \in {"none", "active", "completed", "statusOnly"}
  BY <1>1 DEF MetaAfter
<1>3. TtlAfter(e.meta # "none", e.ttl, c.step, "begin_expire", "end_expire")
        \in {Forever, Hour, LateJoinTtl}
  BY <1>1 DEF TtlAfter
<1>4. TtlAfter(e.points # <<>>, e.pointsTtl, c.step, "segment_expire", "end_expirePoints")
        \in {Forever, Hour, LateJoinTtl}
  BY <1>1 DEF TtlAfter
<1>5. c.n \in Point
  BY DEF Command
<1>6. (IF c.step = "segment_rpush" THEN Append(e.points, c.n) ELSE e.points) \in Seq(Point)
  BY <1>1, <1>5
<1> QED BY <1>2, <1>3, <1>4, <1>6 DEF Written, CacheEntry

\* Redis keeps the types of what it stores.
LEMMA ExecuteType ==
  ASSUME TypeOK, NEW c \in Command, Execute(c)
  PROVE  cache' \in [Stroke -> CacheEntry] /\ activeStrokes' \subseteq Stroke
<1>1. c.stroke \in Stroke
  BY DEF Command
<1>2. Written(cache[c.stroke], c) \in CacheEntry
  BY <1>1, WrittenType DEF TypeOK
<1> QED BY <1>1, <1>2 DEF TypeOK, Execute

\* A fault is counted and recorded within its types.
LEMMA FaultType ==
  ASSUME TypeOK, NEW kind \in FaultKind, NEW S, Fault(kind, S)
  PROVE  fault' \in [Stroke -> SUBSET FaultKind] /\ faults' \in 0..MaxFaults
BY PipelineAssumption DEF TypeOK, Fault

\* Delivering an event keeps the types.
LEMMA DeliverType ==
  ASSUME TypeOK, NEW s \in Stroke, NEW c \in Command,
         NEW next \in [phase : {"idle", "drawing", "done"}, sent : Point],
         Deliver(s, c, next)
  PROVE  TypeOK'
<1>1. client' \in [Stroke -> [phase : {"idle", "drawing", "done"}, sent : Point]]
  BY DEF TypeOK, Deliver
<1>2. conn' \in Seq(Command) /\ lost' \in Nat /\ lost' <= Len(conn')
  <2>1. /\ conn \in Seq(Command) /\ lost \in Nat /\ lost <= Len(conn) /\ lost' = lost
        /\ conn' = conn \/ conn' = Append(conn, c)
    BY DEF TypeOK, Deliver
  <2>2. Append(conn, c) \in Seq(Command) /\ Len(Append(conn, c)) = Len(conn) + 1
    BY <2>1
  <2>3. Len(conn) \in Nat
    BY <2>1
  <2> QED BY <2>1, <2>2, <2>3
<1>3. fault' \in [Stroke -> SUBSET FaultKind] /\ faults' \in 0..MaxFaults
  <2>1. CASE link = "up" /\ UNCHANGED faultVars
    BY <2>1 DEF TypeOK, faultVars
  <2>2. CASE fault' = [fault EXCEPT ![s] = @ \cup {"undelivered"}] /\ UNCHANGED faults
    BY <2>2 DEF TypeOK, FaultKind
  <2>3. CASE Fault("undelivered", {s})
    BY <2>3, FaultType DEF FaultKind
  <2> QED BY <2>1, <2>2, <2>3 DEF Deliver
<1> QED BY <1>1, <1>2, <1>3 DEF TypeOK, Deliver, redisVars

\* The initial state is well typed.
LEMMA TypeInit == Init => TypeOK
BY PipelineAssumption DEF Init, TypeOK, NoEntry, CacheEntry, Point, Forever, FaultKind

\* The oldest command, and the queue without it.
LEMMA HeadType ==
  ASSUME TypeOK, Answering
  PROVE  /\ Head(conn) \in Command /\ Head(conn) = conn[1] /\ 1 \in DOMAIN conn
         /\ Tail(conn) \in Seq(Command)
         /\ lost = 0 /\ conn # <<>>
BY DEF TypeOK, Answering

\* Every step keeps the types.
LEMMA TypeNext == TypeOK /\ [Next]_vars => TypeOK'
<1> SUFFICES ASSUME TypeOK, [Next]_vars PROVE TypeOK'
  OBVIOUS
<1>1. CASE \E s \in Stroke : BeginStroke(s)
  <2> PICK s \in Stroke : BeginStroke(s)
    BY <1>1
  <2>1. 0 \in Point
    BY PipelineAssumption DEF Point
  <2> QED BY <2>1, DeliverType DEF BeginStroke, Command, Step, Successor
<1>2. CASE \E s \in Stroke : SendSegment(s)
  <2> PICK s \in Stroke : SendSegment(s)
    BY <1>2
  <2>1. client[s].sent + 1 \in Point
    BY PipelineAssumption DEF SendSegment, Segment, Point
  <2> QED BY <2>1, DeliverType DEF SendSegment, Command, Step, Successor
<1>3. CASE \E s \in Stroke : EndStroke(s)
  <2> PICK s \in Stroke : EndStroke(s)
    BY <1>3
  <2>1. 0 \in Point
    BY PipelineAssumption DEF Point
  <2>2. [client[s] EXCEPT !.phase = "done"]
          \in [phase : {"idle", "drawing", "done"}, sent : Point]
    BY DEF TypeOK
  <2> QED BY <2>1, <2>2, DeliverType DEF EndStroke, Command, Step, Successor
<1>4. CASE Continue
  <2> DEFINE c == Head(conn)
             next == [c EXCEPT !.step = Successor[c.step]]
  <2>1. c \in Command /\ Tail(conn) \in Seq(Command) /\ lost = 0 /\ conn # <<>>
    BY <1>4, HeadType DEF Continue
  <2>2. Successor[c.step] \in Step
    BY <1>4 DEF Continue, Continues, Step, Successor
  <2>3. next \in Command
    BY <2>1, <2>2 DEF Command
  <2>4. conn' \in Seq(Command) /\ lost' \in Nat /\ lost' <= Len(conn')
    BY <1>4, <2>1, <2>3, ShiftKeeps DEF Continue, TypeOK
  <2>5. cache' \in [Stroke -> CacheEntry] /\ activeStrokes' \subseteq Stroke
    BY <1>4, <2>1, ExecuteType DEF Continue
  <2>6. accepted' \in [Stroke -> Seq(Point)]
    BY <1>4, <2>1 DEF Continue, TypeOK, Command
  <2> QED BY <1>4, <2>4, <2>5, <2>6 DEF Continue, TypeOK, faultVars
<1>5. CASE Refuse
  <2>1. Tail(conn) \in Seq(Command) /\ lost = 0
    BY <1>5, HeadType DEF Refuse
  <2> QED BY <1>5, <2>1 DEF Refuse, TypeOK, faultVars, redisVars
<1>6. CASE Relay
  <2> DEFINE c == Head(conn)
             read == [c EXCEPT !.step = "persist_read"]
             event == [kind |-> KindOf[c.step], n |-> c.n]
  <2>1. c \in Command /\ Tail(conn) \in Seq(Command) /\ lost = 0 /\ conn # <<>>
    BY <1>6, HeadType DEF Relay
  <2>2. read \in Command
    BY <2>1 DEF Command, Step
  <2>3. conn' \in Seq(Command) /\ lost' \in Nat /\ lost' <= Len(conn')
    BY <1>6, <2>1, <2>2 DEF Relay, TypeOK
  <2>4. cache' \in [Stroke -> CacheEntry] /\ activeStrokes' \subseteq Stroke
    BY <1>6, <2>1, ExecuteType DEF Relay
  <2>5. event \in Event
    BY <1>6, <2>1 DEF Relay, KindOf, Event, Command
  <2>6. room' \in [Stroke -> Seq(Event)]
    BY <1>6, <2>1, <2>5 DEF Relay, TypeOK, Command
  <2> QED BY <1>6, <2>3, <2>4, <2>6 DEF Relay, TypeOK, faultVars
<1>7. CASE ReadBack
  <2> DEFINE c == Head(conn)
  <2>1. c \in Command /\ Tail(conn) \in Seq(Command) /\ lost = 0
    BY <1>7, HeadType DEF ReadBack
  <2>2. c.stroke \in Stroke /\ cache[c.stroke].points \in Seq(Point)
    BY <2>1 DEF Command, TypeOK, CacheEntry
  <2>3. tasks' \subseteq [stroke : Stroke, points : Seq(Point)]
    BY <1>7, <2>2 DEF ReadBack, TypeOK
  <2> QED BY <1>7, <2>1, <2>3 DEF ReadBack, TypeOK, faultVars, redisVars
<1>8. CASE \E t \in tasks : Insert(t)
  <2> PICK t \in tasks : Insert(t)
    BY <1>8
  <2>1. t.stroke \in Stroke /\ t.points \in Seq(Point)
    BY DEF TypeOK
  <2>2. saved' \in [Stroke -> Seq(Seq(Point))] /\ tasks' \subseteq tasks
    BY <2>1 DEF Insert, TypeOK
  <2> QED BY <2>2 DEF Insert, TypeOK, faultVars, redisVars
<1>9. CASE \E t \in tasks : InsertFails(t)
  <2> PICK t \in tasks : InsertFails(t)
    BY <1>9
  <2>1. fault' \in [Stroke -> SUBSET FaultKind] /\ faults' \in 0..MaxFaults
    BY FaultType DEF InsertFails, FaultKind
  <2> QED BY <2>1 DEF InsertFails, TypeOK, redisVars
<1>10. CASE Reconnect
  BY <1>10 DEF Reconnect, TypeOK, faultVars, redisVars
<1>11. CASE LoseReply
  <2> DEFINE c == conn[lost + 1]
  <2>1. c \in Command
    BY <1>11 DEF LoseReply, TypeOK
  <2>2. cache' \in [Stroke -> CacheEntry] /\ activeStrokes' \subseteq Stroke
    BY <1>11, <2>1, ExecuteType DEF LoseReply
  <2>3. fault' \in [Stroke -> SUBSET FaultKind] /\ faults' \in 0..MaxFaults
    BY <1>11, <2>1, PipelineAssumption DEF LoseReply, TypeOK, FaultKind, Command
  <2>4. lost' \in Nat /\ lost' <= Len(conn')
    BY <1>11 DEF LoseReply, TypeOK
  <2> QED BY <1>11, <2>2, <2>3, <2>4 DEF LoseReply, TypeOK
<1>12. CASE GiveUp
  <2>1. fault' \in [Stroke -> SUBSET FaultKind] /\ faults' \in 0..MaxFaults
    BY <1>12, FaultType DEF GiveUp, FaultKind
  <2> QED BY <1>12, <2>1 DEF GiveUp, TypeOK, redisVars
<1>13. CASE Crash
  <2>1. fault' \in [Stroke -> SUBSET FaultKind] /\ faults' \in 0..MaxFaults
    BY <1>13, FaultType DEF Crash, FaultKind
  <2> QED BY <1>13, <2>1 DEF Crash, TypeOK, redisVars
<1>14. CASE EvictActiveStrokes
  <2>1. fault' \in [Stroke -> SUBSET FaultKind] /\ faults' \in 0..MaxFaults
    BY <1>14, FaultType DEF EvictActiveStrokes, FaultKind
  <2> QED BY <1>14, <2>1 DEF EvictActiveStrokes, TypeOK
<1>15. CASE \E s \in Stroke : EvictHash(s)
  <2> PICK s \in Stroke : EvictHash(s)
    BY <1>15
  <2>1. fault' \in [Stroke -> SUBSET FaultKind] /\ faults' \in 0..MaxFaults
    BY FaultType DEF EvictHash, FaultKind
  <2>2. cache' \in [Stroke -> CacheEntry]
    BY DEF EvictHash, TypeOK, CacheEntry
  <2> QED BY <2>1, <2>2 DEF EvictHash, TypeOK
<1>16. CASE \E s \in Stroke : EvictPoints(s)
  <2> PICK s \in Stroke : EvictPoints(s)
    BY <1>16
  <2>1. fault' \in [Stroke -> SUBSET FaultKind] /\ faults' \in 0..MaxFaults
    BY FaultType DEF EvictPoints, FaultKind
  <2>2. [cache[s] EXCEPT !.points = <<>>, !.pointsTtl = Forever] \in CacheEntry
    <3>1. cache[s] \in CacheEntry /\ <<>> \in Seq(Point)
      BY DEF TypeOK
    <3> QED BY <3>1 DEF CacheEntry
  <2>3. cache' \in [Stroke -> CacheEntry]
    BY <2>2 DEF EvictPoints, TypeOK
  <2> QED BY <2>1, <2>3 DEF EvictPoints, TypeOK
<1>17. CASE UNCHANGED vars
  BY <1>17 DEF vars, TypeOK
<1> QED
  BY <1>1, <1>2, <1>3, <1>4, <1>5, <1>6, <1>7, <1>8, <1>9, <1>10, <1>11, <1>12,
     <1>13, <1>14, <1>15, <1>16, <1>17
     DEF Next, ClientStep, Answer, Database, Faulty

\* Every variable keeps its type in every behaviour, for any number of strokes,
\* segments and faults.
THEOREM TypeCorrect == Spec => []TypeOK
BY TypeInit, TypeNext, PTL DEF Spec

-----------------------------------------------------------------------------
(* The safety net.                                                         *)

\* A key without a TTL after a command had none before and missed its EXPIRE, or
\* the command wrote it.
LEMMA WrittenNeeds ==
  ASSUME NEW e \in CacheEntry, NEW c \in Command
  PROVE  /\ Written(e, c).meta # "none" /\ Written(e, c).ttl = Forever
              => \/ c.step \in {"begin_hset", "end_hset"}
                 \/ /\ e.meta # "none" /\ e.ttl = Forever
                    /\ c.step \notin {"begin_expire", "end_expire"}
         /\ Written(e, c).points # <<>> /\ Written(e, c).pointsTtl = Forever
              => \/ c.step = "segment_rpush"
                 \/ /\ e.points # <<>> /\ e.pointsTtl = Forever
                    /\ c.step \notin {"segment_expire", "end_expirePoints"}
<1>1. Forever # Hour /\ Forever # LateJoinTtl
  BY DEF Forever, Hour, LateJoinTtl
<1>2. ASSUME Written(e, c).meta # "none", Written(e, c).ttl = Forever,
             c.step \notin {"begin_hset", "end_hset"}
      PROVE  e.meta # "none" /\ e.ttl = Forever /\ c.step \notin {"begin_expire", "end_expire"}
  <2>1. e.meta # "none"
    BY <1>2 DEF Written, MetaAfter
  <2>2. Written(e, c).ttl = TtlAfter(TRUE, e.ttl, c.step, "begin_expire", "end_expire")
    BY <2>1 DEF Written
  <2> QED BY <1>1, <1>2, <2>1, <2>2 DEF TtlAfter
<1>3. ASSUME Written(e, c).points # <<>>, Written(e, c).pointsTtl = Forever,
             c.step # "segment_rpush"
      PROVE  /\ e.points # <<>> /\ e.pointsTtl = Forever
             /\ c.step \notin {"segment_expire", "end_expirePoints"}
  <2>1. e.points # <<>>
    BY <1>3 DEF Written
  <2>2. Written(e, c).pointsTtl
          = TtlAfter(TRUE, e.pointsTtl, c.step, "segment_expire", "end_expirePoints")
    BY <2>1 DEF Written
  <2> QED BY <1>1, <1>3, <2>1, <2>2 DEF TtlAfter
<1> QED BY <1>2, <1>3

\* The same for the keys of every stroke, when the connection executes c.
LEMMA ExecuteNeeds ==
  ASSUME TypeOK, NEW c \in Command, Execute(c), NEW s \in Stroke,
         "aborted" \in fault[s] => "aborted" \in fault'[s]
  PROVE  /\ NeedsHashExpire(s)'
              => \/ c.stroke = s /\ c.step \in {"begin_hset", "end_hset"}
                 \/ /\ NeedsHashExpire(s)
                    /\ ~(c.stroke = s /\ c.step \in {"begin_expire", "end_expire"})
         /\ NeedsPointsExpire(s)'
              => \/ c.stroke = s /\ c.step = "segment_rpush"
                 \/ NeedsPointsExpire(s) /\ ~(c.stroke = s /\ c.step = "segment_expire")
<1>1. cache[s] \in CacheEntry /\ c.stroke \in Stroke
  BY DEF TypeOK, Command
<1>2. cache'[s] = IF c.stroke = s THEN Written(cache[s], c) ELSE cache[s]
  BY <1>1 DEF Execute, TypeOK
<1>3. CASE c.stroke = s
  BY <1>1, <1>2, <1>3, WrittenNeeds DEF NeedsHashExpire, NeedsPointsExpire
<1>4. CASE c.stroke # s
  BY <1>2, <1>4 DEF NeedsHashExpire, NeedsPointsExpire
<1> QED BY <1>3, <1>4

\* The head of the queue leaves, another command may join: what a stroke awaits
\* and is not the head, it still awaits.
LEMMA AwaitsAfterHead ==
  ASSUME TypeOK, Answering, NEW s, NEW steps, Awaits(s, steps),
         conn' = Tail(conn) \/ \E c \in Command : conn' = Append(Tail(conn), c),
         ~(Head(conn).stroke = s /\ Head(conn).step \in steps)
  PROVE  Awaits(s, steps)'
<1>1. PICK i \in DOMAIN conn : conn[i].stroke = s /\ conn[i].step \in steps
  BY DEF Awaits
<1>2. i # 1 /\ conn \in Seq(Command) /\ conn # <<>> /\ Head(conn) \in Command
  BY <1>1, HeadType DEF TypeOK
<1>3. \E j \in DOMAIN conn' : conn'[j] = conn[i]
  <2>1. CASE conn' = Tail(conn)
    <3> DEFINE c == Head(conn)
    <3>1. conn \in Seq(Command) /\ conn # <<>> /\ c \in Command
      BY <1>2
    <3> HIDE DEF c
    <3>2. \A k \in DOMAIN conn : k # 1 => \E j \in DOMAIN Tail(conn) : Tail(conn)[j] = conn[k]
      BY ONLY <3>1, ShiftKeeps
    <3>3. \E j \in DOMAIN Tail(conn) : Tail(conn)[j] = conn[i]
      BY <1>2, <3>2
    <3> QED BY <2>1, <3>3
  <2>2. CASE \E c \in Command : conn' = Append(Tail(conn), c)
    <3> PICK c \in Command : conn' = Append(Tail(conn), c)
      BY <2>2
    <3>1. conn \in Seq(Command) /\ conn # <<>>
      BY <1>2
    <3>2. \A k \in DOMAIN conn : k # 1 =>
            \E j \in DOMAIN Append(Tail(conn), c) : Append(Tail(conn), c)[j] = conn[k]
      BY ONLY <3>1, c \in Command, ShiftKeeps
    <3>3. \E j \in DOMAIN Append(Tail(conn), c) : Append(Tail(conn), c)[j] = conn[i]
      BY <1>2, <3>2
    <3> QED BY <3>3
  <2> QED BY <2>1, <2>2
<1> QED BY <1>1, <1>3 DEF Awaits

\* A step that keeps the queue and creates no key without a TTL.
LEMMA QuietStep ==
  ASSUME ExpirePending,
         \A i \in DOMAIN conn : \E j \in DOMAIN conn' : conn'[j] = conn[i],
         \A s \in Stroke : /\ NeedsHashExpire(s)' => NeedsHashExpire(s)
                           /\ NeedsPointsExpire(s)' => NeedsPointsExpire(s)
  PROVE  ExpirePending'
<1>1. \A s, steps : Awaits(s, steps) => Awaits(s, steps)'
  BY DEF Awaits
<1> QED BY <1>1 DEF ExpirePending

\* Events arrive at the end of the queue.
LEMMA DeliverQuiet ==
  ASSUME TypeOK, ExpirePending, NEW s \in Stroke, NEW c \in Command, NEW next,
         Deliver(s, c, next)
  PROVE  ExpirePending'
<1>1. conn \in Seq(Command) /\ (conn' = conn \/ conn' = Append(conn, c))
  BY DEF TypeOK, Deliver
<1>2. \A i \in DOMAIN conn : \E j \in DOMAIN conn' : conn'[j] = conn[i]
  <2>1. CASE conn' = Append(conn, c)
    <3> SUFFICES ASSUME NEW i \in DOMAIN conn
                 PROVE  i \in DOMAIN Append(conn, c) /\ Append(conn, c)[i] = conn[i]
      BY <2>1
    <3> QED BY <1>1
  <2> QED BY <1>1, <2>1
<1>3. \A t \in Stroke : "aborted" \in fault[t] => "aborted" \in fault'[t]
  <2>1. CASE fault' = [fault EXCEPT ![s] = @ \cup {"undelivered"}]
    BY <2>1 DEF TypeOK
  <2>2. CASE Fault("undelivered", {s})
    BY <2>2 DEF Fault
  <2> QED BY <2>1, <2>2 DEF Deliver, faultVars
<1>4. cache' = cache
  BY DEF Deliver, redisVars
<1> QED BY <1>2, <1>3, <1>4, QuietStep DEF NeedsHashExpire, NeedsPointsExpire

\* No key is there at the start.
LEMMA SafetyNetInit == Init => ExpirePending
<1> SUFFICES ASSUME Init, NEW s \in Stroke
             PROVE  ~NeedsHashExpire(s) /\ ~NeedsPointsExpire(s)
  BY DEF ExpirePending
<1>1. cache[s] = NoEntry
  BY DEF Init
<1>2. cache[s].meta = "none" /\ cache[s].points = <<>>
  BY <1>1 DEF NoEntry
<1> QED BY <1>2 DEF NeedsHashExpire, NeedsPointsExpire

\* Every step leaves an EXPIRE to come for each key without a TTL.
LEMMA SafetyNetNext == TypeOK /\ ExpirePending /\ [Next]_vars => ExpirePending'
<1> SUFFICES ASSUME TypeOK, ExpirePending, [Next]_vars PROVE ExpirePending'
  OBVIOUS
<1>1. CASE ClientStep
  <2> PICK s \in Stroke : BeginStroke(s) \/ SendSegment(s) \/ EndStroke(s)
    BY <1>1 DEF ClientStep
  <2>1. 0 \in Point
    BY PipelineAssumption DEF Point
  <2>2. CASE BeginStroke(s)
    BY <2>1, <2>2, DeliverQuiet DEF BeginStroke, Command, Step, Successor
  <2>3. CASE SendSegment(s)
    <3>1. client[s].sent + 1 \in Point
      BY <2>3, PipelineAssumption DEF SendSegment, Segment, Point
    <3> QED BY <2>3, <3>1, DeliverQuiet DEF SendSegment, Command, Step, Successor
  <2>4. CASE EndStroke(s)
    BY <2>1, <2>4, DeliverQuiet DEF EndStroke, Command, Step, Successor
  <2> QED BY <2>2, <2>3, <2>4
<1>2. CASE Continue
  <2> DEFINE c == Head(conn)
             next == [c EXCEPT !.step = Successor[c.step]]
  <2> SUFFICES ASSUME NEW s \in Stroke
               PROVE  /\ NeedsHashExpire(s)' => Awaits(s, BeforeHashExpire)'
                      /\ NeedsPointsExpire(s)' => Awaits(s, BeforePointsExpire)'
    BY DEF ExpirePending
  <2>1. /\ c \in Command /\ conn \in Seq(Command) /\ conn # <<>>
        /\ Answering /\ Execute(c) /\ fault' = fault
    BY <1>2, HeadType DEF Continue, TypeOK, faultVars
  <2>2. Successor[c.step] \in Step
    BY <1>2 DEF Continue, Continues, Step, Successor
  <2>3. next \in Command /\ next.stroke = c.stroke /\ next.step = Successor[c.step]
    BY <2>1, <2>2 DEF Command
  <2>4. conn' = Append(Tail(conn), next)
    BY <1>2 DEF Continue
  <2>5. \E j \in DOMAIN conn' : conn'[j] = next
    <3>1. /\ conn' \in Seq(Command) /\ Len(conn') = Len(conn) /\ conn'[Len(conn)] = next
      BY <2>1, <2>3, <2>4, ShiftKeeps
    <3>2. Len(conn) \in 1..Len(conn)
      BY <2>1
    <3> QED BY <3>1, <3>2
  <2>6. ASSUME NEW steps, Awaits(s, steps),
               c.stroke = s /\ c.step \in steps => Successor[c.step] \in steps
        PROVE  Awaits(s, steps)'
    <3>1. CASE c.stroke = s /\ c.step \in steps
      BY <2>3, <2>5, <2>6, <3>1 DEF Awaits
    <3>2. CASE ~(c.stroke = s /\ c.step \in steps)
      BY <2>1, <2>3, <2>4, <2>6, <3>2, AwaitsAfterHead
    <3> QED BY <3>1, <3>2
  <2>7. ASSUME NeedsHashExpire(s)' PROVE Awaits(s, BeforeHashExpire)'
    <3>1. CASE c.stroke = s /\ c.step \in {"begin_hset", "end_hset"}
      <4>1. Successor[c.step] \in BeforeHashExpire
        BY <3>1 DEF Successor, BeforeHashExpire
      <4> QED BY <2>3, <2>5, <3>1, <4>1 DEF Awaits
    <3>2. CASE /\ NeedsHashExpire(s)
               /\ ~(c.stroke = s /\ c.step \in {"begin_expire", "end_expire"})
      <4>1. Awaits(s, BeforeHashExpire)
        BY <3>2 DEF ExpirePending
      <4>2. c.stroke = s /\ c.step \in BeforeHashExpire
              => Successor[c.step] \in BeforeHashExpire
        BY <3>2 DEF Successor, BeforeHashExpire
      <4> QED BY <2>6, <4>1, <4>2
    <3> QED BY <2>1, <2>7, <3>1, <3>2, ExecuteNeeds
  <2>8. ASSUME NeedsPointsExpire(s)' PROVE Awaits(s, BeforePointsExpire)'
    <3>1. CASE c.stroke = s /\ c.step = "segment_rpush"
      <4>1. Successor[c.step] \in BeforePointsExpire
        BY <3>1 DEF Successor, BeforePointsExpire
      <4> QED BY <2>3, <2>5, <3>1, <4>1 DEF Awaits
    <3>2. CASE NeedsPointsExpire(s) /\ ~(c.stroke = s /\ c.step = "segment_expire")
      <4>1. Awaits(s, BeforePointsExpire)
        BY <3>2 DEF ExpirePending
      <4>2. c.stroke = s /\ c.step \in BeforePointsExpire
              => Successor[c.step] \in BeforePointsExpire
        BY <3>2 DEF Successor, BeforePointsExpire
      <4> QED BY <2>6, <4>1, <4>2
    <3> QED BY <2>1, <2>8, <3>1, <3>2, ExecuteNeeds
  <2> QED BY <2>7, <2>8
<1>3. CASE Refuse \/ ReadBack
  <2> DEFINE c == Head(conn)
  <2>1. Answering /\ conn' = Tail(conn) /\ cache' = cache /\ fault' = fault
    BY <1>3 DEF Refuse, ReadBack, redisVars, faultVars
  <2>2. c.step \in {"begin_consume", "segment_consume", "end_exists", "persist_read"}
    BY <1>3 DEF Refuse, ReadBack
  <2>3. c.step \notin BeforeHashExpire /\ c.step \notin BeforePointsExpire
    BY <2>2 DEF BeforeHashExpire, BeforePointsExpire
  <2>4. ASSUME NEW s \in Stroke, NEW steps, Awaits(s, steps), c.step \notin steps
        PROVE  Awaits(s, steps)'
    BY <2>1, <2>4, AwaitsAfterHead
  <2> QED BY <2>1, <2>3, <2>4 DEF ExpirePending, NeedsHashExpire, NeedsPointsExpire
<1>4. CASE Relay
  <2> DEFINE c == Head(conn)
  <2> SUFFICES ASSUME NEW s \in Stroke
               PROVE  /\ NeedsHashExpire(s)' => Awaits(s, BeforeHashExpire)'
                      /\ NeedsPointsExpire(s)' => Awaits(s, BeforePointsExpire)'
    BY DEF ExpirePending
  <2>1. /\ c \in Command /\ Answering /\ Execute(c) /\ fault' = fault
        /\ c.step \in {"begin_expire", "segment_expire", "end_expirePoints"}
    BY <1>4, HeadType DEF Relay, KindOf, faultVars
  <2>2. [c EXCEPT !.step = "persist_read"] \in Command
    BY <2>1 DEF Command, Step
  <2>3. conn' = Tail(conn) \/ \E d \in Command : conn' = Append(Tail(conn), d)
    BY <1>4, <2>2 DEF Relay
  <2>4. ASSUME NeedsHashExpire(s)' PROVE Awaits(s, BeforeHashExpire)'
    <3>1. NeedsHashExpire(s) /\ ~(c.stroke = s /\ c.step = "begin_expire")
      BY <2>1, <2>4, ExecuteNeeds
    <3>2. ~(c.stroke = s /\ c.step \in BeforeHashExpire)
      BY <2>1, <3>1 DEF BeforeHashExpire
    <3>3. Awaits(s, BeforeHashExpire)
      BY <3>1 DEF ExpirePending
    <3> QED BY <2>1, <2>3, <3>2, <3>3, AwaitsAfterHead
  <2>5. ASSUME NeedsPointsExpire(s)' PROVE Awaits(s, BeforePointsExpire)'
    <3>1. NeedsPointsExpire(s) /\ ~(c.stroke = s /\ c.step = "segment_expire")
      BY <2>1, <2>5, ExecuteNeeds
    <3>2. ~(c.stroke = s /\ c.step \in BeforePointsExpire)
      BY <2>1, <3>1 DEF BeforePointsExpire
    <3>3. Awaits(s, BeforePointsExpire)
      BY <3>1 DEF ExpirePending
    <3> QED BY <2>1, <2>3, <3>2, <3>3, AwaitsAfterHead
  <2> QED BY <2>4, <2>5
<1>5. CASE LoseReply
  <2> DEFINE c == conn[lost + 1]
  <2>1. /\ c \in Command /\ lost + 1 \in DOMAIN conn /\ Execute(c) /\ conn' = conn
    BY <1>5 DEF LoseReply, TypeOK
  <2>2. \A s \in Stroke : "aborted" \in fault[s] => "aborted" \in fault'[s]
    BY <1>5, <2>1 DEF LoseReply, TypeOK, Command
  <2>3. \A s, steps : /\ Awaits(s, steps) => Awaits(s, steps)'
                      /\ c.stroke = s /\ c.step \in steps => Awaits(s, steps)'
    BY <2>1 DEF Awaits
  <2>4. /\ {"begin_hset", "end_hset"} \subseteq BeforeHashExpire
        /\ "segment_rpush" \in BeforePointsExpire
    BY DEF BeforeHashExpire, BeforePointsExpire
  <2> QED BY <2>1, <2>2, <2>3, <2>4, ExecuteNeeds DEF ExpirePending
<1>6. CASE GiveUp \/ Crash
  <2>1. \A s \in Stroke : s \in InFlight => "aborted" \in fault'[s]
    BY <1>6 DEF GiveUp, Crash, Fault
  <2>2. \A s \in Stroke : "aborted" \in fault[s] => "aborted" \in fault'[s]
    BY <1>6 DEF GiveUp, Crash, Fault
  <2>3. \A s, steps : Awaits(s, steps) => s \in InFlight
    BY DEF Awaits, InFlight
  <2>4. cache' = cache
    BY <1>6 DEF GiveUp, Crash, redisVars
  <2> QED BY <2>1, <2>2, <2>3, <2>4 DEF ExpirePending, NeedsHashExpire, NeedsPointsExpire
<1>7. CASE Database \/ Reconnect \/ EvictActiveStrokes \/ UNCHANGED vars
  <2>1. cache' = cache /\ conn' = conn
    BY <1>7 DEF Database, Insert, InsertFails, Reconnect, EvictActiveStrokes, redisVars, vars
  <2>2. \A s \in Stroke : "aborted" \in fault[s] => "aborted" \in fault'[s]
    BY <1>7 DEF Database, Insert, InsertFails, Reconnect, EvictActiveStrokes, Fault,
                faultVars, vars
  <2> QED BY <2>1, <2>2, QuietStep DEF NeedsHashExpire, NeedsPointsExpire
<1>8. CASE \E s \in Stroke : EvictHash(s) \/ EvictPoints(s)
  <2> PICK s \in Stroke : EvictHash(s) \/ EvictPoints(s)
    BY <1>8
  <2>1. conn' = conn
    BY DEF EvictHash, EvictPoints
  <2>2. \A t \in Stroke : "aborted" \in fault[t] => "aborted" \in fault'[t]
    BY DEF EvictHash, EvictPoints, Fault
  <2>3. cache \in [Stroke -> CacheEntry]
    BY DEF TypeOK
  <2>4. \A t \in Stroke : /\ NeedsHashExpire(t)' => NeedsHashExpire(t)
                          /\ NeedsPointsExpire(t)' => NeedsPointsExpire(t)
    <3>1. CASE EvictHash(s)
      BY <2>2, <2>3, <3>1 DEF EvictHash, NeedsHashExpire, NeedsPointsExpire, CacheEntry
    <3>2. CASE EvictPoints(s)
      BY <2>2, <2>3, <3>2 DEF EvictPoints, NeedsHashExpire, NeedsPointsExpire, CacheEntry
    <3> QED BY <3>1, <3>2
  <2> QED BY <2>1, <2>4, QuietStep
<1> QED
  BY <1>1, <1>2, <1>3, <1>4, <1>5, <1>6, <1>7, <1>8
     DEF Next, Answer, Faulty

\* Nothing in flight leaves nothing to wait for, so every key has its TTL.
LEMMA PendingImpliesSafetyNet == ExpirePending => SafetyNet
BY DEF ExpirePending, SafetyNet, NeedsHashExpire, NeedsPointsExpire, Awaits, Idle, InFlight

\* A stroke whose handlers all ran to their end never leaves a key in Redis
\* without a TTL, whatever is interleaved, resent or evicted.
THEOREM SafetyNetHolds == Spec => []SafetyNet
<1>1. Init => TypeOK /\ ExpirePending
  BY TypeInit, SafetyNetInit
<1>2. (TypeOK /\ ExpirePending) /\ [Next]_vars => (TypeOK /\ ExpirePending)'
  BY TypeNext, SafetyNetNext
<1>3. TypeOK /\ ExpirePending => SafetyNet
  BY PendingImpliesSafetyNet
<1> QED BY <1>1, <1>2, <1>3, PTL DEF Spec

-----------------------------------------------------------------------------
(* The order of a stroke's handlers: a completed stroke is settled, its     *)
(* events are relayed in the order drawn, and the batch that reaches        *)
(* PostgreSQL is the whole stroke.                                          *)
(*                                                                          *)
(* No handler waits for another. What keeps them in order is the one        *)
(* connection: each answer moves a handler one await on and to the end of   *)
(* the queue, so that a handler never overtakes one that arrived before.    *)

BeginSteps   == {"begin_consume", "begin_hset", "begin_sadd", "begin_expire"}
SegmentSteps == {"segment_consume", "segment_rpush", "segment_expire"}
EndSteps     == {"end_exists", "end_hset", "end_srem", "end_expire", "end_expirePoints",
                 "persist_read"}

\* How many awaits a handler has behind it.
Rank == [begin_consume |-> 0, begin_hset |-> 1, begin_sadd |-> 2, begin_expire |-> 3,
         segment_consume |-> 0, segment_rpush |-> 1, segment_expire |-> 2,
         end_exists |-> 0, end_hset |-> 1, end_srem |-> 2, end_expire |-> 3,
         end_expirePoints |-> 4, persist_read |-> 5]

\* The place of a handler's event among the events of its stroke, and the number of
\* events that the client has emitted.
Arrival(c) == IF c.step \in BeginSteps THEN 0
              ELSE IF c.step \in SegmentSteps THEN c.n
              ELSE MaxSegments + 1

Emitted(s) == IF client[s].phase = "idle" THEN 0
              ELSE IF client[s].phase = "drawing" THEN client[s].sent + 1
              ELSE MaxSegments + 2

\* In queue q the handlers of a stroke are as far as the handlers before them, or
\* behind: of two that are equally far the earlier one is answered first.
Ordered(q) ==
  \A i, j \in DOMAIN q :
    q[i].stroke = q[j].stroke /\ i # j
      => /\ Arrival(q[i]) # Arrival(q[j])
         /\ Arrival(q[i]) < Arrival(q[j])
              => /\ Rank[q[i].step] >= Rank[q[j].step]
                 /\ Rank[q[i].step] = Rank[q[j].step] => i < j

\* The commands in flight, of which no two are equal when the queue is in order.
Pending == {conn[i] : i \in DOMAIN conn}

HandlersInOrder ==
  /\ Ordered(conn)
  /\ \A c \in Pending : /\ Arrival(c) < Emitted(c.stroke)
                        /\ c.step \in SegmentSteps => c.n \in Segment

\* A handler of stroke s that is at one of these steps.
At(s, steps) == {c \in Pending : c.stroke = s /\ c.step \in steps}

\* stroke_end has found the hash and has not come to its relay.
Closing == {"end_hset", "end_srem", "end_expire", "end_expirePoints"}

\* The strengthening of CompletedIsSettled: what is not settled yet has its command to come,
\* and once stroke_end is through, nothing of the stroke is left that could undo it.
Settles(s) ==
  cache[s].meta = "completed" =>
    /\ client[s].phase = "done"
    /\ At(s, Closing) # {} \/ At(s, BeginSteps \cup SegmentSteps) = {}
    /\ fault[s] \subseteq {"resent", "unsaved"} =>
         /\ s \in activeStrokes => At(s, {"end_hset", "end_srem"}) # {}
         /\ cache[s].ttl # LateJoinTtl => At(s, {"end_hset", "end_srem", "end_expire"}) # {}
         /\ cache[s].points # <<>> /\ cache[s].pointsTtl # LateJoinTtl
              => At(s, Closing) # {}

Settling == \A s \in Stroke : Settles(s)

\* The indices of the segments and of the ends among the relayed events.
SegmentsIn(events) == {i \in DOMAIN events : events[i].kind = "segment"}
EndsIn(events)     == {i \in DOMAIN events : events[i].kind = "end"}
NumbersIn(events)  == {events[i].n : i \in SegmentsIn(events)}

\* The strengthening of RelayedInOrder: the segments relayed are older than those in flight,
\* and a segment that was let in is relayed, in flight, or cut off.
Relays(s) ==
  /\ \A i, j \in SegmentsIn(room[s]) : i < j => room[s][i].n < room[s][j].n
  /\ \A n \in NumbersIn(room[s]) :
       /\ n \in PointsOf(accepted[s]) /\ n < Emitted(s)
       /\ \A c \in At(s, SegmentSteps) : n < c.n
  /\ \A c \in At(s, {"segment_rpush", "segment_expire"}) : c.n \in PointsOf(accepted[s])
  /\ "aborted" \notin fault[s] =>
       \A n \in PointsOf(accepted[s]) :
         \/ n \in NumbersIn(room[s])
         \/ \E c \in At(s, {"segment_rpush", "segment_expire"}) : c.n = n
  /\ \A i \in EndsIn(room[s]) :
       /\ i = Len(room[s])
       /\ client[s].phase = "done"
       /\ At(s, Step) \subseteq At(s, {"persist_read"})

Relaying == \A s \in Stroke : Relays(s)

\* The strengthening of BatchIsWholeStroke, for the points in Redis ...
Collects(s) ==
  /\ Increasing(accepted[s])
  /\ \A n \in PointsOf(accepted[s]) :
       n < Emitted(s) /\ \A c \in At(s, {"segment_consume"}) : n < c.n
  /\ PointsOf(cache[s].points) \subseteq PointsOf(accepted[s])
  /\ "resent" \notin fault[s] =>
       /\ Increasing(cache[s].points)
       /\ \A n \in PointsOf(cache[s].points) :
            \A c \in At(s, {"segment_consume", "segment_rpush"}) : n < c.n
  /\ fault[s] \subseteq {"unsaved", "resent"} =>
       \A n \in PointsOf(accepted[s]) :
         \/ n \in PointsOf(cache[s].points)
         \/ \E c \in At(s, {"segment_rpush"}) : c.n = n

\* ... and for a batch that was read from there.
IsWhole(s, points) ==
  /\ fault[s] \subseteq {"unsaved"} => points = accepted[s]
  /\ fault[s] \subseteq {"unsaved", "resent"} => PointsOf(points) = PointsOf(accepted[s])

\* Nothing of the stroke is in flight and nothing will be.
Over(s) == client[s].phase = "done" /\ At(s, Step) = {}

Batches(s) ==
  /\ \A i \in DOMAIN saved[s] : IsWhole(s, saved[s][i])
  /\ \A t \in tasks : t.stroke = s => IsWhole(s, t.points) /\ saved[s] = <<>> /\ Over(s)
  /\ \A t, u \in tasks : t.stroke = s /\ u.stroke = s => t = u
  /\ saved[s] # <<>> => Over(s)
  /\ Len(saved[s]) <= 1

Saving == \A s \in Stroke : Collects(s) /\ Batches(s)

-----------------------------------------------------------------------------
(* The queue.                                                              *)

\* What the ranks and arrivals of commands are.
LEMMA RankType ==
  /\ \A step \in Step : Rank[step] \in 0..5
  /\ \A c \in Command : Arrival(c) \in 0..MaxSegments + 1 /\ Rank[c.step] \in 0..5
<1>1. \A step \in Step : Rank[step] \in 0..5
  BY DEF Step, Successor, Rank
<1>2. \A c \in Command : c.n \in 0..MaxSegments /\ c.step \in Step
  BY DEF Command, Point
<1> QED BY <1>1, <1>2, PipelineAssumption DEF Arrival

\* The next command of a handler: same event, one await further.
LEMMA SuccessorRank ==
  ASSUME NEW c \in Command, c.step \in DOMAIN Successor,
         NEW d, d = [c EXCEPT !.step = Successor[c.step]]
  PROVE  /\ d \in Command /\ d.stroke = c.stroke /\ d.n = c.n
         /\ d.step = Successor[c.step]
         /\ Arrival(d) = Arrival(c) /\ Rank[d.step] = Rank[c.step] + 1
         /\ c.step \in SegmentSteps <=> d.step \in SegmentSteps
<1>1. /\ Successor[c.step] \in Step
      /\ Rank[Successor[c.step]] = Rank[c.step] + 1
      /\ c.step \in SegmentSteps <=> Successor[c.step] \in SegmentSteps
      /\ c.step \in BeginSteps <=> Successor[c.step] \in BeginSteps
  BY DEF Step, Successor, Rank, SegmentSteps, BeginSteps
<1>2. d \in Command /\ d.stroke = c.stroke /\ d.n = c.n /\ d.step = Successor[c.step]
  BY <1>1 DEF Command
<1> QED BY <1>1, <1>2 DEF Arrival

\* The same for the persistence task that stroke_end starts.
LEMMA ReadRank ==
  ASSUME NEW c \in Command, c.step = "end_expirePoints",
         NEW d, d = [c EXCEPT !.step = "persist_read"]
  PROVE  /\ d \in Command /\ d.stroke = c.stroke /\ d.n = c.n /\ d.step = "persist_read"
         /\ Arrival(d) = Arrival(c) /\ Rank[d.step] = Rank[c.step] + 1
<1>1. d \in Command /\ d.stroke = c.stroke /\ d.n = c.n /\ d.step = "persist_read"
  BY DEF Command, Step
<1>2. Rank[d.step] = Rank[c.step] + 1
  BY <1>1 DEF Rank
<1> QED BY <1>1, <1>2 DEF Arrival, SegmentSteps, BeginSteps

\* A queue stays in order without its oldest command.
LEMMA OrderedTail ==
  ASSUME NEW q \in Seq(Command), q # <<>>, Ordered(q)
  PROVE  Ordered(Tail(q))
<1>1. /\ Tail(q) \in Seq(Command) /\ Len(Tail(q)) = Len(q) - 1 /\ Len(q) \in Nat
      /\ \A i \in 1..Len(Tail(q)) : Tail(q)[i] = q[i + 1]
      /\ DOMAIN Tail(q) = 1..Len(Tail(q)) /\ DOMAIN q = 1..Len(q)
  BY HeadTailProperties, LenProperties
<1>2. ASSUME NEW i \in DOMAIN Tail(q), NEW j \in DOMAIN Tail(q)
      PROVE  /\ i + 1 \in DOMAIN q /\ j + 1 \in DOMAIN q
             /\ Tail(q)[i] = q[i + 1] /\ Tail(q)[j] = q[j + 1]
             /\ i # j <=> i + 1 # j + 1
             /\ i < j <=> i + 1 < j + 1
  BY <1>1
<1> QED BY <1>2 DEF Ordered

\* A queue stays in order when an event arrives.
LEMMA OrderedAppend ==
  ASSUME NEW q \in Seq(Command), Ordered(q), NEW c \in Command, Rank[c.step] = 0,
         \A i \in DOMAIN q : q[i].stroke = c.stroke => Arrival(q[i]) < Arrival(c)
  PROVE  Ordered(Append(q, c))
<1> DEFINE r == Append(q, c)
<1>1. /\ r \in Seq(Command) /\ DOMAIN r = 1..Len(q) + 1 /\ DOMAIN q = 1..Len(q)
      /\ \A i \in 1..Len(q) : r[i] = q[i]
      /\ r[Len(q) + 1] = c /\ Len(q) \in Nat
  BY LenProperties
<1>2. \A i \in DOMAIN q : q[i] \in Command
  BY <1>1, ElementOfSeq
<1> HIDE DEF r
<1> SUFFICES ASSUME NEW i \in DOMAIN r, NEW j \in DOMAIN r, r[i].stroke = r[j].stroke, i # j
             PROVE  /\ Arrival(r[i]) # Arrival(r[j])
                    /\ Arrival(r[i]) < Arrival(r[j])
                         => /\ Rank[r[i].step] >= Rank[r[j].step]
                            /\ Rank[r[i].step] = Rank[r[j].step] => i < j
  BY DEF Ordered, r
<1>3. CASE i \in DOMAIN q /\ j \in DOMAIN q
  <2>1. r[i] = q[i] /\ r[j] = q[j]
    BY <1>1, <1>3
  <2> QED BY <1>3, <2>1 DEF Ordered
<1>4. CASE i \in DOMAIN q /\ j = Len(q) + 1
  <2>1. r[i] = q[i] /\ r[j] = c /\ i < j /\ q[i] \in Command
    BY <1>1, <1>2, <1>4
  <2>2. Arrival(r[i]) < Arrival(r[j])
    BY <1>4, <2>1
  <2>3. Rank[r[i].step] >= Rank[r[j].step]
    <3>1. Rank[q[i].step] \in 0..5
      BY <2>1, RankType
    <3>2. Rank[q[i].step] >= 0
      BY <3>1
    <3> QED BY <2>1, <3>2
  <2>4. Arrival(r[i]) \in Nat /\ Arrival(r[j]) \in Nat
    BY <2>1, RankType, PipelineAssumption
  <2> QED BY <2>1, <2>2, <2>3, <2>4
<1>5. CASE i = Len(q) + 1 /\ j \in DOMAIN q
  <2>1. r[j] = q[j] /\ r[i] = c /\ q[j] \in Command
    BY <1>1, <1>2, <1>5
  <2>2. Arrival(r[j]) < Arrival(r[i])
    BY <1>5, <2>1
  <2>3. Arrival(r[i]) \in Nat /\ Arrival(r[j]) \in Nat
    BY <2>1, RankType, PipelineAssumption
  <2> QED BY <2>2, <2>3
<1> QED BY <1>1, <1>3, <1>4, <1>5

\* A queue stays in order when the oldest handler goes on and joins the end.
LEMMA OrderedMove ==
  ASSUME NEW q \in Seq(Command), q # <<>>, Ordered(q), NEW d \in Command,
         d.stroke = Head(q).stroke, Arrival(d) = Arrival(Head(q)),
         Rank[d.step] = Rank[Head(q).step] + 1
  PROVE  Ordered(Append(Tail(q), d))
<1> DEFINE r == Append(Tail(q), d)
<1>1. /\ r \in Seq(Command) /\ DOMAIN r = 1..Len(q) /\ DOMAIN q = 1..Len(q)
      /\ \A i \in 1..Len(q) - 1 : r[i] = q[i + 1]
      /\ r[Len(q)] = d /\ Len(q) \in Nat /\ Len(q) > 0
  <2>1. /\ Tail(q) \in Seq(Command) /\ Len(Tail(q)) = Len(q) - 1 /\ Len(q) \in Nat \ {0}
        /\ \A i \in 1..Len(Tail(q)) : Tail(q)[i] = q[i + 1]
    BY HeadTailProperties, EmptySeq, LenProperties
  <2>2. /\ r \in Seq(Command) /\ Len(r) = Len(Tail(q)) + 1
        /\ \A i \in 1..Len(Tail(q)) : r[i] = Tail(q)[i]
        /\ r[Len(Tail(q)) + 1] = d
    BY <2>1, AppendProperties
  <2> QED BY <2>1, <2>2, LenProperties
<1>2. /\ \A i \in DOMAIN q : q[i] \in Command
      /\ Head(q) = q[1] /\ 1 \in DOMAIN q
  BY <1>1, ElementOfSeq
<1> HIDE DEF r
<1> SUFFICES ASSUME NEW i \in DOMAIN r, NEW j \in DOMAIN r, r[i].stroke = r[j].stroke, i # j
             PROVE  /\ Arrival(r[i]) # Arrival(r[j])
                    /\ Arrival(r[i]) < Arrival(r[j])
                         => /\ Rank[r[i].step] >= Rank[r[j].step]
                            /\ Rank[r[i].step] = Rank[r[j].step] => i < j
  BY DEF Ordered, r
<1>3. CASE i # Len(q) /\ j # Len(q)
  <2>1. /\ r[i] = q[i + 1] /\ r[j] = q[j + 1] /\ i + 1 \in DOMAIN q /\ j + 1 \in DOMAIN q
        /\ i + 1 # j + 1 /\ (i < j <=> i + 1 < j + 1)
    BY <1>1, <1>3
  <2> QED BY <2>1 DEF Ordered
<1>4. CASE i # Len(q) /\ j = Len(q)
  <2>1. r[i] = q[i + 1] /\ r[j] = d /\ i < j /\ i + 1 \in DOMAIN q /\ i + 1 # 1
    BY <1>1, <1>4
  <2>2. /\ Arrival(q[i + 1]) # Arrival(q[1])
        /\ Arrival(q[i + 1]) < Arrival(q[1])
             => /\ Rank[q[i + 1].step] >= Rank[q[1].step]
                /\ Rank[q[i + 1].step] = Rank[q[1].step] => i + 1 < 1
    BY <1>2, <2>1 DEF Ordered
  <2>3. ~(i + 1 < 1) /\ Rank[q[i + 1].step] \in Int /\ Rank[q[1].step] \in Int
    <3>1. i \in Nat /\ i >= 1
      BY <1>1
    <3>2. Rank[q[i + 1].step] \in 0..5 /\ Rank[q[1].step] \in 0..5
      BY <1>2, <2>1, RankType
    <3> QED BY <3>1, <3>2
  <2>4. Arrival(r[i]) < Arrival(r[j]) => Rank[r[i].step] >= Rank[r[j].step]
    BY <1>2, <2>1, <2>2, <2>3
  <2> QED BY <1>2, <2>1, <2>2, <2>4
<1>5. CASE i = Len(q) /\ j # Len(q)
  <2>1. r[j] = q[j + 1] /\ r[i] = d /\ j + 1 \in DOMAIN q /\ j + 1 # 1
    BY <1>1, <1>5
  <2>2. /\ Arrival(q[1]) # Arrival(q[j + 1])
        /\ Arrival(q[1]) < Arrival(q[j + 1]) => Rank[q[1].step] >= Rank[q[j + 1].step]
    BY <1>2, <2>1 DEF Ordered
  <2>3. Rank[q[j + 1].step] \in Int /\ Rank[q[1].step] \in Int
    BY <1>2, <2>1, RankType
  <2>4. Arrival(r[i]) < Arrival(r[j]) => Rank[r[i].step] > Rank[r[j].step]
    BY <1>2, <2>1, <2>2, <2>3
  <2>5. Rank[r[i].step] \in Int /\ Rank[r[j].step] \in Int
    BY <1>2, <2>1, RankType
  <2> QED BY <1>2, <2>1, <2>2, <2>4, <2>5
<1> QED BY <1>1, <1>3, <1>4, <1>5

-----------------------------------------------------------------------------
(* The commands in flight.                                                 *)

\* Commands are of their type, and of the handlers of one stroke none has overtaken an
\* earlier one, whatever command the connection runs.
LEMMA PendingOrder ==
  ASSUME TypeOK, HandlersInOrder, NEW c \in Pending, NEW d \in Pending,
         c.stroke = d.stroke, c # d
  PROVE  /\ Arrival(c) # Arrival(d)
         /\ Arrival(d) < Arrival(c) => Rank[d.step] >= Rank[c.step]
<1>1. PICK i \in DOMAIN conn : c = conn[i]
  BY DEF Pending
<1>2. PICK j \in DOMAIN conn : d = conn[j]
  BY DEF Pending
<1> QED BY <1>1, <1>2 DEF HandlersInOrder, Ordered

\* Commands in flight are commands.
LEMMA PendingType == TypeOK => Pending \subseteq Command
BY LenProperties, ElementOfSeq DEF TypeOK, Pending

\* When the oldest command is answered, the handlers before it are further along.
LEMMA HeadOrder ==
  ASSUME TypeOK, HandlersInOrder, Answering
  PROVE  /\ Head(conn) \in Pending /\ Head(conn) \in Command
         /\ \A d \in Pending :
              d.stroke = Head(conn).stroke /\ d # Head(conn)
                => /\ Arrival(d) # Arrival(Head(conn))
                   /\ Arrival(d) < Arrival(Head(conn)) => Rank[d.step] > Rank[Head(conn).step]
<1>1. /\ Head(conn) \in Command /\ Head(conn) = conn[1] /\ 1 \in DOMAIN conn
      /\ conn \in Seq(Command) /\ DOMAIN conn = 1..Len(conn) /\ Len(conn) \in Nat
  BY HeadType, LenProperties DEF TypeOK
<1>2. Head(conn) \in Pending
  BY <1>1 DEF Pending
<1>3. ASSUME NEW d \in Pending, d.stroke = Head(conn).stroke, d # Head(conn)
      PROVE  /\ Arrival(d) # Arrival(Head(conn))
             /\ Arrival(d) < Arrival(Head(conn)) => Rank[d.step] > Rank[Head(conn).step]
  <2>1. PICK j \in DOMAIN conn : d = conn[j]
    BY DEF Pending
  <2>2. j # 1 /\ ~(j < 1)
    BY <1>1, <1>3, <2>1
  <2>3. /\ Arrival(d) # Arrival(Head(conn))
        /\ Arrival(d) < Arrival(Head(conn))
             => /\ Rank[d.step] >= Rank[Head(conn).step]
                /\ Rank[d.step] # Rank[Head(conn).step]
    BY <1>1, <1>3, <2>1, <2>2 DEF HandlersInOrder, Ordered
  <2>4. Rank[d.step] \in Int /\ Rank[Head(conn).step] \in Int
    BY <1>1, PendingType, RankType
  <2> QED BY <2>3, <2>4
<1> QED BY <1>1, <1>2, <1>3

\* The oldest command leaves the commands in flight.
LEMMA HeadLeaves ==
  ASSUME TypeOK, HandlersInOrder, Answering
  PROVE  /\ {Tail(conn)[i] : i \in DOMAIN Tail(conn)} = Pending \ {Head(conn)}
         /\ conn' = Tail(conn) => Pending' = Pending \ {Head(conn)}
<1> DEFINE rest == {Tail(conn)[i] : i \in DOMAIN Tail(conn)}
<1>1. /\ conn \in Seq(Command) /\ conn # <<>>
      /\ Tail(conn) \in Seq(Command) /\ Len(Tail(conn)) = Len(conn) - 1 /\ Len(conn) \in Nat
      /\ \A i \in 1..Len(Tail(conn)) : Tail(conn)[i] = conn[i + 1]
      /\ DOMAIN Tail(conn) = 1..Len(Tail(conn)) /\ DOMAIN conn = 1..Len(conn)
      /\ Head(conn) = conn[1]
  BY HeadTailProperties, LenProperties, HeadType DEF TypeOK, Answering
<1>2. \A i \in DOMAIN conn : i # 1 => conn[i] # conn[1]
  BY <1>1 DEF HandlersInOrder, Ordered
<1>3. \A d : d \in rest <=> \E i \in 1..Len(conn) - 1 : d = conn[i + 1]
  BY <1>1 DEF Pending
<1>4. \A d : d \in Pending <=> \E i \in 1..Len(conn) : d = conn[i]
  BY <1>1 DEF Pending
<1>5. ASSUME NEW d, \E i \in 1..Len(conn) - 1 : d = conn[i + 1]
      PROVE  d \in Pending /\ d # conn[1]
  <2>1. PICK i \in 1..Len(conn) - 1 : d = conn[i + 1]
    BY <1>5
  <2>2. i + 1 \in 1..Len(conn) /\ i + 1 # 1
    BY <1>1
  <2> QED BY <1>1, <1>2, <1>4, <2>1, <2>2
<1>6. ASSUME NEW d \in Pending, d # conn[1]
      PROVE  \E i \in 1..Len(conn) - 1 : d = conn[i + 1]
  <2>1. PICK i \in 1..Len(conn) : d = conn[i]
    BY <1>4
  <2>2. i # 1
    BY <1>6, <2>1
  <2>3. i - 1 \in 1..Len(conn) - 1 /\ (i - 1) + 1 = i
    BY <1>1, <2>2
  <2> QED BY <2>1, <2>3
<1>7. rest = Pending \ {Head(conn)}
  <2> HIDE DEF rest
  <2> QED BY <1>1, <1>3, <1>5, <1>6
<1> QED BY <1>7 DEF Pending

\* A command that joins the queue joins the commands in flight.
LEMMA LastJoins ==
  ASSUME NEW q \in Seq(Command), NEW d \in Command
  PROVE  {Append(q, d)[i] : i \in DOMAIN Append(q, d)} = {q[i] : i \in DOMAIN q} \cup {d}
<1>1. /\ Append(q, d) \in Seq(Command) /\ Len(Append(q, d)) = Len(q) + 1
      /\ \A i \in 1..Len(q) : Append(q, d)[i] = q[i]
      /\ Append(q, d)[Len(q) + 1] = d /\ Len(q) \in Nat
  BY AppendProperties, LenProperties
<1>2. DOMAIN Append(q, d) = 1..Len(q) + 1 /\ DOMAIN q = 1..Len(q)
  BY <1>1, LenProperties
<1>3. \A i \in 1..Len(q) + 1 : i \in 1..Len(q) \/ i = Len(q) + 1
  BY <1>1
<1>4. \A i \in 1..Len(q) : i \in 1..Len(q) + 1
  BY <1>1
<1>5. Len(q) + 1 \in 1..Len(q) + 1
  BY <1>1
<1> QED BY ONLY <1>1, <1>2, <1>3, <1>4, <1>5

\* The oldest handler goes on to its next command.
LEMMA HeadMoves ==
  ASSUME TypeOK, HandlersInOrder, Answering, NEW d \in Command,
         conn' = Append(Tail(conn), d)
  PROVE  Pending' = (Pending \ {Head(conn)}) \cup {d}
<1>1. Tail(conn) \in Seq(Command)
  BY HeadType
<1>2. {Tail(conn)[i] : i \in DOMAIN Tail(conn)} = Pending \ {Head(conn)}
  BY HeadLeaves
<1>3. Pending' = {Append(Tail(conn), d)[i] : i \in DOMAIN Append(Tail(conn), d)}
  BY DEF Pending
<1> QED BY <1>1, <1>2, <1>3, LastJoins

-----------------------------------------------------------------------------
(* Handlers stay in order.                                                 *)

\* An event of stroke s that the client emits as its next one.
Arrives(s, c) ==
  /\ c \in Command /\ c.stroke = s
  /\ c.step \in {"begin_consume", "segment_consume", "end_exists"}
  /\ c.step \in SegmentSteps => c.n \in Segment
  /\ Arrival(c) >= Emitted(s) /\ Arrival(c) < Emitted(s)'
  /\ client[s].phase # "done"
  /\ c.step = "end_exists" => client'[s].phase = "done"
  /\ \A t \in Stroke : t # s => client'[t] = client[t]
  /\ conn' = conn \/ conn' = Append(conn, c)
  /\ \A t \in Stroke : fault[t] \subseteq fault'[t]
  /\ UNCHANGED <<cache, activeStrokes, tasks, saved, room, accepted>>

\* What a delivery does to the faults and to the queue.
LEMMA DeliverKeeps ==
  ASSUME TypeOK, NEW s \in Stroke, NEW c, NEW next, Deliver(s, c, next)
  PROVE  /\ conn' = conn \/ conn' = Append(conn, c)
         /\ \A t \in Stroke : fault[t] \subseteq fault'[t]
         /\ client' = [client EXCEPT ![s] = next]
         /\ UNCHANGED <<cache, activeStrokes, tasks, saved, room, accepted>>
<1>1. \A t \in Stroke : fault[t] \subseteq fault'[t]
  <2>1. CASE UNCHANGED faultVars
    BY <2>1 DEF faultVars
  <2>2. CASE fault' = [fault EXCEPT ![s] = @ \cup {"undelivered"}]
    BY <2>2 DEF TypeOK
  <2>3. CASE Fault("undelivered", {s})
    BY <2>3 DEF Fault
  <2> QED BY <2>1, <2>2, <2>3 DEF Deliver
<1> QED BY <1>1 DEF Deliver, redisVars

\* Each client step emits the next event of one stroke.
LEMMA ClientArrives ==
  ASSUME TypeOK, ClientStep
  PROVE  \E s \in Stroke : \E c : Arrives(s, c)
<1> PICK s \in Stroke : BeginStroke(s) \/ SendSegment(s) \/ EndStroke(s)
  BY DEF ClientStep
<1>1. /\ client[s].sent \in 0..MaxSegments /\ client[s].phase \in {"idle", "drawing", "done"}
      /\ client \in [Stroke -> [phase : {"idle", "drawing", "done"}, sent : Point]]
      /\ MaxSegments \in Nat
  BY PipelineAssumption DEF TypeOK, Point
<1>2. CASE BeginStroke(s)
  <2> DEFINE c == [step |-> "begin_consume", stroke |-> s, n |-> 0]
  <2>1. c \in Command /\ Arrival(c) = 0
    BY <1>1 DEF Command, Step, Successor, Point, Arrival, BeginSteps
  <2>2. client' = [client EXCEPT ![s] = [phase |-> "drawing", sent |-> 0]]
    BY <1>2 DEF BeginStroke, Deliver
  <2>3. Emitted(s) = 0 /\ Emitted(s)' = 1
    BY <1>1, <1>2, <2>2 DEF BeginStroke, Emitted
  <2>4. Arrives(s, c)
    BY <1>1, <1>2, <2>1, <2>2, <2>3, DeliverKeeps DEF BeginStroke, Arrives, SegmentSteps
  <2> QED BY <2>4
<1>3. CASE SendSegment(s)
  <2> DEFINE n == client[s].sent + 1
             c == [step |-> "segment_consume", stroke |-> s, n |-> n]
  <2>1. n \in Segment /\ n \in Point
    BY <1>1, <1>3 DEF SendSegment, Segment, Point
  <2>2. c \in Command /\ Arrival(c) = n
    BY <2>1 DEF Command, Step, Successor, Arrival, BeginSteps, SegmentSteps
  <2>3. client' = [client EXCEPT ![s] = [phase |-> "drawing", sent |-> n]]
    BY <1>3 DEF SendSegment, Deliver
  <2>4. Emitted(s) = n /\ Emitted(s)' = n + 1
    BY <1>1, <1>3, <2>3 DEF SendSegment, Emitted
  <2>5. n \in Nat
    BY <1>1
  <2>6. Arrives(s, c)
    BY <1>1, <1>3, <2>1, <2>2, <2>3, <2>4, <2>5, DeliverKeeps DEF SendSegment, Arrives
  <2> QED BY <2>6
<1>4. CASE EndStroke(s)
  <2> DEFINE c == [step |-> "end_exists", stroke |-> s, n |-> 0]
  <2>1. c \in Command /\ Arrival(c) = MaxSegments + 1
    BY <1>1 DEF Command, Step, Successor, Point, Arrival, BeginSteps, SegmentSteps
  <2>2. client' = [client EXCEPT ![s] = [client[s] EXCEPT !.phase = "done"]]
    BY <1>4 DEF EndStroke, Deliver
  <2>3. Emitted(s) = client[s].sent + 1 /\ Emitted(s)' = MaxSegments + 2
    BY <1>1, <1>4, <2>2 DEF EndStroke, Emitted
  <2>4. client'[s].phase = "done"
    BY <1>1, <2>2
  <2>5. /\ conn' = conn \/ conn' = Append(conn, c)
        /\ \A t \in Stroke : fault[t] \subseteq fault'[t]
        /\ UNCHANGED <<cache, activeStrokes, tasks, saved, room, accepted>>
    BY <1>4, DeliverKeeps DEF EndStroke
  <2>6. c.step \notin SegmentSteps /\ c.stroke = s /\ c.step = "end_exists"
    BY DEF SegmentSteps
  <2>7. Arrival(c) >= Emitted(s) /\ Arrival(c) < Emitted(s)'
    BY <1>1, <2>1, <2>3
  <2>8. client[s].phase # "done" /\ \A t \in Stroke : t # s => client'[t] = client[t]
    BY <1>4, <2>2 DEF EndStroke
  <2>9. Arrives(s, c)
    <3> HIDE DEF c
    <3> QED BY <2>1, <2>4, <2>5, <2>6, <2>7, <2>8 DEF Arrives
  <2> QED BY <2>9
<1> QED BY <1>2, <1>3, <1>4

\* How many events a stroke has had.
LEMMA EmittedType ==
  /\ TypeOK => \A s \in Stroke : Emitted(s) \in 0..MaxSegments + 2 /\ Emitted(s) \in Nat
  /\ client' = client => \A s \in Stroke : Emitted(s)' = Emitted(s)
<1>1. TypeOK => \A s \in Stroke : client[s].sent \in 0..MaxSegments /\ MaxSegments \in Nat
  BY PipelineAssumption DEF TypeOK, Point
<1> QED BY <1>1, PipelineAssumption DEF Emitted

\* An arriving event is behind everything of its stroke, and its stroke had one more event.
LEMMA ArrivalJoins ==
  ASSUME TypeOK, TypeOK', HandlersInOrder, NEW s \in Stroke, NEW c, Arrives(s, c)
  PROVE  /\ Pending' = Pending \/ Pending' = Pending \cup {c}
         /\ \A d \in Pending : d.stroke = s => Arrival(d) < Arrival(c)
         /\ \A t \in Stroke : /\ Emitted(t) <= Emitted(t)'
                              /\ client[t].phase = "done" => client'[t].phase = "done"
<1>1. Pending' = Pending \/ Pending' = Pending \cup {c}
  <2>1. CASE conn' = conn
    BY <2>1 DEF Pending
  <2>2. CASE conn' = Append(conn, c)
    <3>1. conn \in Seq(Command) /\ c \in Command
      BY DEF TypeOK, Arrives
    <3>2. {Append(conn, c)[i] : i \in DOMAIN Append(conn, c)} = Pending \cup {c}
      BY <3>1, LastJoins DEF Pending
    <3>3. Pending' = {conn'[i] : i \in DOMAIN conn'}
      BY DEF Pending
    <3> QED BY <2>2, <3>2, <3>3
  <2> QED BY <2>1, <2>2 DEF Arrives
<1>2. ASSUME NEW d \in Pending, d.stroke = s
      PROVE  Arrival(d) < Arrival(c)
  <2>1. Arrival(d) < Emitted(s) /\ Arrival(c) >= Emitted(s)
    BY <1>2 DEF HandlersInOrder, Arrives
  <2>2. Arrival(d) \in Nat /\ Arrival(c) \in Nat /\ Emitted(s) \in Nat
    BY RankType, PendingType, EmittedType, PipelineAssumption DEF Arrives
  <2> QED BY <2>1, <2>2
<1>3. ASSUME NEW t \in Stroke
      PROVE  /\ Emitted(t) <= Emitted(t)'
             /\ client[t].phase = "done" => client'[t].phase = "done"
  <2>1. CASE t = s
    <3>1. Arrival(c) >= Emitted(s) /\ Arrival(c) < Emitted(s)'
      BY DEF Arrives
    <3>2. Arrival(c) \in Nat /\ Emitted(s) \in Nat
      BY RankType, EmittedType, PipelineAssumption DEF Arrives
    <3>3. Emitted(s)' \in Int
      <4>1. client'[s].sent \in 0..MaxSegments /\ MaxSegments \in Nat
        BY PipelineAssumption DEF TypeOK, Point
      <4> QED BY <4>1 DEF Emitted
    <3> QED BY <2>1, <3>1, <3>2, <3>3 DEF Arrives
  <2>2. CASE t # s
    <3>1. client'[t] = client[t] /\ Emitted(t) \in Nat
      BY <2>2, EmittedType, PipelineAssumption DEF Arrives
    <3> QED BY <3>1 DEF Emitted
  <2> QED BY <2>1, <2>2
<1> QED BY <1>1, <1>2, <1>3

\* The oldest handler goes on: its command is replaced by the next one.
LEMMA ContinueMoves ==
  ASSUME TypeOK, HandlersInOrder, Continue
  PROVE  \E d \in Command :
           /\ conn' = Append(Tail(conn), d)
           /\ Pending' = (Pending \ {Head(conn)}) \cup {d}
           /\ d.stroke = Head(conn).stroke /\ d.n = Head(conn).n
           /\ d.step = Successor[Head(conn).step]
           /\ Arrival(d) = Arrival(Head(conn)) /\ Rank[d.step] = Rank[Head(conn).step] + 1
           /\ Head(conn).step \in SegmentSteps <=> d.step \in SegmentSteps
<1> DEFINE d == [Head(conn) EXCEPT !.step = Successor[Head(conn).step]]
<1>1. Head(conn) \in Command /\ Head(conn).step \in DOMAIN Successor /\ Answering
  BY HeadType DEF Continue, Continues
<1>2. /\ d \in Command /\ d.stroke = Head(conn).stroke /\ d.n = Head(conn).n
      /\ d.step = Successor[Head(conn).step]
      /\ Arrival(d) = Arrival(Head(conn)) /\ Rank[d.step] = Rank[Head(conn).step] + 1
      /\ Head(conn).step \in SegmentSteps <=> d.step \in SegmentSteps
  <2> DEFINE c == Head(conn)
  <2>1. c \in Command /\ c.step \in DOMAIN Successor /\ d = [c EXCEPT !.step = Successor[c.step]]
    BY <1>1
  <2> HIDE DEF c, d
  <2> QED BY <2>1, SuccessorRank DEF c
<1>3. conn' = Append(Tail(conn), d)
  BY DEF Continue
<1> HIDE DEF d
<1>4. Pending' = (Pending \ {Head(conn)}) \cup {d}
  BY <1>1, <1>2, <1>3, HeadMoves
<1> QED BY <1>2, <1>3, <1>4

\* stroke_end relays and becomes the persistence task, any other handler is through.
LEMMA RelayMoves ==
  ASSUME TypeOK, HandlersInOrder, Relay
  PROVE  \/ /\ Head(conn).step \in {"begin_expire", "segment_expire"}
            /\ conn' = Tail(conn) /\ Pending' = Pending \ {Head(conn)}
         \/ /\ Head(conn).step = "end_expirePoints"
            /\ \E d \in Command :
                 /\ conn' = Append(Tail(conn), d)
                 /\ Pending' = (Pending \ {Head(conn)}) \cup {d}
                 /\ d.stroke = Head(conn).stroke /\ d.n = Head(conn).n
                 /\ d.step = "persist_read"
                 /\ Arrival(d) = Arrival(Head(conn)) /\ Rank[d.step] = Rank[Head(conn).step] + 1
<1>1. /\ Head(conn) \in Command /\ Answering
      /\ Head(conn).step \in {"begin_expire", "segment_expire", "end_expirePoints"}
  BY HeadType DEF Relay, KindOf
<1>2. CASE Head(conn).step \in {"begin_expire", "segment_expire"}
  <2>1. conn' = Tail(conn)
    BY <1>2 DEF Relay
  <2> QED BY <1>1, <1>2, <2>1, HeadLeaves
<1>3. CASE Head(conn).step = "end_expirePoints"
  <2> DEFINE c == Head(conn)
             d == [c EXCEPT !.step = "persist_read"]
  <2>1. conn' = Append(Tail(conn), d)
    BY <1>3 DEF Relay
  <2>2. c \in Command /\ c.step = "end_expirePoints" /\ d = [c EXCEPT !.step = "persist_read"]
    BY <1>1, <1>3
  <2> HIDE DEF c, d
  <2>3. /\ d \in Command /\ d.stroke = c.stroke /\ d.n = c.n /\ d.step = "persist_read"
        /\ Arrival(d) = Arrival(c) /\ Rank[d.step] = Rank[c.step] + 1
    BY <2>2, ReadRank
  <2>4. Pending' = (Pending \ {c}) \cup {d}
    BY <1>1, <2>1, <2>3, HeadMoves DEF c
  <2> QED BY <1>3, <2>1, <2>3, <2>4 DEF c
<1> QED BY <1>1, <1>2, <1>3

\* The steps that answer nothing and run nothing new, as far as the queue goes.
Quiet == conn' = conn /\ client' = client

\* A step is one of these.
LEMMA StepCases ==
  ASSUME [Next]_vars
  PROVE  \/ ClientStep
         \/ Continue \/ Refuse \/ Relay \/ ReadBack
         \/ LoseReply
         \/ (\E t \in tasks : Insert(t) \/ InsertFails(t))
         \/ GiveUp \/ Crash
         \/ (\E s \in Stroke : EvictHash(s) \/ EvictPoints(s))
         \/ EvictActiveStrokes
         \/ Reconnect \/ UNCHANGED vars
BY DEF Next, Answer, Database, Faulty

\* The handlers of a stroke stay in order.
LEMMA OrderNext == TypeOK /\ TypeOK' /\ HandlersInOrder /\ [Next]_vars => HandlersInOrder'
<1> SUFFICES ASSUME TypeOK, TypeOK', HandlersInOrder, [Next]_vars
             PROVE  HandlersInOrder'
  OBVIOUS
<1>1. CASE ClientStep
  <2>1. PICK s \in Stroke : \E c : Arrives(s, c)
    BY <1>1, ClientArrives
  <2>2. PICK c : Arrives(s, c)
    BY <2>1
  <2>3. /\ Pending' = Pending \/ Pending' = Pending \cup {c}
        /\ \A d \in Pending : d.stroke = s => Arrival(d) < Arrival(c)
        /\ \A t \in Stroke : Emitted(t) <= Emitted(t)'
    BY <2>2, ArrivalJoins
  <2>4. Ordered(conn')
    <3>1. CASE conn' = conn
      BY <3>1 DEF HandlersInOrder
    <3>2. CASE conn' = Append(conn, c)
      <4>1. \A i \in DOMAIN conn : conn[i].stroke = c.stroke => Arrival(conn[i]) < Arrival(c)
        BY <2>2, <2>3 DEF Arrives, Pending
      <4>2. conn \in Seq(Command) /\ Ordered(conn) /\ c \in Command /\ Rank[c.step] = 0
        BY <2>2 DEF TypeOK, HandlersInOrder, Arrives, Rank
      <4> QED BY <3>2, <4>1, <4>2, OrderedAppend
    <3> QED BY <2>2, <3>1, <3>2 DEF Arrives
  <2>5. ASSUME NEW d \in Pending
        PROVE  /\ Arrival(d) < Emitted(d.stroke)'
               /\ d.step \in SegmentSteps => d.n \in Segment
    <3>1. d \in Command /\ d.stroke \in Stroke
      BY PendingType DEF Command
    <3>2. Emitted(d.stroke) <= Emitted(d.stroke)' /\ Arrival(d) < Emitted(d.stroke)
      BY <2>3, <3>1 DEF HandlersInOrder
    <3>3. Arrival(d) \in Int /\ Emitted(d.stroke) \in Int /\ Emitted(d.stroke)' \in Int
      <4>1. client'[d.stroke].sent \in 0..MaxSegments /\ MaxSegments \in Nat
        BY <3>1, PipelineAssumption DEF TypeOK, Point
      <4> QED BY <3>1, <4>1, RankType, EmittedType DEF Emitted
    <3> QED BY <3>2, <3>3 DEF HandlersInOrder
  <2>6. Arrival(c) < Emitted(c.stroke)' /\ (c.step \in SegmentSteps => c.n \in Segment)
    BY <2>2 DEF Arrives
  <2>7. \A d \in Pending' : d \in Pending \/ d = c
    BY <2>3
  <2> QED BY <2>4, <2>5, <2>6, <2>7 DEF HandlersInOrder
<1>2. CASE Continue
  <2>1. PICK d \in Command :
           /\ conn' = Append(Tail(conn), d)
           /\ Pending' = (Pending \ {Head(conn)}) \cup {d}
           /\ d.stroke = Head(conn).stroke /\ d.n = Head(conn).n
           /\ Arrival(d) = Arrival(Head(conn)) /\ Rank[d.step] = Rank[Head(conn).step] + 1
           /\ Head(conn).step \in SegmentSteps <=> d.step \in SegmentSteps
    BY <1>2, ContinueMoves
  <2>2. conn \in Seq(Command) /\ conn # <<>> /\ Ordered(conn) /\ Head(conn) \in Pending
    BY <1>2, HeadOrder DEF Continue, Answering, TypeOK, HandlersInOrder
  <2>3. Ordered(conn')
    BY <2>1, <2>2, OrderedMove
  <2>4. client' = client
    BY <1>2 DEF Continue
  <2> QED BY <2>1, <2>2, <2>3, <2>4 DEF HandlersInOrder, Emitted
<1>3. CASE Refuse \/ ReadBack
  <2>1. Answering /\ conn' = Tail(conn) /\ client' = client
    BY <1>3 DEF Refuse, ReadBack
  <2>2. Pending' = Pending \ {Head(conn)}
    BY <2>1, HeadLeaves
  <2>3. Ordered(conn')
    BY <2>1, OrderedTail DEF Answering, TypeOK, HandlersInOrder
  <2> QED BY <2>1, <2>2, <2>3 DEF HandlersInOrder, Emitted
<1>4. CASE Relay
  <2>1. /\ conn \in Seq(Command) /\ conn # <<>> /\ Ordered(conn) /\ Head(conn) \in Pending
        /\ client' = client
    BY <1>4, HeadOrder DEF Relay, Answering, TypeOK, HandlersInOrder
  <2>2. CASE conn' = Tail(conn) /\ Pending' = Pending \ {Head(conn)}
    <3>1. Ordered(conn')
      BY <2>1, <2>2, OrderedTail
    <3> QED BY <2>1, <2>2, <3>1 DEF HandlersInOrder, Emitted
  <2>3. CASE /\ Head(conn).step = "end_expirePoints"
             /\ \E d \in Command :
                 /\ conn' = Append(Tail(conn), d)
                 /\ Pending' = (Pending \ {Head(conn)}) \cup {d}
                 /\ d.stroke = Head(conn).stroke /\ d.n = Head(conn).n
                 /\ d.step = "persist_read"
                 /\ Arrival(d) = Arrival(Head(conn)) /\ Rank[d.step] = Rank[Head(conn).step] + 1
    <3>1. PICK d \in Command :
                 /\ conn' = Append(Tail(conn), d)
                 /\ Pending' = (Pending \ {Head(conn)}) \cup {d}
                 /\ d.stroke = Head(conn).stroke /\ d.n = Head(conn).n
                 /\ d.step = "persist_read"
                 /\ Arrival(d) = Arrival(Head(conn)) /\ Rank[d.step] = Rank[Head(conn).step] + 1
      BY <2>3
    <3>2. Ordered(conn')
      BY <2>1, <3>1, OrderedMove
    <3>3. d.step \notin SegmentSteps
      BY <3>1 DEF SegmentSteps
    <3> QED BY <2>1, <3>1, <3>2, <3>3 DEF HandlersInOrder, Emitted
  <2> QED BY <1>4, <2>2, <2>3, RelayMoves
<1>5. CASE GiveUp \/ Crash
  <2>1. conn' = <<>>
    BY <1>5 DEF GiveUp, Crash
  <2> QED BY <2>1 DEF HandlersInOrder, Ordered, Pending
<1>6. CASE Quiet
  BY <1>6 DEF Quiet, HandlersInOrder, Ordered, Pending, Emitted
<1>7. LoseReply \/ (\E t \in tasks : Insert(t) \/ InsertFails(t))
        \/ (\E s \in Stroke : EvictHash(s) \/ EvictPoints(s))
        \/ EvictActiveStrokes \/ Reconnect \/ UNCHANGED vars => Quiet
  BY DEF LoseReply, Insert, InsertFails, EvictHash, EvictPoints, EvictActiveStrokes, Reconnect,
         vars, Quiet
<1> QED BY <1>1, <1>2, <1>3, <1>4, <1>5, <1>6, <1>7, StepCases

\* No handler is in flight at the start.
LEMMA OrderInit == Init => HandlersInOrder
BY DEF Init, HandlersInOrder, Ordered, Pending

-----------------------------------------------------------------------------
(* A completed stroke settles.                                             *)

\* What a command does to the keys of stroke s.
LEMMA ExecuteOn ==
  ASSUME TypeOK, NEW c \in Command, Execute(c), NEW s \in Stroke
  PROVE  /\ c.stroke # s => /\ cache'[s] = cache[s]
                            /\ s \in activeStrokes' <=> s \in activeStrokes
         /\ c.stroke = s =>
              /\ cache'[s] = Written(cache[s], c)
              /\ s \in activeStrokes' <=> \/ c.step = "begin_sadd"
                                          \/ s \in activeStrokes /\ c.step # "end_srem"
<1>1. c.stroke \in Stroke /\ cache \in [Stroke -> CacheEntry]
  BY DEF TypeOK, Command
<1> QED BY <1>1 DEF Execute

\* What a command of the stroke leaves unsettled was so before, or the command made it so.
LEMMA WrittenSettles ==
  ASSUME NEW e \in CacheEntry, NEW c \in Command, Written(e, c).meta = "completed"
  PROVE  /\ c.step # "end_hset" => e.meta = "completed"
         /\ c.step # "begin_hset"
         /\ Written(e, c).ttl # LateJoinTtl
              => c.step # "end_expire" /\ (e.ttl # LateJoinTtl \/ c.step = "begin_expire")
         /\ Written(e, c).points # <<>> /\ Written(e, c).pointsTtl # LateJoinTtl
              => /\ c.step # "end_expirePoints"
                 /\ \/ e.points # <<>> /\ e.pointsTtl # LateJoinTtl
                    \/ c.step \in {"segment_rpush", "segment_expire"}
<1>1. /\ c.step # "end_hset" => e.meta = "completed"
      /\ c.step # "begin_hset"
      /\ c.step = "end_hset" => e.meta \in {"active", "completed"}
  BY DEF Written, MetaAfter
<1>2. e.meta # "none"
  BY <1>1
<1>3. Written(e, c).ttl = TtlAfter(TRUE, e.ttl, c.step, "begin_expire", "end_expire")
  BY <1>2 DEF Written
<1>4. ASSUME Written(e, c).ttl # LateJoinTtl
      PROVE  c.step # "end_expire" /\ (e.ttl # LateJoinTtl \/ c.step = "begin_expire")
  BY <1>3, <1>4 DEF TtlAfter
<1>5. ASSUME Written(e, c).points # <<>>, Written(e, c).pointsTtl # LateJoinTtl,
             c.step \notin {"segment_rpush", "segment_expire"}
      PROVE  c.step # "end_expirePoints" /\ e.points # <<>> /\ e.pointsTtl # LateJoinTtl
  <2>1. e.points # <<>>
    BY <1>5 DEF Written
  <2>2. Written(e, c).pointsTtl
          = TtlAfter(TRUE, e.pointsTtl, c.step, "segment_expire", "end_expirePoints")
    BY <2>1 DEF Written
  <2> QED BY <1>5, <2>1, <2>2 DEF TtlAfter
<1> QED BY <1>1, <1>4, <1>5

\* A handler that is in flight is an earlier one than stroke_end, and closing commands are
\* behind it.
LEMMA ClosingIsBehind ==
  ASSUME TypeOK, HandlersInOrder, NEW c \in Pending, NEW d \in Pending,
         c.stroke = d.stroke, c.step \in BeginSteps \cup SegmentSteps, d.step \in EndSteps
  PROVE  Arrival(c) < Arrival(d) /\ Rank[c.step] >= Rank[d.step]
<1>1. c \in Command /\ d \in Command
  BY PendingType
<1>2. d.step \notin BeginSteps /\ d.step \notin SegmentSteps /\ c # d
  BY DEF BeginSteps, SegmentSteps, EndSteps
<1>3. Arrival(d) = MaxSegments + 1
  BY <1>2 DEF Arrival
<1>4. Arrival(c) \in 0..MaxSegments
  <2>1. c.step \in SegmentSteps => c.n \in 1..MaxSegments
    BY DEF HandlersInOrder, Segment
  <2>2. 0 \in 0..MaxSegments
    BY PipelineAssumption
  <2> QED BY <2>1, <2>2, PipelineAssumption DEF Arrival
<1>5. Arrival(c) < Arrival(d)
  BY <1>3, <1>4, PipelineAssumption
<1> QED BY <1>2, <1>5, PendingOrder

\* The closing commands by how far they are.
LEMMA ClosingRank ==
  /\ \A step \in EndSteps :
       /\ step \in {"end_hset", "end_srem"} <=> Rank[step] >= 1 /\ Rank[step] <= 2
       /\ step \in {"end_hset", "end_srem", "end_expire"} <=> Rank[step] >= 1 /\ Rank[step] <= 3
       /\ step \in Closing <=> Rank[step] >= 1 /\ Rank[step] <= 4
       /\ step \notin BeginSteps \cup SegmentSteps
  /\ \A step \in BeginSteps \cup SegmentSteps :
       Rank[step] <= 3 /\ step \notin Closing /\ step \notin EndSteps
  /\ Step = BeginSteps \cup SegmentSteps \cup EndSteps
BY DEF EndSteps, Rank, Closing, BeginSteps, SegmentSteps, Step, Successor

\* stroke_end is the last event of its stroke.
LEMMA EndMeansDone ==
  ASSUME TypeOK, HandlersInOrder, NEW c \in Pending, c.step \in EndSteps
  PROVE  client[c.stroke].phase = "done"
<1>1. c \in Command /\ c.stroke \in Stroke
  BY PendingType DEF Command
<1>2. c.step \notin BeginSteps /\ c.step \notin SegmentSteps
  BY ClosingRank
<1>3. Arrival(c) = MaxSegments + 1 /\ Arrival(c) < Emitted(c.stroke)
  BY <1>2 DEF Arrival, HandlersInOrder
<1>4. /\ client[c.stroke].sent \in 0..MaxSegments /\ MaxSegments \in Nat
      /\ client[c.stroke].phase \in {"idle", "drawing", "done"}
  BY <1>1, PipelineAssumption DEF TypeOK, Point
<1> QED BY <1>3, <1>4 DEF Emitted

\* What is unsettled after the connection ran c: the command to come is not c itself.
Unsettled(s, c) ==
  /\ client[s].phase = "done"
  /\ At(s, Closing) # {} \/ At(s, BeginSteps \cup SegmentSteps) = {}
  /\ fault'[s] \subseteq {"resent", "unsaved"} =>
       /\ s \in activeStrokes' =>
            /\ At(s, {"end_hset", "end_srem"}) # {}
            /\ ~(c.stroke = s /\ c.step = "end_srem")
       /\ cache'[s].ttl # LateJoinTtl =>
            /\ At(s, {"end_hset", "end_srem", "end_expire"}) # {}
            /\ ~(c.stroke = s /\ c.step = "end_expire")
       /\ cache'[s].points # <<>> /\ cache'[s].pointsTtl # LateJoinTtl =>
            /\ At(s, Closing) # {}
            /\ ~(c.stroke = s /\ c.step = "end_expirePoints")

\* Whatever command the connection runs, what it leaves unsettled has its command to come:
\* the commands of stroke_begin and stroke_segment run while their counterpart waits.
LEMMA ExecuteSettles ==
  ASSUME TypeOK, HandlersInOrder, NEW s \in Stroke, Settles(s), NEW c \in Pending, Execute(c),
         fault[s] \subseteq fault'[s], cache'[s].meta = "completed"
  PROVE  Unsettled(s, c)
<1>1. c \in Command /\ c.step \in Step /\ cache[s] \in CacheEntry
  BY PendingType DEF Command, TypeOK
<1>2. CASE c.stroke # s
  BY <1>1, <1>2, ExecuteOn DEF Settles, Unsettled
<1>3. CASE c.stroke = s /\ c.step = "end_hset"
  <2>1. /\ c \in At(s, {"end_hset", "end_srem"}) /\ c \in At(s, Closing)
        /\ c \in At(s, {"end_hset", "end_srem", "end_expire"})
    BY <1>3 DEF At, Closing
  <2>2. client[s].phase = "done"
    BY <1>3, EndMeansDone DEF EndSteps
  <2> QED BY <1>3, <2>1, <2>2 DEF Unsettled
<1>4. CASE c.stroke = s /\ c.step # "end_hset"
  <2>1. cache'[s] = Written(cache[s], c)
    BY <1>1, <1>4, ExecuteOn
  <2>2. /\ cache[s].meta = "completed"
        /\ cache'[s].ttl # LateJoinTtl
             => c.step # "end_expire" /\ (cache[s].ttl # LateJoinTtl \/ c.step = "begin_expire")
        /\ cache'[s].points # <<>> /\ cache'[s].pointsTtl # LateJoinTtl
              => /\ c.step # "end_expirePoints"
                 /\ \/ cache[s].points # <<>> /\ cache[s].pointsTtl # LateJoinTtl
                    \/ c.step \in {"segment_rpush", "segment_expire"}
    BY <1>1, <1>4, <2>1, WrittenSettles
  <2>3. s \in activeStrokes' <=> c.step = "begin_sadd" \/ (s \in activeStrokes /\ c.step # "end_srem")
    BY <1>1, <1>4, ExecuteOn
  <2>4. /\ client[s].phase = "done"
        /\ At(s, Closing) # {} \/ At(s, BeginSteps \cup SegmentSteps) = {}
        /\ fault'[s] \subseteq {"resent", "unsaved"} =>
             /\ s \in activeStrokes => At(s, {"end_hset", "end_srem"}) # {}
             /\ cache[s].ttl # LateJoinTtl => At(s, {"end_hset", "end_srem", "end_expire"}) # {}
             /\ cache[s].points # <<>> /\ cache[s].pointsTtl # LateJoinTtl
                  => At(s, Closing) # {}
    BY <2>2 DEF Settles
  <2>5. ASSUME c.step \in BeginSteps \cup SegmentSteps
        PROVE  \E d \in At(s, Closing) : Rank[d.step] <= Rank[c.step]
    <3>1. c \in At(s, BeginSteps \cup SegmentSteps)
      BY <1>4, <2>5 DEF At
    <3>2. PICK d \in At(s, Closing) : TRUE
      BY <2>4, <3>1
    <3>3. d \in Pending /\ d.stroke = s /\ d.step \in EndSteps
      BY <3>2 DEF At, Closing, EndSteps
    <3>4. Rank[d.step] \in Int /\ Rank[c.step] \in Int
      BY <3>3, PendingType, RankType
    <3> QED BY <1>4, <2>5, <3>3, <3>4, ClosingIsBehind
  <2>6. c.step = "begin_sadd" => At(s, {"end_hset", "end_srem"}) # {}
    <3>1. SUFFICES ASSUME c.step = "begin_sadd" PROVE At(s, {"end_hset", "end_srem"}) # {}
      OBVIOUS
    <3>2. Rank[c.step] = 2 /\ c.step \in BeginSteps
      BY <3>1 DEF Rank, BeginSteps
    <3>3. PICK d \in At(s, Closing) : Rank[d.step] <= 2
      BY <2>5, <3>2
    <3>4. d.step \in {"end_hset", "end_srem"}
      BY <3>3 DEF At, Closing, Rank
    <3> QED BY <3>3, <3>4 DEF At
  <2>7. c.step = "begin_expire" => At(s, {"end_hset", "end_srem", "end_expire"}) # {}
    <3>1. SUFFICES ASSUME c.step = "begin_expire"
                   PROVE  At(s, {"end_hset", "end_srem", "end_expire"}) # {}
      OBVIOUS
    <3>2. Rank[c.step] = 3 /\ c.step \in BeginSteps
      BY <3>1 DEF Rank, BeginSteps
    <3>3. PICK d \in At(s, Closing) : Rank[d.step] <= 3
      BY <2>5, <3>2
    <3>4. d.step \in {"end_hset", "end_srem", "end_expire"}
      BY <3>3 DEF At, Closing, Rank
    <3> QED BY <3>3, <3>4 DEF At
  <2>8. c.step \in {"segment_rpush", "segment_expire"} => At(s, Closing) # {}
    BY <2>5 DEF SegmentSteps
  <2> QED BY <2>2, <2>3, <2>4, <2>6, <2>7, <2>8 DEF Unsettled
<1> QED BY <1>2, <1>3, <1>4

\* stroke_end's command to come is still there, or its successor, when a handler goes on.
LEMMA ContinueSettles ==
  ASSUME TypeOK, HandlersInOrder, NEW s \in Stroke, Settles(s), Continue
  PROVE  Settles(s)'
<1> DEFINE c == Head(conn)
<1>1. PICK d \in Command :
        /\ Pending' = (Pending \ {c}) \cup {d}
        /\ d.stroke = c.stroke /\ d.step = Successor[c.step]
  BY ContinueMoves
<1>2. /\ c \in Pending /\ Execute(c) /\ client' = client /\ fault' = fault
      /\ c.step \in DOMAIN Successor
  BY HeadOrder DEF Continue, Continues, faultVars
<1> HIDE DEF c
<1> SUFFICES ASSUME cache'[s].meta = "completed"
             PROVE  /\ client[s].phase = "done"
                    /\ At(s, Closing)' # {} \/ At(s, BeginSteps \cup SegmentSteps)' = {}
                    /\ fault'[s] \subseteq {"resent", "unsaved"} =>
                         /\ s \in activeStrokes' => At(s, {"end_hset", "end_srem"})' # {}
                         /\ cache'[s].ttl # LateJoinTtl
                              => At(s, {"end_hset", "end_srem", "end_expire"})' # {}
                         /\ cache'[s].points # <<>> /\ cache'[s].pointsTtl # LateJoinTtl
                              => At(s, Closing)' # {}
  BY <1>2 DEF Settles
<1>3. Unsettled(s, c)
  BY <1>2, ExecuteSettles
<1>4. ASSUME NEW steps, At(s, steps) # {},
             c.stroke = s /\ c.step \in steps => Successor[c.step] \in steps
      PROVE  At(s, steps)' # {}
  <2>1. PICK e : e \in At(s, steps)
    BY <1>4
  <2>2. CASE e = c
    BY <1>1, <1>4, <2>1, <2>2 DEF At
  <2>3. CASE e # c
    BY <1>1, <2>1, <2>3 DEF At
  <2> QED BY <2>2, <2>3
<1>5. At(s, Closing) # {} => At(s, Closing)' # {}
  <2>1. c.step \in Closing => Successor[c.step] \in Closing
    BY <1>2 DEF Closing, Successor
  <2> QED BY <1>4, <2>1
<1>6. At(s, BeginSteps \cup SegmentSteps) = {} => At(s, BeginSteps \cup SegmentSteps)' = {}
  <2>1. Successor[c.step] \in BeginSteps \cup SegmentSteps => c.step \in BeginSteps \cup SegmentSteps
    BY <1>2 DEF Successor, BeginSteps, SegmentSteps
  <2> QED BY <1>1, <1>2, <2>1 DEF At
<1>7. /\ At(s, {"end_hset", "end_srem"}) # {} /\ ~(c.stroke = s /\ c.step = "end_srem")
           => At(s, {"end_hset", "end_srem"})' # {}
      /\ At(s, {"end_hset", "end_srem", "end_expire"}) # {}
         /\ ~(c.stroke = s /\ c.step = "end_expire")
           => At(s, {"end_hset", "end_srem", "end_expire"})' # {}
  <2>1. /\ Successor["end_hset"] = "end_srem" /\ Successor["end_srem"] = "end_expire"
    BY DEF Successor
  <2> QED BY <1>4, <2>1
<1> QED BY <1>3, <1>5, <1>6, <1>7 DEF Unsettled

\* stroke_end itself relays last, when no other handler of its stroke is left.
LEMMA RelaySettles ==
  ASSUME TypeOK, HandlersInOrder, NEW s \in Stroke, Settles(s), Relay
  PROVE  Settles(s)'
<1> DEFINE c == Head(conn)
<1>1. /\ c \in Pending /\ Execute(c) /\ client' = client /\ fault' = fault
      /\ c.step \in {"begin_expire", "segment_expire", "end_expirePoints"}
  BY HeadOrder DEF Relay, KindOf, faultVars
<1>2. /\ Pending \ {c} \subseteq Pending'
      /\ \A e \in Pending' : e \in Pending \/ e.step = "persist_read"
  BY RelayMoves
<1> HIDE DEF c
<1> SUFFICES ASSUME cache'[s].meta = "completed"
             PROVE  /\ client[s].phase = "done"
                    /\ At(s, Closing)' # {} \/ At(s, BeginSteps \cup SegmentSteps)' = {}
                    /\ fault'[s] \subseteq {"resent", "unsaved"} =>
                         /\ s \in activeStrokes' => At(s, {"end_hset", "end_srem"})' # {}
                         /\ cache'[s].ttl # LateJoinTtl
                              => At(s, {"end_hset", "end_srem", "end_expire"})' # {}
                         /\ cache'[s].points # <<>> /\ cache'[s].pointsTtl # LateJoinTtl
                              => At(s, Closing)' # {}
  BY <1>1 DEF Settles
<1>3. Unsettled(s, c)
  BY <1>1, ExecuteSettles
<1>4. ASSUME NEW steps, At(s, steps) # {}, ~(c.stroke = s /\ c.step \in steps)
      PROVE  At(s, steps)' # {}
  BY <1>2, <1>4 DEF At
<1>5. /\ At(s, {"end_hset", "end_srem"}) # {} => At(s, {"end_hset", "end_srem"})' # {}
      /\ At(s, {"end_hset", "end_srem", "end_expire"}) # {}
           => At(s, {"end_hset", "end_srem", "end_expire"})' # {}
  BY <1>1, <1>4
<1>6. At(s, Closing) # {} /\ ~(c.stroke = s /\ c.step = "end_expirePoints") => At(s, Closing)' # {}
  BY <1>1, <1>4 DEF Closing
<1>7. At(s, BeginSteps \cup SegmentSteps) = {} => At(s, BeginSteps \cup SegmentSteps)' = {}
  <2>1. "persist_read" \notin BeginSteps \cup SegmentSteps
    BY DEF BeginSteps, SegmentSteps
  <2> QED BY <1>2, <2>1 DEF At
<1>8. c.stroke = s /\ c.step = "end_expirePoints" => At(s, BeginSteps \cup SegmentSteps) = {}
  <2>1. ASSUME c.stroke = s, c.step = "end_expirePoints",
               NEW e \in At(s, BeginSteps \cup SegmentSteps)
        PROVE  FALSE
    <3>1. e \in Pending /\ e.stroke = s /\ e.step \in BeginSteps \cup SegmentSteps
      BY <2>1 DEF At
    <3>2. Rank[e.step] >= Rank[c.step]
      BY <1>1, <2>1, <3>1, ClosingIsBehind DEF EndSteps
    <3>3. Rank[c.step] = 4
      BY <2>1 DEF Rank
    <3>4. Rank[e.step] \in Int /\ Rank[e.step] <= 3
      BY <3>1, ClosingRank, PendingType, RankType
    <3> QED BY <3>2, <3>3, <3>4
  <2> QED BY <2>1
<1> QED BY <1>3, <1>5, <1>6, <1>7, <1>8 DEF Unsettled

\* A step that keeps Redis, the client's strokes and the commands to come.
LEMMA StaysSettled ==
  ASSUME NEW s \in Stroke, Settles(s), UNCHANGED cache[s],
         s \in activeStrokes' => s \in activeStrokes,
         client[s].phase = "done" => client'[s].phase = "done",
         fault[s] \subseteq fault'[s],
         At(s, Closing)' = At(s, Closing),
         At(s, BeginSteps \cup SegmentSteps)' \subseteq At(s, BeginSteps \cup SegmentSteps),
         \A c \in At(s, Closing) : c \in Pending'
  PROVE  Settles(s)'
<1>1. At(s, {"end_hset", "end_srem"}) \subseteq At(s, {"end_hset", "end_srem"})'
  BY DEF At, Closing
<1>2. At(s, {"end_hset", "end_srem", "end_expire"})
        \subseteq At(s, {"end_hset", "end_srem", "end_expire"})'
  BY DEF At, Closing
<1> QED BY <1>1, <1>2 DEF Settles

\* Every step keeps what is unsettled on its way.
LEMMA SettlingNext ==
  TypeOK /\ TypeOK' /\ HandlersInOrder /\ Settling /\ [Next]_vars => Settling'
<1> SUFFICES ASSUME TypeOK, TypeOK', HandlersInOrder, Settling, [Next]_vars, NEW s \in Stroke
             PROVE  Settles(s)'
  BY DEF Settling
<1>1. Settles(s)
  BY DEF Settling
<1>2. CASE ClientStep
  <2>1. PICK t \in Stroke : \E c : Arrives(t, c)
    BY <1>2, ClientArrives
  <2>2. PICK c : Arrives(t, c)
    BY <2>1
  <2>3. /\ Pending' = Pending \/ Pending' = Pending \cup {c}
        /\ client[s].phase = "done" => client'[s].phase = "done" /\ s # t
    BY <2>2, ArrivalJoins DEF Arrives
  <2>4. UNCHANGED <<cache, activeStrokes>> /\ fault[s] \subseteq fault'[s] /\ c.stroke = t
    BY <2>2 DEF Arrives
  <2>5. CASE s = t
    BY <1>1, <2>3, <2>4, <2>5 DEF Settles
  <2>6. CASE s # t
    <3>1. \A steps : At(s, steps)' = At(s, steps)
      BY <2>3, <2>4, <2>6 DEF At
    <3>2. \A d \in At(s, Closing) : d \in Pending'
      BY <2>3 DEF At
    <3> QED BY <1>1, <2>3, <2>4, <3>1, <3>2, StaysSettled
  <2> QED BY <2>5, <2>6
<1>3. CASE Continue
  BY <1>1, <1>3, ContinueSettles
<1>4. CASE Relay
  BY <1>1, <1>4, RelaySettles
<1>5. CASE Refuse \/ ReadBack
  <2>1. /\ Answering /\ conn' = Tail(conn) /\ UNCHANGED <<client, cache, activeStrokes, fault>>
        /\ Head(conn).step \in {"begin_consume", "segment_consume", "end_exists", "persist_read"}
    BY <1>5 DEF Refuse, ReadBack, redisVars, faultVars
  <2>2. Pending' = Pending \ {Head(conn)}
    BY <2>1, HeadLeaves
  <2>3. Head(conn).step \notin Closing
    BY <2>1 DEF Closing
  <2>4. /\ At(s, Closing)' = At(s, Closing)
        /\ At(s, BeginSteps \cup SegmentSteps)' \subseteq At(s, BeginSteps \cup SegmentSteps)
        /\ \A c \in At(s, Closing) : c \in Pending'
    BY <2>2, <2>3 DEF At
  <2> QED BY <1>1, <2>1, <2>4, StaysSettled
<1>6. CASE LoseReply
  <2> DEFINE c == conn[lost + 1]
  <2>1. c \in Pending /\ Execute(c) /\ conn' = conn /\ client' = client
    BY <1>6 DEF LoseReply, TypeOK, Pending
  <2>2. fault[s] \subseteq fault'[s]
    <3>1. c.stroke \in Stroke
      BY <2>1, PendingType DEF Command
    <3> QED BY <1>6, <3>1 DEF LoseReply, TypeOK
  <2> HIDE DEF c
  <2>3. \A steps : At(s, steps)' = At(s, steps)
    BY <2>1 DEF At, Pending
  <2>4. cache'[s].meta = "completed" => Unsettled(s, c)
    BY <1>1, <2>1, <2>2, ExecuteSettles
  <2> QED BY <2>1, <2>3, <2>4 DEF Settles, Unsettled
<1>7. CASE GiveUp \/ Crash
  <2>1. conn' = <<>> /\ UNCHANGED <<client, cache, activeStrokes>> /\ fault[s] \subseteq fault'[s]
        /\ (s \in InFlight => "aborted" \in fault'[s])
    BY <1>7 DEF GiveUp, Crash, Fault, redisVars
  <2>2. \A steps : At(s, steps)' = {}
    BY <2>1 DEF At, Pending
  <2>3. ASSUME NEW steps, At(s, steps) # {} PROVE s \in InFlight
    BY <2>3 DEF At, Pending, InFlight
  <2>4. fault'[s] \subseteq {"resent", "unsaved"}
          => s \notin InFlight /\ fault[s] \subseteq {"resent", "unsaved"}
    BY <2>1
  <2> QED BY <1>1, <2>1, <2>2, <2>3, <2>4 DEF Settles
<1>8. CASE \E z \in Stroke : EvictHash(z) \/ EvictPoints(z)
  <2>1. PICK z \in Stroke : EvictHash(z) \/ EvictPoints(z)
    BY <1>8
  <2>2. /\ UNCHANGED <<client, conn, activeStrokes>> /\ fault[s] \subseteq fault'[s]
        /\ s = z => "evicted" \in fault'[s]
    BY <2>1 DEF EvictHash, EvictPoints, Fault
  <2>3. \A steps : At(s, steps)' = At(s, steps)
    BY <2>2 DEF At, Pending
  <2>4. cache \in [Stroke -> CacheEntry]
    BY DEF TypeOK
  <2>5. CASE s # z
    <3>1. cache'[s] = cache[s]
      BY <2>1, <2>4, <2>5 DEF EvictHash, EvictPoints
    <3> QED BY <1>1, <2>2, <2>3, <3>1 DEF Settles
  <2>6. CASE s = z
    <3>1. cache'[s].meta = "completed" => cache[s].meta = "completed"
      <4>1. CASE EvictHash(z)
        BY <2>4, <2>6, <4>1 DEF EvictHash, CacheEntry
      <4>2. CASE EvictPoints(z)
        BY <2>4, <2>6, <4>2 DEF EvictPoints, CacheEntry
      <4> QED BY <2>1, <4>1, <4>2
    <3> QED BY <1>1, <2>2, <2>3, <2>6, <3>1 DEF Settles
  <2> QED BY <2>5, <2>6
<1>9. CASE EvictActiveStrokes \/ Reconnect \/ UNCHANGED vars
           \/ \E t \in tasks : Insert(t) \/ InsertFails(t)
  <2>1. /\ UNCHANGED <<client, conn, cache>> /\ activeStrokes' \subseteq activeStrokes
        /\ fault[s] \subseteq fault'[s]
    BY <1>9 DEF EvictActiveStrokes, Reconnect, vars, Insert, InsertFails, Fault, faultVars,
                redisVars
  <2>2. \A steps : At(s, steps)' = At(s, steps)
    BY <2>1 DEF At, Pending
  <2> QED BY <1>1, <2>1, <2>2 DEF Settles
<1> QED BY <1>2, <1>3, <1>4, <1>5, <1>6, <1>7, <1>8, <1>9, StepCases

\* Nothing is completed at the start.
LEMMA SettlingInit == Init => Settling
<1> SUFFICES ASSUME Init, NEW s \in Stroke PROVE cache[s].meta # "completed"
  BY DEF Settling, Settles
<1> QED BY DEF Init, NoEntry

\* When nothing of a completed stroke is in flight, nothing is unsettled.
LEMMA SettlingImplies == Settling => CompletedIsSettled
<1> SUFFICES ASSUME Settling, NEW s \in Stroke, cache[s].meta = "completed", Idle(s),
                    fault[s] \subseteq {"resent", "unsaved"}
             PROVE  /\ s \notin activeStrokes
                    /\ cache[s].ttl = LateJoinTtl
                    /\ cache[s].points # <<>> => cache[s].pointsTtl = LateJoinTtl
  BY DEF CompletedIsSettled
<1>1. \A steps : At(s, steps) = {}
  BY DEF Idle, InFlight, At, Pending
<1> QED BY <1>1 DEF Settling, Settles

\* A completed stroke whose handlers met no fault but resent commands is no longer listed
\* as active and its keys live for the late joiners' five minutes.
THEOREM CompletedIsSettledHolds == Spec => []CompletedIsSettled
<1>1. Init => TypeOK /\ HandlersInOrder /\ Settling
  BY TypeInit, OrderInit, SettlingInit
<1>2. (TypeOK /\ HandlersInOrder /\ Settling) /\ [Next]_vars
        => (TypeOK /\ HandlersInOrder /\ Settling)'
  BY TypeNext, OrderNext, SettlingNext
<1>3. TypeOK /\ HandlersInOrder /\ Settling => CompletedIsSettled
  BY SettlingImplies
<1> QED BY <1>1, <1>2, <1>3, PTL DEF Spec

-----------------------------------------------------------------------------
(* Events are relayed in the order drawn.                                  *)

\* Only the handlers of its own stroke concern a stroke.
LEMMA OtherStroke ==
  ASSUME TypeOK, HandlersInOrder, NEW s \in Stroke, NEW steps,
         \/ Pending' = Pending
         \/ Pending' = Pending \ {Head(conn)}
         \/ \E d : Pending' = (Pending \ {Head(conn)}) \cup {d} /\ d.stroke = Head(conn).stroke,
         Head(conn).stroke # s
  PROVE  At(s, steps)' = At(s, steps)
BY DEF At

\* A segment in flight is as old as its number.
LEMMA SegmentArrival ==
  ASSUME TypeOK, HandlersInOrder, NEW c \in Pending, c.step \in SegmentSteps
  PROVE  /\ Arrival(c) = c.n /\ c.n < Emitted(c.stroke) /\ c.n \in Nat
         /\ Rank[c.step] \in 0..2
<1>1. c.step \notin BeginSteps /\ c.n \in Segment
  BY DEF SegmentSteps, BeginSteps, HandlersInOrder
<1>2. Arrival(c) = c.n /\ c.n \in Nat
  BY <1>1, PipelineAssumption DEF Arrival, Segment
<1> QED BY <1>2 DEF HandlersInOrder, SegmentSteps, Rank

\* When the oldest command is a segment's, the other segments are younger or further along.
LEMMA OldestSegment ==
  ASSUME TypeOK, HandlersInOrder, Answering, NEW d \in Pending,
         Head(conn).step \in SegmentSteps, d.step \in SegmentSteps,
         d.stroke = Head(conn).stroke, d # Head(conn),
         Rank[d.step] <= Rank[Head(conn).step]
  PROVE  Head(conn).n < d.n
<1> DEFINE c == Head(conn)
<1>1. c \in Pending /\ c \in Command /\ Arrival(d) # Arrival(c)
      /\ (Arrival(d) < Arrival(c) => Rank[d.step] > Rank[c.step])
  BY HeadOrder
<1>2. Arrival(c) = c.n /\ c.n \in Nat /\ Arrival(d) = d.n /\ d.n \in Nat
      /\ Rank[c.step] \in 0..2 /\ Rank[d.step] \in 0..2
  BY <1>1, SegmentArrival
<1> QED BY <1>1, <1>2

\* What is relayed, and what is accepted, grows at the end.
LEMMA AppendedEvent ==
  ASSUME NEW events \in Seq(Event), NEW e \in Event,
         NEW more, more = Append(events, e)
  PROVE  /\ Len(more) = Len(events) + 1 /\ Len(events) \in Nat
         /\ DOMAIN more = 1..Len(events) + 1 /\ DOMAIN events = 1..Len(events)
         /\ \A i \in 1..Len(events) : more[i] = events[i]
         /\ more[Len(events) + 1] = e
         /\ e.kind = "segment" => SegmentsIn(more) = SegmentsIn(events) \cup {Len(events) + 1}
         /\ e.kind # "segment" => SegmentsIn(more) = SegmentsIn(events)
         /\ e.kind = "end" => EndsIn(more) = EndsIn(events) \cup {Len(events) + 1}
         /\ e.kind # "end" => EndsIn(more) = EndsIn(events)
<1>1. /\ more \in Seq(Event) /\ Len(more) = Len(events) + 1 /\ Len(events) \in Nat
      /\ \A i \in 1..Len(events) : more[i] = events[i]
      /\ more[Len(events) + 1] = e
  BY AppendProperties, LenProperties
<1>2. DOMAIN more = 1..Len(events) + 1 /\ DOMAIN events = 1..Len(events)
  BY <1>1, LenProperties
<1>3. /\ \A i \in DOMAIN more : i \in DOMAIN events \/ i = Len(events) + 1
      /\ \A i \in DOMAIN events : i \in DOMAIN more /\ more[i] = events[i]
      /\ Len(events) + 1 \in DOMAIN more
  BY <1>1, <1>2
<1>4. /\ e.kind = "segment" => SegmentsIn(more) = SegmentsIn(events) \cup {Len(events) + 1}
      /\ e.kind # "segment" => SegmentsIn(more) = SegmentsIn(events)
      /\ e.kind = "end" => EndsIn(more) = EndsIn(events) \cup {Len(events) + 1}
      /\ e.kind # "end" => EndsIn(more) = EndsIn(events)
  BY <1>1, <1>3 DEF SegmentsIn, EndsIn
<1> QED BY <1>1, <1>2, <1>4

\* The numbers relayed, after one more event.
LEMMA AppendedNumbers ==
  ASSUME NEW events, NEW more, \A i \in SegmentsIn(events) : more[i] = events[i]
  PROVE  /\ SegmentsIn(more) = SegmentsIn(events) => NumbersIn(more) = NumbersIn(events)
         /\ \A k, n : SegmentsIn(more) = SegmentsIn(events) \cup {k} /\ more[k].n = n
                      => NumbersIn(more) = NumbersIn(events) \cup {n}
<1>1. ASSUME NEW k, NEW n, SegmentsIn(more) = SegmentsIn(events) \cup {k}, more[k].n = n
      PROVE  NumbersIn(more) = NumbersIn(events) \cup {n}
  <2>1. \A m : m \in NumbersIn(more) <=> m \in NumbersIn(events) \/ m = n
    BY <1>1 DEF NumbersIn
  <2> QED BY <2>1
<1>2. SegmentsIn(more) = SegmentsIn(events) => NumbersIn(more) = NumbersIn(events)
  BY DEF NumbersIn
<1> QED BY <1>1, <1>2

\* The same for the numbers of the segments let in.
LEMMA AppendedPoint ==
  ASSUME NEW points \in Seq(Point), NEW n \in Point, NEW more, more = Append(points, n)
  PROVE  /\ more \in Seq(Point)
         /\ PointsOf(more) = PointsOf(points) \cup {n}
         /\ Increasing(points) /\ (\A m \in PointsOf(points) : m < n) => Increasing(more)
<1>1. /\ more \in Seq(Point) /\ Len(more) = Len(points) + 1 /\ Len(points) \in Nat
      /\ \A i \in 1..Len(points) : more[i] = points[i]
      /\ more[Len(points) + 1] = n
  BY AppendProperties, LenProperties
<1>2. DOMAIN more = 1..Len(points) + 1 /\ DOMAIN points = 1..Len(points)
  BY <1>1, LenProperties
<1>3. /\ \A i \in DOMAIN more : i \in DOMAIN points \/ i = Len(points) + 1
      /\ \A i \in DOMAIN points : i \in DOMAIN more /\ more[i] = points[i] /\ i < Len(points) + 1
      /\ Len(points) + 1 \in DOMAIN more
      /\ \A i \in DOMAIN points : ~(Len(points) + 1 < i)
  BY <1>1, <1>2
<1>4. PointsOf(more) = PointsOf(points) \cup {n}
  BY <1>1, <1>3 DEF PointsOf
<1>5. ASSUME Increasing(points), \A m \in PointsOf(points) : m < n
      PROVE  Increasing(more)
  <2> SUFFICES ASSUME NEW i \in DOMAIN more, NEW j \in DOMAIN more, i < j
               PROVE  more[i] < more[j]
    BY DEF Increasing
  <2>1. i \in DOMAIN points
    BY <1>1, <1>2
  <2>2. CASE j \in DOMAIN points
    BY <1>3, <1>5, <2>1, <2>2 DEF Increasing
  <2>3. CASE j = Len(points) + 1
    BY <1>1, <1>3, <1>5, <2>1, <2>3 DEF PointsOf
  <2> QED BY <1>3, <2>2, <2>3
<1> QED BY <1>1, <1>4, <1>5

\* A step that keeps what is relayed and let in, and takes no segment out of its place.
LEMMA StaysRelayed ==
  ASSUME NEW s \in Stroke, Relays(s), UNCHANGED <<room[s], accepted[s]>>,
         Emitted(s) \in Int, Emitted(s)' \in Int, Emitted(s) <= Emitted(s)',
         client[s].phase = "done" => client'[s].phase = "done",
         fault[s] \subseteq fault'[s],
         room[s] \in Seq(Event),
         \A c \in At(s, SegmentSteps)' :
           c \in At(s, SegmentSteps) \/ \A n \in NumbersIn(room[s]) : n < c.n,
         \A c \in At(s, {"segment_rpush", "segment_expire"})' :
           \E d \in At(s, {"segment_rpush", "segment_expire"}) : c.n = d.n,
         "aborted" \notin fault'[s] =>
           \A c \in At(s, {"segment_rpush", "segment_expire"}) :
             \E d \in At(s, {"segment_rpush", "segment_expire"})' : c.n = d.n,
         EndsIn(room[s]) # {} => At(s, Step)' \subseteq At(s, Step)
  PROVE  Relays(s)'
<1>1. \A n \in NumbersIn(room[s]) : n < Emitted(s)'
  <2> SUFFICES ASSUME NEW n \in NumbersIn(room[s]) PROVE n < Emitted(s)'
    OBVIOUS
  <2>1. n < Emitted(s)
    BY DEF Relays
  <2>2. n \in Int
    <3>1. PICK i \in DOMAIN room[s] : n = room[s][i].n
      BY DEF NumbersIn, SegmentsIn
    <3>2. room[s][i] \in Event
      BY LenProperties, ElementOfSeq
    <3> QED BY <3>1, <3>2, PipelineAssumption DEF Event, Point
  <2> QED BY <2>1, <2>2
<1>2. \A n \in NumbersIn(room[s]) : \A c \in At(s, SegmentSteps)' : n < c.n
  BY DEF Relays
<1>3. ASSUME NEW c \in At(s, {"segment_rpush", "segment_expire"})'
      PROVE  c.n \in PointsOf(accepted[s])
  BY DEF Relays
<1>4. ASSUME "aborted" \notin fault'[s], NEW n \in PointsOf(accepted[s])
      PROVE  \/ n \in NumbersIn(room[s])
             \/ \E c \in At(s, {"segment_rpush", "segment_expire"})' : c.n = n
  <2>1. "aborted" \notin fault[s]
    BY <1>4
  <2> QED BY <1>4, <2>1 DEF Relays
<1>5. ASSUME NEW i \in EndsIn(room[s])
      PROVE  /\ i = Len(room[s]) /\ client'[s].phase = "done"
             /\ At(s, Step)' \subseteq At(s, {"persist_read"})'
  <2>1. i = Len(room[s]) /\ client[s].phase = "done" /\ At(s, Step) \subseteq At(s, {"persist_read"})
    BY <1>5 DEF Relays
  <2>2. \A c \in At(s, Step)' : c \in Pending' /\ c.stroke = s /\ c.step = "persist_read"
    BY <1>5, <2>1 DEF At
  <2> QED BY <2>1, <2>2 DEF At
<1> QED BY <1>1, <1>2, <1>3, <1>4, <1>5 DEF Relays

\* A handler of the stroke goes on.
LEMMA ContinueRelays ==
  ASSUME TypeOK, TypeOK', HandlersInOrder, NEW s \in Stroke, Relays(s), Continue
  PROVE  Relays(s)'
<1> DEFINE c == Head(conn)
<1>1. PICK d \in Command :
        /\ Pending' = (Pending \ {c}) \cup {d}
        /\ d.stroke = c.stroke /\ d.n = c.n /\ d.step = Successor[c.step]
        /\ c.step \in SegmentSteps <=> d.step \in SegmentSteps
  BY ContinueMoves
<1>2. /\ c \in Pending /\ c \in Command /\ client' = client /\ fault' = fault /\ room' = room
      /\ c.step \in DOMAIN Successor
      /\ accepted' = IF c.step = "segment_consume"
                     THEN [accepted EXCEPT ![c.stroke] = Append(@, c.n)]
                     ELSE accepted
  BY HeadOrder DEF Continue, Continues, faultVars
<1>3. c.stroke # s => \A steps : At(s, steps)' = At(s, steps)
  BY <1>1, OtherStroke
<1> HIDE DEF c
<1>4. room[s] \in Seq(Event) /\ Emitted(s) \in Int /\ Emitted(s)' = Emitted(s)
      /\ accepted \in [Stroke -> Seq(Point)] /\ c.n \in Point
  <2>1. Emitted(s)' = Emitted(s)
    BY <1>2 DEF Emitted
  <2>2. Emitted(s) \in Int
    BY EmittedType
  <2> QED BY <1>2, <2>1, <2>2 DEF TypeOK, Command
<1>5. CASE c.stroke # s
  <2>1. accepted'[s] = accepted[s]
    BY <1>2, <1>4, <1>5
  <2> QED BY <1>2, <1>3, <1>4, <1>5, <2>1, StaysRelayed
<1>6. CASE c.stroke = s
  <2>1. EndsIn(room[s]) = {}
    <3>1. c.step # "persist_read" /\ c \in At(s, Step)
      BY <1>2, <1>6 DEF Successor, At, Command
    <3> QED BY <3>1 DEF Relays, At
  <2>2. /\ \A e \in At(s, SegmentSteps)' :
             e \in At(s, SegmentSteps) \/ (e = d /\ c.step \in SegmentSteps)
        /\ c.step \in SegmentSteps => c \in At(s, SegmentSteps)
    BY <1>1, <1>2, <1>6 DEF At
  <2>3. \A e \in At(s, SegmentSteps)' : \E f \in At(s, SegmentSteps) : e.n = f.n
    BY <1>1, <2>2
  <2>4. \A n \in NumbersIn(room[s]) : \A e \in At(s, SegmentSteps)' : n < e.n
    BY <2>3 DEF Relays
  <2>5. CASE c.step = "segment_consume"
    <3>1. d.step = "segment_rpush"
      BY <1>1, <2>5 DEF Successor
    <3>2. /\ At(s, {"segment_rpush", "segment_expire"})'
               = At(s, {"segment_rpush", "segment_expire"}) \cup {d}
      BY <1>1, <1>6, <2>5, <3>1 DEF At
    <3>3. PointsOf(accepted'[s]) = PointsOf(accepted[s]) \cup {c.n}
      BY <1>2, <1>4, <1>6, <2>5, AppendedPoint
    <3> QED BY <1>1, <1>2, <1>4, <2>1, <2>4, <3>2, <3>3 DEF Relays
  <2>6. CASE c.step # "segment_consume"
    <3>1. accepted' = accepted
      BY <1>2, <2>6
    <3>2. d.step \in {"segment_rpush", "segment_expire"} <=> c.step \in {"segment_rpush", "segment_expire"}
      BY <1>1, <1>2, <2>6 DEF Successor
    <3>3. /\ \A e \in At(s, {"segment_rpush", "segment_expire"})' :
               \E f \in At(s, {"segment_rpush", "segment_expire"}) : e.n = f.n
          /\ \A e \in At(s, {"segment_rpush", "segment_expire"}) :
               \E f \in At(s, {"segment_rpush", "segment_expire"})' : e.n = f.n
      BY <1>1, <1>2, <1>6, <3>2 DEF At
    <3> QED BY <1>2, <1>4, <2>1, <2>4, <3>1, <3>3, StaysRelayed
  <2> QED BY <2>5, <2>6
<1> QED BY <1>5, <1>6

\* stroke_end comes to its relay after every other handler of its stroke.
LEMMA EndIsAlone ==
  ASSUME TypeOK, HandlersInOrder, Answering, NEW d \in Pending, d # Head(conn),
         d.stroke = Head(conn).stroke,
         Head(conn).step \in {"end_expirePoints", "persist_read"}
  PROVE  FALSE
<1>1. /\ Head(conn) \in Pending /\ Head(conn) \in Command /\ d \in Command
      /\ Arrival(d) # Arrival(Head(conn))
  BY HeadOrder, PendingType
<1>2. Head(conn).step \in EndSteps /\ Rank[Head(conn).step] >= 4
  BY DEF EndSteps, Rank
<1>3. CASE d.step \in EndSteps
  <2>1. d.step \notin BeginSteps /\ d.step \notin SegmentSteps
        /\ Head(conn).step \notin BeginSteps /\ Head(conn).step \notin SegmentSteps
    BY <1>2, <1>3, ClosingRank
  <2> QED BY <1>1, <2>1 DEF Arrival
<1>4. CASE d.step \in BeginSteps \cup SegmentSteps
  <2>1. Rank[d.step] >= Rank[Head(conn).step]
    BY <1>1, <1>2, <1>4, ClosingIsBehind
  <2>2. Rank[d.step] <= 3 /\ Rank[d.step] \in Int /\ Rank[Head(conn).step] \in Int
    BY <1>1, <1>4, ClosingRank, RankType
  <2> QED BY <1>2, <2>1, <2>2
<1> QED BY <1>1, <1>3, <1>4, ClosingRank DEF Command

\* A handler relays: the segments relayed before are older, those in flight are younger.
LEMMA RelayRelays ==
  ASSUME TypeOK, TypeOK', HandlersInOrder, NEW s \in Stroke, Relays(s), Relay
  PROVE  Relays(s)'
<1> DEFINE c == Head(conn)
           event == [kind |-> KindOf[c.step], n |-> c.n]
<1>1. /\ c \in Pending /\ c \in Command /\ Answering
      /\ UNCHANGED <<client, fault, accepted>>
      /\ c.step \in {"begin_expire", "segment_expire", "end_expirePoints"}
      /\ room' = [room EXCEPT ![c.stroke] = Append(@, event)]
  BY HeadOrder DEF Relay, KindOf, faultVars
<1>2. /\ \A e \in Pending' : e \in Pending \ {c} \/ (e.step = "persist_read" /\ c.step = "end_expirePoints")
      /\ Pending \ {c} \subseteq Pending'
      /\ c.stroke # s => \A steps : At(s, steps)' = At(s, steps)
  <2>1. \/ Pending' = Pending \ {c}
        \/ \E d : /\ Pending' = (Pending \ {c}) \cup {d} /\ d.stroke = c.stroke
                  /\ d.step = "persist_read" /\ c.step = "end_expirePoints"
    BY RelayMoves
  <2>2. c.stroke # s => \A steps : At(s, steps)' = At(s, steps)
    BY <2>1, OtherStroke
  <2> QED BY <2>1, <2>2
<1>3. /\ room[s] \in Seq(Event) /\ room \in [Stroke -> Seq(Event)]
      /\ Emitted(s)' = Emitted(s) /\ Emitted(s) \in Int
  <2>1. Emitted(s)' = Emitted(s)
    BY <1>1 DEF Emitted
  <2>2. Emitted(s) \in Int
    BY EmittedType
  <2> QED BY <2>1, <2>2 DEF TypeOK
<1>4. /\ event \in Event /\ event.n = c.n
      /\ event.kind = "segment" <=> c.step = "segment_expire"
      /\ event.kind = "end" <=> c.step = "end_expirePoints"
  BY <1>1 DEF KindOf, Event, Command
<1> HIDE DEF c, event
<1>5. CASE c.stroke # s
  <2>1. room'[s] = room[s]
    BY <1>1, <1>3, <1>5
  <2> QED BY <1>1, <1>2, <1>3, <1>5, <2>1, StaysRelayed
<1>6. CASE c.stroke = s
  <2>1. room'[s] = Append(room[s], event)
    BY <1>1, <1>3, <1>6
  <2>2. EndsIn(room[s]) = {}
    <3>1. c.step # "persist_read" /\ c \in At(s, Step)
      BY <1>1, <1>6 DEF At, Command
    <3> QED BY <3>1 DEF Relays, At
  <2>3. At(s, SegmentSteps)' \subseteq At(s, SegmentSteps)
        /\ At(s, {"segment_rpush", "segment_expire"})' \subseteq At(s, {"segment_rpush", "segment_expire"})
    BY <1>2 DEF At, SegmentSteps
  <2>4. \A e \in At(s, {"segment_rpush", "segment_expire"}) :
          e \in At(s, {"segment_rpush", "segment_expire"})' \/ (c.step = "segment_expire" /\ e = c)
    BY <1>1, <1>2 DEF At
  <2>5. CASE c.step = "segment_expire"
    <3>1. c \in At(s, SegmentSteps) /\ c \in At(s, {"segment_rpush", "segment_expire"})
      BY <1>1, <1>6, <2>5 DEF At, SegmentSteps
    <3>2. c.n \in PointsOf(accepted[s]) /\ \A n \in NumbersIn(room[s]) : n < c.n
      BY <3>1 DEF Relays
    <3>3. c.n < Emitted(s)
      BY <1>1, <1>6, <2>5, SegmentArrival DEF SegmentSteps
    <3>4. ASSUME NEW e \in At(s, SegmentSteps)' PROVE c.n < e.n
      <4>1. e \in Pending /\ e # c /\ e.stroke = c.stroke /\ e.step \in SegmentSteps
        BY <1>2, <1>6, <2>5 DEF At
      <4>2. c.step \in SegmentSteps /\ Rank[e.step] <= Rank[c.step]
        BY <2>5, <4>1 DEF SegmentSteps, Rank
      <4> QED BY <1>1, <4>1, <4>2, OldestSegment DEF c
    <3>5. /\ Len(room[s]) \in Nat
          /\ SegmentsIn(room'[s]) = SegmentsIn(room[s]) \cup {Len(room[s]) + 1}
          /\ NumbersIn(room'[s]) = NumbersIn(room[s]) \cup {c.n}
          /\ EndsIn(room'[s]) = {}
          /\ \A i \in 1..Len(room[s]) : room'[s][i] = room[s][i]
          /\ room'[s][Len(room[s]) + 1].n = c.n
          /\ DOMAIN room[s] = 1..Len(room[s])
      <4> DEFINE old  == room[s]
                 more == room'[s]
                 num  == c.n
      <4>1. old \in Seq(Event) /\ event \in Event /\ event.n = num /\ more = Append(old, event)
        BY <1>3, <1>4, <2>1
      <4> HIDE DEF old, more, num
      <4>2. /\ Len(more) = Len(old) + 1 /\ Len(old) \in Nat
            /\ DOMAIN old = 1..Len(old)
            /\ \A i \in 1..Len(old) : more[i] = old[i]
            /\ more[Len(old) + 1] = event
        BY ONLY <4>1, AppendedEvent
      <4>3. /\ event.kind = "segment" => SegmentsIn(more) = SegmentsIn(old) \cup {Len(old) + 1}
            /\ event.kind # "segment" => SegmentsIn(more) = SegmentsIn(old)
        BY ONLY <4>1, AppendedEvent
      <4>4. /\ event.kind = "segment" => NumbersIn(more) = NumbersIn(old) \cup {num}
            /\ event.kind # "segment" => NumbersIn(more) = NumbersIn(old)
        <5>1. \A i \in SegmentsIn(old) : more[i] = old[i]
          BY <4>2 DEF SegmentsIn
        <5> DEFINE last == Len(old) + 1
        <5>2. more[last].n = num
          BY <4>1, <4>2
        <5>3. event.kind = "segment" => SegmentsIn(more) = SegmentsIn(old) \cup {last}
          BY <4>3
        <5> HIDE DEF last
        <5> QED BY ONLY <5>1, <5>2, <5>3, <4>3, AppendedNumbers
      <4>5. /\ event.kind = "end" => EndsIn(more) = EndsIn(old) \cup {Len(old) + 1}
            /\ event.kind # "end" => EndsIn(more) = EndsIn(old)
        BY ONLY <4>1, AppendedEvent
      <4> QED BY <1>4, <2>2, <2>5, <4>2, <4>3, <4>4, <4>5 DEF old, more, num
    <3>6. ASSUME NEW i \in SegmentsIn(room'[s]), NEW j \in SegmentsIn(room'[s]), i < j
          PROVE  room'[s][i].n < room'[s][j].n
      <4>1. \A k \in SegmentsIn(room[s]) :
              k \in 1..Len(room[s]) /\ room[s][k].n \in NumbersIn(room[s])
        BY <3>5 DEF SegmentsIn, NumbersIn
      <4>2. i \in SegmentsIn(room[s])
        BY <3>5, <3>6, <4>1
      <4>3. CASE j \in SegmentsIn(room[s])
        BY <3>5, <3>6, <4>1, <4>2, <4>3 DEF Relays
      <4>4. CASE j = Len(room[s]) + 1
        BY <3>2, <3>5, <4>1, <4>2, <4>4
      <4> QED BY <3>5, <4>3, <4>4
    <3>7. \A n \in NumbersIn(room'[s]) :
            /\ n \in PointsOf(accepted[s]) /\ n < Emitted(s)'
            /\ \A e \in At(s, SegmentSteps)' : n < e.n
      BY <1>3, <2>3, <3>2, <3>3, <3>4, <3>5 DEF Relays
    <3>8. "aborted" \notin fault[s] =>
            \A n \in PointsOf(accepted[s]) :
              \/ n \in NumbersIn(room'[s])
              \/ \E e \in At(s, {"segment_rpush", "segment_expire"})' : e.n = n
      BY <2>4, <3>5 DEF Relays
    <3>9. \A e \in At(s, {"segment_rpush", "segment_expire"})' : e.n \in PointsOf(accepted[s])
      BY <2>3 DEF Relays
    <3> QED BY <1>1, <3>5, <3>6, <3>7, <3>8, <3>9 DEF Relays
  <2>6. CASE c.step # "segment_expire"
    <3>1. /\ Len(room[s]) \in Nat
          /\ SegmentsIn(room'[s]) = SegmentsIn(room[s])
          /\ NumbersIn(room'[s]) = NumbersIn(room[s])
          /\ Len(room'[s]) = Len(room[s]) + 1
          /\ \A i \in 1..Len(room[s]) : room'[s][i] = room[s][i]
          /\ DOMAIN room[s] = 1..Len(room[s])
          /\ c.step = "end_expirePoints" => EndsIn(room'[s]) = {Len(room[s]) + 1}
          /\ c.step # "end_expirePoints" => EndsIn(room'[s]) = {}
      <4> DEFINE old  == room[s]
                 more == room'[s]
                 num  == c.n
      <4>1. old \in Seq(Event) /\ event \in Event /\ event.n = num /\ more = Append(old, event)
        BY <1>3, <1>4, <2>1
      <4> HIDE DEF old, more, num
      <4>2. /\ Len(more) = Len(old) + 1 /\ Len(old) \in Nat
            /\ DOMAIN old = 1..Len(old)
            /\ \A i \in 1..Len(old) : more[i] = old[i]
            /\ more[Len(old) + 1] = event
        BY ONLY <4>1, AppendedEvent
      <4>3. /\ event.kind = "segment" => SegmentsIn(more) = SegmentsIn(old) \cup {Len(old) + 1}
            /\ event.kind # "segment" => SegmentsIn(more) = SegmentsIn(old)
        BY ONLY <4>1, AppendedEvent
      <4>4. /\ event.kind = "segment" => NumbersIn(more) = NumbersIn(old) \cup {num}
            /\ event.kind # "segment" => NumbersIn(more) = NumbersIn(old)
        <5>1. \A i \in SegmentsIn(old) : more[i] = old[i]
          BY <4>2 DEF SegmentsIn
        <5> DEFINE last == Len(old) + 1
        <5>2. more[last].n = num
          BY <4>1, <4>2
        <5>3. event.kind = "segment" => SegmentsIn(more) = SegmentsIn(old) \cup {last}
          BY <4>3
        <5> HIDE DEF last
        <5> QED BY ONLY <5>1, <5>2, <5>3, <4>3, AppendedNumbers
      <4>5. /\ event.kind = "end" => EndsIn(more) = EndsIn(old) \cup {Len(old) + 1}
            /\ event.kind # "end" => EndsIn(more) = EndsIn(old)
        BY ONLY <4>1, AppendedEvent
      <4> QED BY <1>4, <2>2, <2>6, <4>2, <4>3, <4>4, <4>5 DEF old, more, num
    <3>2. \A k \in SegmentsIn(room[s]) : room'[s][k] = room[s][k]
      BY <3>1 DEF SegmentsIn
    <3>3. \A i, j \in SegmentsIn(room'[s]) : i < j => room'[s][i].n < room'[s][j].n
      BY <3>1, <3>2 DEF Relays
    <3>4. ASSUME NEW i \in EndsIn(room'[s])
          PROVE  /\ i = Len(room'[s]) /\ client[s].phase = "done"
                 /\ At(s, Step)' \subseteq At(s, {"persist_read"})'
      <4>1. c.step = "end_expirePoints" /\ i = Len(room'[s])
        BY <3>1, <3>4
      <4>2. client[s].phase = "done"
        BY <1>1, <1>6, <4>1, EndMeansDone DEF EndSteps
      <4>3. ASSUME NEW e \in At(s, Step)', e.step # "persist_read" PROVE FALSE
        <5>1. e \in Pending \ {c} /\ e.stroke = c.stroke
          BY <1>2, <1>6, <4>3 DEF At
        <5> QED BY <1>1, <4>1, <5>1, EndIsAlone DEF c
      <4> QED BY <4>1, <4>2, <4>3 DEF At
    <3>5. \A n \in NumbersIn(room'[s]) :
            /\ n \in PointsOf(accepted[s]) /\ n < Emitted(s)'
            /\ \A e \in At(s, SegmentSteps)' : n < e.n
      BY <1>3, <2>3, <3>1 DEF Relays
    <3>6. "aborted" \notin fault[s] =>
            \A n \in PointsOf(accepted[s]) :
              \/ n \in NumbersIn(room'[s])
              \/ \E e \in At(s, {"segment_rpush", "segment_expire"})' : e.n = n
      BY <2>4, <2>6, <3>1 DEF Relays
    <3>7. \A e \in At(s, {"segment_rpush", "segment_expire"})' : e.n \in PointsOf(accepted[s])
      BY <2>3 DEF Relays
    <3> QED BY <1>1, <3>3, <3>4, <3>5, <3>6, <3>7 DEF Relays
  <2> QED BY <2>5, <2>6
<1> QED BY <1>5, <1>6

\* Every step keeps the relayed segments older than those in flight.
LEMMA RelayingNext ==
  TypeOK /\ TypeOK' /\ HandlersInOrder /\ Relaying /\ [Next]_vars => Relaying'
<1> SUFFICES ASSUME TypeOK, TypeOK', HandlersInOrder, Relaying, [Next]_vars, NEW s \in Stroke
             PROVE  Relays(s)'
  BY DEF Relaying
<1>1. Relays(s) /\ room[s] \in Seq(Event)
  BY DEF Relaying, TypeOK
<1>2. Emitted(s) \in Int /\ Emitted(s)' \in Int
  <2>1. Emitted(s) \in Int
    BY EmittedType
  <2>2. client'[s].sent \in 0..MaxSegments /\ MaxSegments \in Nat
    BY PipelineAssumption DEF TypeOK, Point
  <2> QED BY <2>1, <2>2 DEF Emitted
<1>3. ASSUME UNCHANGED client PROVE Emitted(s)' = Emitted(s) /\ Emitted(s) <= Emitted(s)'
  BY <1>2, <1>3 DEF Emitted
<1>4. CASE ClientStep
  <2>1. PICK t \in Stroke : \E c : Arrives(t, c)
    BY <1>4, ClientArrives
  <2>2. PICK c : Arrives(t, c)
    BY <2>1
  <2>3. /\ Pending' = Pending \/ Pending' = Pending \cup {c}
        /\ client[s].phase = "done" => client'[s].phase = "done" /\ s # t
        /\ Emitted(s) <= Emitted(s)'
    BY <2>2, ArrivalJoins DEF Arrives
  <2>4. /\ UNCHANGED <<room, accepted>> /\ fault[s] \subseteq fault'[s]
        /\ c.stroke = t /\ c \in Command /\ c.step \in {"begin_consume", "segment_consume", "end_exists"}
    BY <2>2 DEF Arrives
  <2>5. ASSUME NEW e \in At(s, SegmentSteps)'
        PROVE  e \in At(s, SegmentSteps) \/ \A n \in NumbersIn(room[s]) : n < e.n
    <3>1. CASE e \in Pending
      BY <2>5, <3>1 DEF At
    <3>2. CASE e \notin Pending
      <4>1. e = c /\ s = t /\ c.step \in SegmentSteps
        BY <2>3, <2>4, <2>5, <3>2 DEF At
      <4>2. c.n >= Emitted(s) /\ c.n \in Nat
        BY <2>2, <4>1, PipelineAssumption DEF Arrives, Arrival, SegmentSteps, BeginSteps, Segment
      <4>3. ASSUME NEW n \in NumbersIn(room[s]) PROVE n < c.n
        <5>1. n < Emitted(s)
          BY <1>1 DEF Relays
        <5>2. n \in Int
          <6>1. PICK i \in DOMAIN room[s] : n = room[s][i].n
            BY DEF NumbersIn, SegmentsIn
          <6>2. room[s][i] \in Event
            BY <1>1, LenProperties, ElementOfSeq
          <6> QED BY <6>1, <6>2, PipelineAssumption DEF Event, Point
        <5> QED BY <1>2, <4>2, <5>1, <5>2
      <4> QED BY <4>1, <4>3
    <3> QED BY <3>1, <3>2
  <2>6. At(s, {"segment_rpush", "segment_expire"})' = At(s, {"segment_rpush", "segment_expire"})
    BY <2>3, <2>4 DEF At
  <2>7. EndsIn(room[s]) # {} => At(s, Step)' \subseteq At(s, Step)
    <3>1. EndsIn(room[s]) # {} => s # t
      BY <1>1, <2>3 DEF Relays
    <3> QED BY <2>3, <2>4, <3>1 DEF At
  <2> QED BY <1>1, <1>2, <2>3, <2>4, <2>5, <2>6, <2>7, StaysRelayed
<1>5. CASE Continue
  BY <1>1, <1>5, ContinueRelays
<1>6. CASE Relay
  BY <1>1, <1>6, RelayRelays
<1>7. CASE Refuse \/ ReadBack
  <2>1. /\ Answering /\ conn' = Tail(conn) /\ UNCHANGED <<client, room, accepted, fault>>
        /\ Head(conn).step \in {"begin_consume", "segment_consume", "end_exists", "persist_read"}
    BY <1>7 DEF Refuse, ReadBack, faultVars
  <2>2. Pending' = Pending \ {Head(conn)}
    BY <2>1, HeadLeaves
  <2>3. /\ At(s, SegmentSteps)' \subseteq At(s, SegmentSteps)
        /\ At(s, Step)' \subseteq At(s, Step)
        /\ At(s, {"segment_rpush", "segment_expire"})' = At(s, {"segment_rpush", "segment_expire"})
    BY <2>1, <2>2 DEF At
  <2> QED BY <1>1, <1>2, <1>3, <2>1, <2>3, StaysRelayed
<1>8. CASE GiveUp \/ Crash
  <2>1. conn' = <<>> /\ UNCHANGED <<client, room, accepted>> /\ fault[s] \subseteq fault'[s]
        /\ (s \in InFlight => "aborted" \in fault'[s])
    BY <1>8 DEF GiveUp, Crash, Fault
  <2>2. \A steps : At(s, steps)' = {}
    BY <2>1 DEF At, Pending
  <2>3. ASSUME NEW steps, At(s, steps) # {} PROVE "aborted" \in fault'[s]
    BY <2>1, <2>3 DEF At, Pending, InFlight
  <2> QED BY <1>1, <1>2, <1>3, <2>1, <2>2, <2>3, StaysRelayed
<1>9. CASE /\ UNCHANGED <<client, conn, room, accepted>> /\ fault[s] \subseteq fault'[s]
  <2>1. \A steps : At(s, steps)' = At(s, steps)
    BY <1>9 DEF At, Pending
  <2> QED BY <1>1, <1>2, <1>3, <1>9, <2>1, StaysRelayed
<1>10. CASE LoseReply
  <2>1. conn[lost + 1] \in Pending
    BY <1>10 DEF LoseReply, TypeOK, Pending
  <2>2. conn[lost + 1].stroke \in Stroke
    BY <2>1, PendingType DEF Command
  <2> QED BY <1>9, <1>10, <2>2 DEF LoseReply, TypeOK
<1>11. EvictActiveStrokes \/ Reconnect \/ UNCHANGED vars
         \/ (\E t \in tasks : Insert(t) \/ InsertFails(t))
         \/ (\E z \in Stroke : EvictHash(z) \/ EvictPoints(z))
       => UNCHANGED <<client, conn, room, accepted>> /\ fault[s] \subseteq fault'[s]
  BY DEF EvictActiveStrokes, Reconnect, vars, Insert, InsertFails, EvictHash, EvictPoints,
         Fault, faultVars
<1> QED BY <1>4, <1>5, <1>6, <1>7, <1>8, <1>9, <1>10, <1>11, StepCases

\* Nothing is relayed or let in at the start.
LEMMA RelayingInit == Init => Relaying
<1> SUFFICES ASSUME Init, NEW s \in Stroke PROVE Relays(s)
  BY DEF Relaying
<1>1. room[s] = <<>> /\ accepted[s] = <<>> /\ Pending = {}
  BY DEF Init, Pending
<1>2. \A steps : At(s, steps) = {}
  BY <1>1 DEF At
<1>3. SegmentsIn(room[s]) = {} /\ EndsIn(room[s]) = {} /\ PointsOf(accepted[s]) = {}
  BY <1>1 DEF SegmentsIn, EndsIn, PointsOf
<1> QED BY <1>2, <1>3 DEF Relays, NumbersIn

\* When stroke_end is relayed, no segment of its stroke is in flight.
LEMMA RelayingImplies == Relaying => RelayedInOrder
<1> SUFFICES ASSUME Relaying, NEW s \in Stroke
             PROVE  /\ \A i, j \in SegmentsIn(room[s]) : i < j => room[s][i].n < room[s][j].n
                    /\ \A i \in EndsIn(room[s]) :
                         /\ i = Len(room[s])
                         /\ "aborted" \notin fault[s]
                              => NumbersIn(room[s]) = PointsOf(accepted[s])
  BY DEF RelayedInOrder, SegmentsIn, EndsIn, NumbersIn
<1>1. Relays(s)
  BY DEF Relaying
<1>2. ASSUME NEW i \in EndsIn(room[s]), "aborted" \notin fault[s],
             NEW n \in PointsOf(accepted[s])
      PROVE  n \in NumbersIn(room[s])
  <2>1. At(s, {"segment_rpush", "segment_expire"}) = {}
    <3>1. At(s, Step) \subseteq At(s, {"persist_read"})
      BY <1>1 DEF Relays
    <3> QED BY <3>1 DEF At, Step, Successor
  <2> QED BY <1>1, <1>2, <2>1 DEF Relays
<1>3. \A n \in NumbersIn(room[s]) : n \in PointsOf(accepted[s])
  BY <1>1 DEF Relays
<1>4. /\ \A i, j \in SegmentsIn(room[s]) : i < j => room[s][i].n < room[s][j].n
      /\ \A i \in EndsIn(room[s]) : i = Len(room[s])
  BY <1>1 DEF Relays
<1> QED BY <1>2, <1>3, <1>4

\* The room gets the segments of a stroke in the order drawn, and stroke_end after all of
\* them, for any number of strokes, segments and faults.
THEOREM RelayedInOrderHolds == Spec => []RelayedInOrder
<1>1. Init => TypeOK /\ HandlersInOrder /\ Relaying
  BY TypeInit, OrderInit, RelayingInit
<1>2. (TypeOK /\ HandlersInOrder /\ Relaying) /\ [Next]_vars
        => (TypeOK /\ HandlersInOrder /\ Relaying)'
  BY TypeNext, OrderNext, RelayingNext
<1>3. TypeOK /\ HandlersInOrder /\ Relaying => RelayedInOrder
  BY RelayingImplies
<1> QED BY <1>1, <1>2, <1>3, PTL DEF Spec

-----------------------------------------------------------------------------
(* The batch that is saved is the whole stroke.                            *)

\* A sequence that increases is a prefix of any other with the same elements: at the first
\* index where they differ, the smaller element is missing from one of the two.
LEMMA IncreasingPrefix ==
  ASSUME NEW a \in Seq(Point), NEW b \in Seq(Point), Increasing(a), Increasing(b),
         PointsOf(a) = PointsOf(b), NEW n \in 1..Len(a)
  PROVE  n <= Len(b) /\ a[n] = b[n]
<1> DEFINE Bad == {k \in 1..Len(a) : ~(k <= Len(b) /\ a[k] = b[k])}
<1>1. /\ Len(a) \in Nat /\ Len(b) \in Nat
      /\ DOMAIN a = 1..Len(a) /\ DOMAIN b = 1..Len(b)
      /\ \A i \in 1..Len(a) : a[i] \in Nat
      /\ \A i \in 1..Len(b) : b[i] \in Nat
  <2>1. \A p \in Point : p \in Nat
    BY PipelineAssumption DEF Point
  <2> QED BY <2>1, LenProperties, ElementOfSeq
<1>2. SUFFICES ASSUME Bad # {} PROVE FALSE
  BY <1>1
<1>3. Bad \in SUBSET Int /\ IsFiniteSet(Bad)
  <2>1. IsFiniteSet(1..Len(a))
    BY <1>1, FS_Interval
  <2>2. Bad \subseteq 1..Len(a) /\ 1..Len(a) \subseteq Int
    BY <1>1
  <2> HIDE DEF Bad
  <2>3. IsFiniteSet(Bad)
    BY ONLY <2>1, <2>2, FS_Subset
  <2> QED BY <2>2, <2>3
<1> DEFINE k == Min(Bad)
<1>4. k \in Bad /\ \A i \in Bad : k <= i
  <2> HIDE DEF Bad
  <2> QED BY <1>2, <1>3, MinProperties
<1> HIDE DEF k
<1>5. k \in 1..Len(a) /\ ~(k <= Len(b) /\ a[k] = b[k])
  BY <1>4
<1>6. ASSUME NEW i \in 1..Len(a), i < k PROVE i \in 1..Len(b) /\ a[i] = b[i]
  <2>1. i \notin Bad
    BY <1>3, <1>4, <1>6
  <2> QED BY <1>1, <2>1
<1> HIDE DEF Bad
<1>7. PICK j \in 1..Len(b) : b[j] = a[k]
  BY <1>1, <1>5 DEF PointsOf
<1>8. ~(j < k)
  <2>1. SUFFICES ASSUME j < k PROVE FALSE
    OBVIOUS
  <2>2. j \in 1..Len(a) /\ a[j] = b[j]
    BY <1>1, <1>5, <1>6, <1>7, <2>1
  <2>3. a[j] < a[k]
    BY <1>1, <1>5, <2>1, <2>2 DEF Increasing
  <2> QED BY <1>1, <1>5, <1>7, <2>2, <2>3
<1>9. k \in 1..Len(b) /\ k < j
  BY <1>1, <1>5, <1>7, <1>8
<1>10. b[k] < a[k]
  BY <1>1, <1>7, <1>9 DEF Increasing
<1>11. PICK m \in 1..Len(a) : a[m] = b[k]
  BY <1>1, <1>9 DEF PointsOf
<1>12. m < k
  <2>1. SUFFICES ASSUME k <= m PROVE FALSE
    BY <1>1, <1>5
  <2>2. a[k] <= a[m]
    <3>1. k \in DOMAIN a /\ m \in DOMAIN a /\ k \in Int /\ m \in Int
      BY <1>1, <1>5
    <3>2. k < m => a[k] < a[m]
      BY <3>1 DEF Increasing
    <3>3. a[k] \in Nat /\ a[m] \in Nat
      BY <1>1, <1>5
    <3>4. k = m \/ k < m
      BY <2>1, <3>1
    <3> QED BY <3>2, <3>3, <3>4
  <2> QED BY <1>1, <1>5, <1>9, <1>10, <1>11, <2>2
<1>13. m \in 1..Len(b) /\ b[m] = b[k]
  BY <1>6, <1>11, <1>12
<1>14. b[m] < b[k]
  BY <1>1, <1>9, <1>12, <1>13 DEF Increasing
<1> QED BY <1>1, <1>9, <1>13, <1>14

\* Two increasing sequences with the same elements are the same.
LEMMA IncreasingEqual ==
  ASSUME NEW a \in Seq(Point), NEW b \in Seq(Point), Increasing(a), Increasing(b),
         PointsOf(a) = PointsOf(b)
  PROVE  a = b
<1>1. Len(a) \in Nat /\ Len(b) \in Nat
  BY LenProperties
<1>2. \A n \in 1..Len(a) : n <= Len(b) /\ a[n] = b[n]
  BY IncreasingPrefix
<1>3. \A n \in 1..Len(b) : n <= Len(a)
  BY IncreasingPrefix
<1>4. Len(a) = Len(b)
  <2>1. Len(a) <= Len(b)
    <3>1. CASE Len(a) = 0
      BY <1>1, <3>1
    <3>2. CASE Len(a) # 0
      BY <1>1, <1>2, <3>2
    <3> QED BY <3>1, <3>2
  <2>2. Len(b) <= Len(a)
    <3>1. CASE Len(b) = 0
      BY <1>1, <3>1
    <3>2. CASE Len(b) # 0
      BY <1>1, <1>3, <3>2
    <3> QED BY <3>1, <3>2
  <2> QED BY <1>1, <2>1, <2>2
<1> QED BY <1>2, <1>4, SeqEqual

\* Only RPUSH changes a stroke's points.
LEMMA ExecutePoints ==
  ASSUME TypeOK, NEW c \in Command, Execute(c), NEW s \in Stroke
  PROVE  /\ c.stroke = s /\ c.step = "segment_rpush"
              => cache'[s].points = Append(cache[s].points, c.n)
         /\ ~(c.stroke = s /\ c.step = "segment_rpush") => cache'[s].points = cache[s].points
<1>1. CASE c.stroke # s
  BY <1>1, ExecuteOn
<1>2. CASE c.stroke = s
  <2>1. cache'[s] = Written(cache[s], c)
    BY <1>2, ExecuteOn
  <2> QED BY <1>2, <2>1 DEF Written
<1> QED BY <1>1, <1>2

\* A step that keeps the points and the segments let in, and no segment of its stroke
\* falls behind.
LEMMA StaysCollected ==
  ASSUME NEW s \in Stroke, Collects(s), accepted'[s] = accepted[s],
         cache'[s].points = cache[s].points, accepted[s] \in Seq(Point),
         Emitted(s) \in Int, Emitted(s)' \in Int, Emitted(s) <= Emitted(s)',
         fault[s] \subseteq fault'[s],
         \A c \in At(s, {"segment_consume"})' :
           c \in At(s, {"segment_consume"}) \/ \A n \in PointsOf(accepted[s]) : n < c.n,
         \A c \in At(s, {"segment_consume", "segment_rpush"})' :
           \/ \E d \in At(s, {"segment_consume", "segment_rpush"}) : c.n = d.n
           \/ \A n \in PointsOf(accepted[s]) : n < c.n,
         fault'[s] \subseteq {"unsaved", "resent"} =>
           \A c \in At(s, {"segment_rpush"}) : \E d \in At(s, {"segment_rpush"})' : c.n = d.n
  PROVE  Collects(s)'
<1>1. \A n \in PointsOf(accepted[s]) : n < Emitted(s)'
  <2> SUFFICES ASSUME NEW n \in PointsOf(accepted[s]) PROVE n < Emitted(s)'
    OBVIOUS
  <2>1. n < Emitted(s)
    BY DEF Collects
  <2>2. n \in Int
    <3>1. PICK i \in DOMAIN accepted[s] : n = accepted[s][i]
      BY DEF PointsOf
    <3>2. accepted[s][i] \in Point
      BY LenProperties, ElementOfSeq
    <3> QED BY <3>1, <3>2, PipelineAssumption DEF Point
  <2> QED BY <2>1, <2>2
<1>2. \A n \in PointsOf(accepted[s]) : \A c \in At(s, {"segment_consume"})' : n < c.n
  BY DEF Collects
<1>3. ASSUME "resent" \notin fault'[s]
      PROVE  /\ Increasing(cache[s].points)
             /\ \A n \in PointsOf(cache[s].points) :
                  \A c \in At(s, {"segment_consume", "segment_rpush"})' : n < c.n
  <2>1. "resent" \notin fault[s]
    BY <1>3
  <2>2. \A n \in PointsOf(cache[s].points) : n \in PointsOf(accepted[s])
    BY DEF Collects
  <2>3. ASSUME NEW n \in PointsOf(cache[s].points),
               NEW c \in At(s, {"segment_consume", "segment_rpush"})'
        PROVE  n < c.n
    BY <2>1, <2>2 DEF Collects
  <2> QED BY <2>1, <2>3 DEF Collects
<1>4. ASSUME fault'[s] \subseteq {"unsaved", "resent"}, NEW n \in PointsOf(accepted[s])
      PROVE  \/ n \in PointsOf(cache[s].points)
             \/ \E c \in At(s, {"segment_rpush"})' : c.n = n
  <2>1. fault[s] \subseteq {"unsaved", "resent"}
    BY <1>4
  <2> QED BY <1>4, <2>1 DEF Collects
<1> QED BY <1>1, <1>2, <1>3, <1>4 DEF Collects

\* RPUSH of a segment that was let in, whether its answer arrives or not.
LEMMA PushCollects ==
  ASSUME TypeOK, HandlersInOrder, NEW s \in Stroke, Relays(s), Collects(s),
         NEW c \in Pending, c.stroke = s, c.step = "segment_rpush", Execute(c),
         accepted'[s] = accepted[s], Emitted(s)' = Emitted(s), fault[s] \subseteq fault'[s],
         At(s, {"segment_consume"})' = At(s, {"segment_consume"}),
         \A e \in At(s, {"segment_rpush"}) : e = c \/ e \in At(s, {"segment_rpush"})',
         "resent" \notin fault'[s] =>
           \A e \in At(s, {"segment_consume", "segment_rpush"})' :
             e \in At(s, {"segment_consume", "segment_rpush"}) /\ c.n < e.n
  PROVE  Collects(s)'
<1>1. /\ cache[s].points \in Seq(Point) /\ c \in Command /\ c.n \in Point
      /\ cache'[s].points = Append(cache[s].points, c.n)
  BY PendingType, ExecutePoints DEF TypeOK, CacheEntry, Command
<1>2. /\ PointsOf(cache'[s].points) = PointsOf(cache[s].points) \cup {c.n}
      /\ Increasing(cache[s].points) /\ (\A m \in PointsOf(cache[s].points) : m < c.n)
           => Increasing(cache'[s].points)
  <2> DEFINE points == cache[s].points
             more   == cache'[s].points
  <2>1. points \in Seq(Point) /\ c.n \in Point /\ more = Append(points, c.n)
    BY <1>1
  <2> HIDE DEF points, more
  <2>2. /\ PointsOf(more) = PointsOf(points) \cup {c.n}
        /\ Increasing(points) /\ (\A m \in PointsOf(points) : m < c.n) => Increasing(more)
    BY <2>1, AppendedPoint
  <2> QED BY <2>2 DEF points, more
<1>3. c \in At(s, {"segment_rpush"}) /\ c \in At(s, {"segment_consume", "segment_rpush"})
      /\ c \in At(s, {"segment_rpush", "segment_expire"})
  BY DEF At
<1>4. c.n \in PointsOf(accepted[s])
  BY <1>3 DEF Relays
<1>5. ASSUME "resent" \notin fault'[s]
      PROVE  /\ Increasing(cache'[s].points)
             /\ \A n \in PointsOf(cache'[s].points) :
                  \A e \in At(s, {"segment_consume", "segment_rpush"})' : n < e.n
  <2>1. /\ Increasing(cache[s].points)
        /\ \A n \in PointsOf(cache[s].points) :
             \A e \in At(s, {"segment_consume", "segment_rpush"}) : n < e.n
    BY <1>5 DEF Collects
  <2>2. Increasing(cache'[s].points)
    BY <1>2, <1>3, <2>1
  <2> QED BY <1>2, <1>5, <2>1, <2>2
<1>6. ASSUME fault'[s] \subseteq {"unsaved", "resent"}, NEW n \in PointsOf(accepted[s])
      PROVE  \/ n \in PointsOf(cache'[s].points)
             \/ \E e \in At(s, {"segment_rpush"})' : e.n = n
  <2>1. fault[s] \subseteq {"unsaved", "resent"}
    BY <1>6
  <2>2. n \in PointsOf(cache[s].points) \/ \E e \in At(s, {"segment_rpush"}) : e.n = n
    BY <2>1 DEF Collects
  <2> QED BY <1>2, <2>2
<1>7. PointsOf(cache'[s].points) \subseteq PointsOf(accepted[s])
  BY <1>2, <1>4 DEF Collects
<1>8. /\ Increasing(accepted[s])
      /\ \A n \in PointsOf(accepted[s]) :
           n < Emitted(s) /\ \A e \in At(s, {"segment_consume"}) : n < e.n
  BY DEF Collects
<1> QED BY <1>5, <1>6, <1>7, <1>8 DEF Collects

\* A handler of the stroke goes on: the limiter lets a segment in, or it reaches Redis.
LEMMA ContinueCollects ==
  ASSUME TypeOK, TypeOK', HandlersInOrder, NEW s \in Stroke, Relays(s), Collects(s), Continue
  PROVE  Collects(s)'
<1> DEFINE c == Head(conn)
<1>1. PICK d \in Command :
        /\ Pending' = (Pending \ {c}) \cup {d}
        /\ d.stroke = c.stroke /\ d.n = c.n /\ d.step = Successor[c.step]
        /\ c.step \in SegmentSteps <=> d.step \in SegmentSteps
  BY ContinueMoves
<1>2. /\ c \in Pending /\ c \in Command /\ Answering /\ Execute(c)
      /\ UNCHANGED <<client, fault>>
      /\ c.step \in DOMAIN Successor
      /\ accepted' = IF c.step = "segment_consume"
                     THEN [accepted EXCEPT ![c.stroke] = Append(@, c.n)]
                     ELSE accepted
  BY HeadOrder DEF Continue, Continues, faultVars
<1>3. c.stroke # s => \A steps : At(s, steps)' = At(s, steps)
  BY <1>1, OtherStroke
<1>4. /\ Emitted(s)' = Emitted(s) /\ Emitted(s) \in Int
      /\ accepted \in [Stroke -> Seq(Point)] /\ c.n \in Point
  <2>1. Emitted(s)' = Emitted(s)
    BY <1>2 DEF Emitted
  <2>2. Emitted(s) \in Int
    BY EmittedType
  <2> QED BY <1>2, <2>1, <2>2 DEF TypeOK, Command
<1>5. ASSUME c.stroke = s, NEW e \in Pending, e.stroke = s, e # c,
             c.step \in SegmentSteps, e.step \in SegmentSteps, Rank[e.step] <= Rank[c.step]
      PROVE  c.n < e.n
  BY <1>2, <1>5, OldestSegment
<1> HIDE DEF c
<1>6. CASE c.stroke # s
  <2>1. accepted'[s] = accepted[s] /\ cache'[s].points = cache[s].points
    BY <1>2, <1>4, <1>6, ExecutePoints
  <2> QED BY <1>2, <1>3, <1>4, <1>6, <2>1, StaysCollected
<1>7. CASE c.stroke = s /\ c.step = "segment_consume"
  <2>1. /\ d.step = "segment_rpush" /\ accepted'[s] = Append(accepted[s], c.n)
        /\ cache'[s].points = cache[s].points
    BY <1>1, <1>2, <1>4, <1>7, ExecutePoints DEF Successor
  <2>2. /\ c \in At(s, {"segment_consume"}) /\ c \in At(s, {"segment_consume", "segment_rpush"})
        /\ At(s, {"segment_consume"})' = At(s, {"segment_consume"}) \ {c}
        /\ At(s, {"segment_rpush"})' = At(s, {"segment_rpush"}) \cup {d}
    BY <1>1, <1>2, <1>7, <2>1 DEF At
  <2>3. \A e \in At(s, {"segment_consume", "segment_rpush"})' :
          \E f \in At(s, {"segment_consume", "segment_rpush"}) : e.n = f.n
    BY <1>1, <1>2, <1>7 DEF At
  <2>4. /\ PointsOf(accepted'[s]) = PointsOf(accepted[s]) \cup {c.n}
        /\ Increasing(accepted[s]) /\ (\A m \in PointsOf(accepted[s]) : m < c.n)
             => Increasing(accepted'[s])
    <3> DEFINE points == accepted[s]
               more   == accepted'[s]
    <3>1. points \in Seq(Point) /\ c.n \in Point /\ more = Append(points, c.n)
      BY <1>4, <2>1
    <3> HIDE DEF points, more
    <3>2. /\ PointsOf(more) = PointsOf(points) \cup {c.n}
          /\ Increasing(points) /\ (\A m \in PointsOf(points) : m < c.n) => Increasing(more)
      BY <3>1, AppendedPoint
    <3> QED BY <3>2 DEF points, more
  <2>5. Increasing(accepted'[s])
    BY <2>2, <2>4 DEF Collects
  <2>6. c.n < Emitted(s)
    BY <1>2, <1>7, SegmentArrival DEF SegmentSteps
  <2>7. \A e \in At(s, {"segment_consume"})' : c.n < e.n
    <3> SUFFICES ASSUME NEW e \in At(s, {"segment_consume"}), e # c PROVE c.n < e.n
      BY <2>2
    <3>1. e \in Pending /\ e.stroke = s /\ e.step = "segment_consume"
      BY DEF At
    <3> QED BY <1>5, <1>7, <3>1 DEF SegmentSteps, Rank
  <2>8. \A n \in PointsOf(accepted'[s]) :
          n < Emitted(s)' /\ \A e \in At(s, {"segment_consume"})' : n < e.n
    BY <1>4, <2>2, <2>4, <2>6, <2>7 DEF Collects
  <2>9. PointsOf(cache[s].points) \subseteq PointsOf(accepted'[s])
    BY <2>4 DEF Collects
  <2>10. "resent" \notin fault[s] =>
           /\ Increasing(cache[s].points)
           /\ \A n \in PointsOf(cache[s].points) :
                \A e \in At(s, {"segment_consume", "segment_rpush"})' : n < e.n
    BY <2>3 DEF Collects
  <2>11. fault[s] \subseteq {"unsaved", "resent"} =>
           \A n \in PointsOf(accepted'[s]) :
             \/ n \in PointsOf(cache[s].points)
             \/ \E e \in At(s, {"segment_rpush"})' : e.n = n
    BY <1>1, <2>2, <2>4 DEF Collects
  <2> QED BY <1>2, <2>1, <2>5, <2>8, <2>9, <2>10, <2>11 DEF Collects
<1>8. CASE c.stroke = s /\ c.step = "segment_rpush"
  <2>1. d.step = "segment_expire" /\ accepted' = accepted
    BY <1>1, <1>2, <1>8 DEF Successor
  <2>2. /\ At(s, {"segment_consume"})' = At(s, {"segment_consume"})
        /\ \A e \in At(s, {"segment_rpush"}) : e = c \/ e \in At(s, {"segment_rpush"})'
        /\ \A e \in At(s, {"segment_consume", "segment_rpush"})' :
             e \in At(s, {"segment_consume", "segment_rpush"}) /\ e # c
    BY <1>1, <1>8, <2>1 DEF At
  <2>3. \A e \in At(s, {"segment_consume", "segment_rpush"})' : c.n < e.n
    <3> SUFFICES ASSUME NEW e \in At(s, {"segment_consume", "segment_rpush"}), e # c
                 PROVE  c.n < e.n
      BY <2>2
    <3>1. e \in Pending /\ e.stroke = s /\ e.step \in {"segment_consume", "segment_rpush"}
      BY DEF At
    <3>2. Rank[e.step] <= Rank[c.step]
      BY <1>8, <3>1 DEF Rank
    <3> QED BY <1>5, <1>8, <3>1, <3>2 DEF SegmentSteps
  <2> QED BY <1>2, <1>4, <1>8, <2>1, <2>2, <2>3, PushCollects
<1>9. CASE c.stroke = s /\ c.step \notin {"segment_consume", "segment_rpush"}
  <2>1. accepted' = accepted /\ cache'[s].points = cache[s].points
    BY <1>2, <1>9, ExecutePoints
  <2>2. d.step \notin {"segment_consume", "segment_rpush"}
    BY <1>1, <1>2, <1>9 DEF Successor
  <2>3. /\ At(s, {"segment_consume"})' = At(s, {"segment_consume"})
        /\ At(s, {"segment_rpush"})' = At(s, {"segment_rpush"})
        /\ At(s, {"segment_consume", "segment_rpush"})' = At(s, {"segment_consume", "segment_rpush"})
    BY <1>1, <1>9, <2>2 DEF At
  <2> QED BY <1>2, <1>4, <2>1, <2>3, StaysCollected
<1> QED BY <1>6, <1>7, <1>8, <1>9

\* Every step keeps the points in Redis those that were let in.
LEMMA CollectsNext ==
  ASSUME TypeOK, TypeOK', HandlersInOrder, [Next]_vars, NEW s \in Stroke, Relays(s), Collects(s)
  PROVE  Collects(s)'
<1>1. accepted[s] \in Seq(Point) /\ cache \in [Stroke -> CacheEntry]
  BY DEF TypeOK
<1>2. Emitted(s) \in Int /\ Emitted(s)' \in Int
  <2>1. Emitted(s) \in Int
    BY EmittedType
  <2>2. client'[s].sent \in 0..MaxSegments /\ MaxSegments \in Nat
    BY PipelineAssumption DEF TypeOK, Point
  <2> QED BY <2>1, <2>2 DEF Emitted
<1>3. ASSUME UNCHANGED client PROVE Emitted(s)' = Emitted(s) /\ Emitted(s) <= Emitted(s)'
  BY <1>2, <1>3 DEF Emitted
<1>4. CASE ClientStep
  <2>1. PICK t \in Stroke : \E c : Arrives(t, c)
    BY <1>4, ClientArrives
  <2>2. PICK c : Arrives(t, c)
    BY <2>1
  <2>3. /\ Pending' = Pending \/ Pending' = Pending \cup {c}
        /\ Emitted(s) <= Emitted(s)'
    BY <2>2, ArrivalJoins
  <2>4. /\ UNCHANGED <<cache, accepted>> /\ fault[s] \subseteq fault'[s]
        /\ c.stroke = t /\ c.step \in {"begin_consume", "segment_consume", "end_exists"}
    BY <2>2 DEF Arrives
  <2>5. c.step = "segment_consume" /\ s = t => \A n \in PointsOf(accepted[s]) : n < c.n
    <3>1. SUFFICES ASSUME c.step = "segment_consume", s = t, NEW n \in PointsOf(accepted[s])
                   PROVE  n < c.n
      OBVIOUS
    <3>2. c.n >= Emitted(s) /\ c.n \in Nat
      BY <2>2, <3>1, PipelineAssumption DEF Arrives, Arrival, SegmentSteps, BeginSteps, Segment
    <3>3. n < Emitted(s)
      BY DEF Collects
    <3>4. n \in Int
      <4>1. PICK i \in DOMAIN accepted[s] : n = accepted[s][i]
        BY DEF PointsOf
      <4>2. accepted[s][i] \in Point
        BY <1>1, LenProperties, ElementOfSeq
      <4> QED BY <4>1, <4>2, PipelineAssumption DEF Point
    <3> QED BY <1>2, <3>2, <3>3, <3>4
  <2>6. \A e \in Pending' : e \in Pending \/ e = c
    BY <2>3
  <2>7. \A e \in At(s, {"segment_consume"})' :
          e \in At(s, {"segment_consume"}) \/ \A n \in PointsOf(accepted[s]) : n < e.n
    BY <2>4, <2>5, <2>6 DEF At
  <2>8. \A e \in At(s, {"segment_consume", "segment_rpush"})' :
          \/ \E d \in At(s, {"segment_consume", "segment_rpush"}) : e.n = d.n
          \/ \A n \in PointsOf(accepted[s]) : n < e.n
    BY <2>4, <2>5, <2>6 DEF At
  <2>9. At(s, {"segment_rpush"})' = At(s, {"segment_rpush"})
    BY <2>3, <2>4 DEF At
  <2> QED BY <1>1, <1>2, <2>3, <2>4, <2>7, <2>8, <2>9, StaysCollected
<1>5. CASE Continue
  BY <1>5, ContinueCollects
<1>6. CASE Relay
  <2>1. /\ Head(conn) \in Command /\ Execute(Head(conn)) /\ UNCHANGED <<client, accepted, fault>>
        /\ Head(conn).step \in {"begin_expire", "segment_expire", "end_expirePoints"}
    BY <1>6, HeadOrder DEF Relay, KindOf, faultVars
  <2>2. /\ \A e \in Pending' : e \in Pending \/ e.step = "persist_read"
        /\ Pending \ {Head(conn)} \subseteq Pending'
    BY <1>6, RelayMoves
  <2>3. /\ At(s, {"segment_consume"})' = At(s, {"segment_consume"})
        /\ At(s, {"segment_rpush"})' = At(s, {"segment_rpush"})
        /\ At(s, {"segment_consume", "segment_rpush"})' = At(s, {"segment_consume", "segment_rpush"})
    BY <2>1, <2>2 DEF At
  <2>4. cache'[s].points = cache[s].points
    BY <2>1, ExecutePoints
  <2> QED BY <1>1, <1>2, <1>3, <2>1, <2>3, <2>4, StaysCollected
<1>7. CASE Refuse \/ ReadBack
  <2>1. /\ Answering /\ conn' = Tail(conn) /\ UNCHANGED <<client, cache, accepted, fault>>
        /\ Head(conn).step \in {"begin_consume", "segment_consume", "end_exists", "persist_read"}
    BY <1>7 DEF Refuse, ReadBack, faultVars, redisVars
  <2>2. Pending' = Pending \ {Head(conn)}
    BY <2>1, HeadLeaves
  <2>3. /\ At(s, {"segment_consume"})' \subseteq At(s, {"segment_consume"})
        /\ At(s, {"segment_rpush"})' = At(s, {"segment_rpush"})
        /\ At(s, {"segment_consume", "segment_rpush"})' \subseteq At(s, {"segment_consume", "segment_rpush"})
    BY <2>1, <2>2 DEF At
  <2> QED BY <1>1, <1>2, <1>3, <2>1, <2>3, StaysCollected
<1>8. CASE GiveUp \/ Crash
  <2>1. conn' = <<>> /\ UNCHANGED <<client, cache, accepted>> /\ fault[s] \subseteq fault'[s]
        /\ (s \in InFlight => "aborted" \in fault'[s])
    BY <1>8 DEF GiveUp, Crash, Fault, redisVars
  <2>2. \A steps : At(s, steps)' = {}
    BY <2>1 DEF At, Pending
  <2>3. At(s, {"segment_rpush"}) # {} => "aborted" \in fault'[s]
    BY <2>1 DEF At, Pending, InFlight
  <2> QED BY <1>1, <1>2, <1>3, <2>1, <2>2, <2>3, StaysCollected
<1>9. CASE LoseReply
  <2> DEFINE c == conn[lost + 1]
  <2>1. /\ c \in Pending /\ Execute(c) /\ UNCHANGED <<conn, client, accepted>>
        /\ fault' = IF c.step = "segment_rpush"
                    THEN [fault EXCEPT ![c.stroke] = @ \cup {"resent"}]
                    ELSE fault
    BY <1>9 DEF LoseReply, TypeOK, Pending
  <2> HIDE DEF c
  <2>2. c \in Command /\ c.stroke \in Stroke
    BY <2>1, PendingType DEF Command
  <2>3. /\ fault[s] \subseteq fault'[s]
        /\ c.stroke = s /\ c.step = "segment_rpush" => "resent" \in fault'[s]
    BY <2>1, <2>2 DEF TypeOK
  <2>4. \A steps : At(s, steps)' = At(s, steps)
    BY <2>1 DEF At, Pending
  <2>5. CASE c.stroke = s /\ c.step = "segment_rpush"
    BY <1>3, <2>1, <2>3, <2>4, <2>5, PushCollects
  <2>6. CASE ~(c.stroke = s /\ c.step = "segment_rpush")
    <3>1. cache'[s].points = cache[s].points
      BY <2>1, <2>2, <2>6, ExecutePoints
    <3> QED BY <1>1, <1>2, <1>3, <2>1, <2>3, <2>4, <3>1, StaysCollected
  <2> QED BY <2>5, <2>6
<1>10. CASE \E z \in Stroke : EvictHash(z) \/ EvictPoints(z)
  <2>1. PICK z \in Stroke : EvictHash(z) \/ EvictPoints(z)
    BY <1>10
  <2>2. UNCHANGED <<client, conn, accepted>> /\ fault[s] \subseteq fault'[s]
    BY <2>1 DEF EvictHash, EvictPoints, Fault
  <2>3. \A steps : At(s, steps)' = At(s, steps)
    BY <2>2 DEF At, Pending
  <2>4. CASE cache'[s].points = cache[s].points
    BY <1>1, <1>2, <1>3, <2>2, <2>3, <2>4, StaysCollected
  <2>5. CASE cache'[s].points # cache[s].points
    <3>1. s = z /\ EvictPoints(z)
      <4>1. cache[s] \in CacheEntry /\ DOMAIN cache = Stroke
        BY <1>1
      <4>2. EvictHash(z) => cache'[s].points = cache[s].points
        BY <1>1, <4>1 DEF EvictHash, CacheEntry
      <4>3. EvictPoints(z) /\ s # z => cache'[s] = cache[s]
        BY <1>1 DEF EvictPoints
      <4> QED BY <2>1, <2>5, <4>2, <4>3
    <3>2. cache'[s].points = <<>> /\ "evicted" \in fault'[s]
      BY <1>1, <3>1 DEF EvictPoints, CacheEntry, Fault
    <3>3. PointsOf(cache'[s].points) = {} /\ Increasing(cache'[s].points)
      BY <3>2 DEF PointsOf, Increasing
    <3> QED BY <1>3, <2>2, <2>3, <3>2, <3>3 DEF Collects
  <2> QED BY <2>4, <2>5
<1>11. CASE EvictActiveStrokes \/ Reconnect \/ UNCHANGED vars
            \/ \E t \in tasks : Insert(t) \/ InsertFails(t)
  <2>1. UNCHANGED <<client, conn, cache, accepted>> /\ fault[s] \subseteq fault'[s]
    BY <1>11 DEF EvictActiveStrokes, Reconnect, vars, Insert, InsertFails, Fault, faultVars,
                 redisVars
  <2>2. \A steps : At(s, steps)' = At(s, steps)
    BY <2>1 DEF At, Pending
  <2> QED BY <1>1, <1>2, <1>3, <2>1, <2>2, StaysCollected
<1> QED BY <1>4, <1>5, <1>6, <1>7, <1>8, <1>9, <1>10, <1>11, StepCases

\* What the persistence task reads is the whole stroke: every segment let in has reached Redis.
LEMMA ReadIsWhole ==
  ASSUME TypeOK, HandlersInOrder, Answering, NEW s \in Stroke, Collects(s),
         Head(conn).stroke = s, Head(conn).step = "persist_read"
  PROVE  IsWhole(s, cache[s].points)
<1>1. \A e \in At(s, {"segment_rpush"}) : FALSE
  <2> SUFFICES ASSUME NEW e \in At(s, {"segment_rpush"}) PROVE FALSE
    OBVIOUS
  <2>1. e \in Pending /\ e.stroke = s /\ e.step = "segment_rpush"
    BY DEF At
  <2>2. e # Head(conn)
    BY <2>1
  <2> QED BY <2>1, <2>2, EndIsAlone
<1>2. fault[s] \subseteq {"unsaved", "resent"} => PointsOf(cache[s].points) = PointsOf(accepted[s])
  BY <1>1 DEF Collects
<1>3. ASSUME fault[s] \subseteq {"unsaved"} PROVE cache[s].points = accepted[s]
  <2>1. "resent" \notin fault[s] /\ fault[s] \subseteq {"unsaved", "resent"}
    BY <1>3
  <2>2. Increasing(cache[s].points) /\ Increasing(accepted[s])
    BY <2>1 DEF Collects
  <2>3. cache[s].points \in Seq(Point) /\ accepted[s] \in Seq(Point)
    BY DEF TypeOK, CacheEntry
  <2> QED BY <1>2, <2>1, <2>2, <2>3, IncreasingEqual
<1> QED BY <1>2, <1>3 DEF IsWhole

\* A step that adds no batch of the stroke.
LEMMA StaysBatched ==
  ASSUME NEW s \in Stroke, Batches(s), saved'[s] = saved[s],
         \A t \in tasks' : t.stroke = s => t \in tasks,
         saved[s] # <<>> \/ (\E t \in tasks : t.stroke = s) => accepted'[s] = accepted[s],
         fault[s] \subseteq fault'[s],
         Over(s) => Over(s)'
  PROVE  Batches(s)'
<1>1. \A i \in DOMAIN saved[s] : IsWhole(s, saved[s][i])'
  <2> SUFFICES ASSUME NEW i \in DOMAIN saved[s] PROVE IsWhole(s, saved[s][i])'
    OBVIOUS
  <2>1. saved[s] # <<>>
    OBVIOUS
  <2>2. IsWhole(s, saved[s][i])
    BY DEF Batches
  <2> QED BY <2>1, <2>2 DEF IsWhole
<1>2. \A t \in tasks' : t.stroke = s => IsWhole(s, t.points)' /\ saved'[s] = <<>> /\ Over(s)'
  <2> SUFFICES ASSUME NEW t \in tasks', t.stroke = s
               PROVE  IsWhole(s, t.points)' /\ saved'[s] = <<>> /\ Over(s)'
    OBVIOUS
  <2>1. t \in tasks /\ IsWhole(s, t.points) /\ saved[s] = <<>> /\ Over(s)
    BY DEF Batches
  <2> QED BY <2>1 DEF IsWhole
<1>3. \A t, u \in tasks' : t.stroke = s /\ u.stroke = s => t = u
  BY DEF Batches
<1>4. (saved'[s] # <<>> => Over(s)') /\ Len(saved'[s]) <= 1
  BY DEF Batches
<1> QED BY <1>1, <1>2, <1>3, <1>4 DEF Batches

\* Nothing of a stroke that is over comes back, and no segment of it is let in.
LEMMA OverStays ==
  ASSUME TypeOK, TypeOK', HandlersInOrder, [Next]_vars, NEW s \in Stroke, Over(s)
  PROVE  Over(s)' /\ accepted'[s] = accepted[s]
<1>1. client[s].phase = "done" /\ \A c \in Pending : c.stroke # s
  BY PendingType DEF Over, At, Command
<1>2. SUFFICES /\ client'[s].phase = "done" /\ accepted'[s] = accepted[s]
               /\ \A c \in Pending' : c.stroke # s
  BY DEF Over, At
<1>3. CASE ClientStep
  <2>1. PICK t \in Stroke : \E c : Arrives(t, c)
    BY <1>3, ClientArrives
  <2>2. PICK c : Arrives(t, c)
    BY <2>1
  <2>3. Pending' = Pending \/ Pending' = Pending \cup {c}
    BY <2>2, ArrivalJoins
  <2>4. s # t /\ client'[s] = client[s] /\ accepted' = accepted /\ c.stroke = t
    BY <1>1, <2>2 DEF Arrives
  <2> QED BY <1>1, <2>3, <2>4
<1>4. CASE Continue
  <2>1. PICK d \in Command :
           /\ Pending' = (Pending \ {Head(conn)}) \cup {d} /\ d.stroke = Head(conn).stroke
    BY <1>4, ContinueMoves
  <2>2. /\ Head(conn) \in Pending /\ client' = client
        /\ accepted' = IF Head(conn).step = "segment_consume"
                       THEN [accepted EXCEPT ![Head(conn).stroke] = Append(@, Head(conn).n)]
                       ELSE accepted
    BY <1>4, HeadOrder DEF Continue
  <2>3. Head(conn).stroke # s
    BY <1>1, <2>2
  <2> QED BY <1>1, <2>1, <2>2, <2>3 DEF TypeOK
<1>5. CASE Relay
  <2>1. UNCHANGED <<client, accepted>> /\ Head(conn) \in Pending
    BY <1>5, HeadOrder DEF Relay
  <2>2. \A c \in Pending' : c \in Pending \/ c.stroke = Head(conn).stroke
    BY <1>5, RelayMoves
  <2> QED BY <1>1, <2>1, <2>2
<1>6. CASE Refuse \/ ReadBack
  <2>1. Answering /\ conn' = Tail(conn) /\ UNCHANGED <<client, accepted>>
    BY <1>6 DEF Refuse, ReadBack
  <2>2. Pending' = Pending \ {Head(conn)}
    BY <2>1, HeadLeaves
  <2> QED BY <1>1, <2>1, <2>2
<1>7. CASE GiveUp \/ Crash
  <2>1. conn' = <<>> /\ UNCHANGED <<client, accepted>>
    BY <1>7 DEF GiveUp, Crash
  <2> QED BY <1>1, <2>1 DEF Pending
<1>8. CASE UNCHANGED <<client, conn, accepted>>
  BY <1>1, <1>8 DEF Pending
<1>9. LoseReply \/ EvictActiveStrokes \/ Reconnect \/ UNCHANGED vars
         \/ (\E t \in tasks : Insert(t) \/ InsertFails(t))
         \/ (\E z \in Stroke : EvictHash(z) \/ EvictPoints(z))
       => UNCHANGED <<client, conn, accepted>>
  BY DEF LoseReply, EvictActiveStrokes, Reconnect, vars, Insert, InsertFails, EvictHash,
         EvictPoints
<1> QED BY <1>3, <1>4, <1>5, <1>6, <1>7, <1>8, <1>9, StepCases

\* Faults are only added.
LEMMA FaultsGrow ==
  ASSUME TypeOK, [Next]_vars, NEW s \in Stroke
  PROVE  fault[s] \subseteq fault'[s]
<1>1. CASE ClientStep
  <2>1. PICK t \in Stroke : \E c : Arrives(t, c)
    BY <1>1, ClientArrives
  <2> QED BY <2>1 DEF Arrives
<1>2. CASE LoseReply
  <2>1. conn[lost + 1] \in Pending
    BY <1>2 DEF LoseReply, TypeOK, Pending
  <2>2. conn[lost + 1].stroke \in Stroke
    BY <2>1, PendingType DEF Command
  <2> QED BY <1>2, <2>2 DEF LoseReply, TypeOK
<1>3. CASE Continue \/ Refuse \/ Relay \/ ReadBack
  BY <1>3 DEF Continue, Refuse, Relay, ReadBack, faultVars
<1>4. CASE GiveUp \/ Crash \/ EvictActiveStrokes \/ Reconnect \/ UNCHANGED vars
           \/ (\E t \in tasks : Insert(t) \/ InsertFails(t))
           \/ (\E z \in Stroke : EvictHash(z) \/ EvictPoints(z))
  BY <1>4 DEF GiveUp, Crash, EvictActiveStrokes, Reconnect, vars, Insert, InsertFails,
              EvictHash, EvictPoints, Fault, faultVars
<1> QED BY <1>1, <1>2, <1>3, <1>4, StepCases

\* Every step keeps the batches whole, and a stroke's batch its only one.
LEMMA BatchesNext ==
  ASSUME TypeOK, TypeOK', HandlersInOrder, [Next]_vars, NEW s \in Stroke, Collects(s), Batches(s)
  PROVE  Batches(s)'
<1>1. /\ fault[s] \subseteq fault'[s]
      /\ Over(s) => Over(s)' /\ accepted'[s] = accepted[s]
  BY FaultsGrow, OverStays
<1>2. saved[s] # <<>> \/ (\E t \in tasks : t.stroke = s) => Over(s)
  BY DEF Batches
<1>3. /\ tasks \subseteq [stroke : Stroke, points : Seq(Point)]
      /\ saved \in [Stroke -> Seq(Seq(Point))] /\ cache[s].points \in Seq(Point)
  BY DEF TypeOK, CacheEntry
<1>4. CASE ReadBack
  <2> DEFINE c == Head(conn)
             t == [stroke |-> c.stroke, points |-> cache[c.stroke].points]
  <2>1. /\ Answering /\ c \in Pending /\ c.step = "persist_read"
        /\ UNCHANGED <<client, saved>> /\ conn' = Tail(conn)
        /\ tasks' = tasks \/ tasks' = tasks \cup {t}
    BY <1>4, HeadOrder DEF ReadBack
  <2>2. Pending' = Pending \ {c}
    BY <2>1, HeadLeaves
  <2>3. CASE c.stroke # s
    BY <1>1, <1>2, <2>1, <2>3, StaysBatched
  <2>4. CASE c.stroke = s
    <3>1. c \in At(s, Step)
      BY <2>1, <2>4, PendingType DEF At, Command
    <3>2. ~Over(s) /\ saved[s] = <<>> /\ \A u \in tasks : u.stroke # s
      BY <1>2, <3>1 DEF Over
    <3>3. Over(s)'
      <4>1. client[s].phase = "done"
        BY <2>1, <2>4, EndMeansDone DEF EndSteps
      <4>2. \A d \in Pending' : d.stroke # s
        BY <2>1, <2>2, <2>4, EndIsAlone
      <4> QED BY <2>1, <4>1, <4>2 DEF Over, At
    <3>4. ASSUME NEW points, points = cache[s].points
          PROVE  IsWhole(s, points)'
      <4>1. IsWhole(s, cache[s].points)
        BY <2>1, <2>4, ReadIsWhole
      <4>2. accepted' = accepted /\ fault' = fault
        BY <1>4 DEF ReadBack, faultVars
      <4> QED BY <3>4, <4>1, <4>2 DEF IsWhole
    <3>5. \A u \in tasks' : u.stroke = s => u = t
      BY <2>1, <3>2
    <3>6. saved'[s] = <<>> /\ Len(saved'[s]) <= 1
      BY <2>1, <3>2
    <3>7. ASSUME NEW u \in tasks', u.stroke = s PROVE IsWhole(s, u.points)'
      <4>1. u.points = cache[s].points
        BY <2>4, <3>5, <3>7
      <4> QED BY <3>4, <4>1
    <3>8. \A u, v \in tasks' : u.stroke = s /\ v.stroke = s => u = v
      BY <3>5
    <3> HIDE DEF t
    <3> QED BY <3>3, <3>6, <3>7, <3>8 DEF Batches
  <2> QED BY <2>3, <2>4
<1>5. CASE \E t \in tasks : Insert(t)
  <2>1. PICK t \in tasks : Insert(t)
    BY <1>5
  <2>2. /\ tasks' = tasks \ {t} /\ UNCHANGED <<client, conn, accepted, fault>>
        /\ saved' = [saved EXCEPT ![t.stroke] = Append(@, t.points)]
    BY <2>1 DEF Insert, faultVars
  <2>3. CASE t.stroke # s
    BY <1>1, <1>2, <1>3, <2>2, <2>3, StaysBatched
  <2>4. CASE t.stroke = s
    <3>1. saved[s] = <<>> /\ IsWhole(s, t.points) /\ Over(s) /\ t.points \in Seq(Point)
      BY <1>3, <2>4 DEF Batches
    <3>2. saved'[s] = <<t.points>>
      BY <1>3, <2>2, <2>4, <3>1
    <3>3. \A u \in tasks' : u.stroke # s
      BY <2>2, <2>4 DEF Batches
    <3>4. \A i \in DOMAIN saved'[s] : saved'[s][i] = t.points
      BY <3>2
    <3>5. Len(saved'[s]) <= 1
      BY <3>2
    <3>6. IsWhole(s, t.points)'
      BY <2>2, <3>1 DEF IsWhole
    <3>7. \A i \in DOMAIN saved'[s] : IsWhole(s, saved[s][i])'
      BY <2>2, <3>1, <3>4 DEF IsWhole
    <3> QED BY <1>1, <3>1, <3>3, <3>5, <3>7 DEF Batches
  <2> QED BY <2>3, <2>4
<1>6. CASE saved' = saved /\ tasks' \subseteq tasks
  BY <1>1, <1>2, <1>6, StaysBatched
<1>7. CASE ClientStep
  <2>1. PICK t \in Stroke : \E c : Arrives(t, c)
    BY <1>7, ClientArrives
  <2>2. UNCHANGED <<saved, tasks>>
    BY <2>1 DEF Arrives
  <2> QED BY <1>6, <2>2
<1>8. Continue \/ Refuse \/ Relay \/ LoseReply \/ GiveUp \/ Crash \/ EvictActiveStrokes
         \/ Reconnect \/ UNCHANGED vars \/ (\E t \in tasks : InsertFails(t))
         \/ (\E z \in Stroke : EvictHash(z) \/ EvictPoints(z))
       => saved' = saved /\ tasks' \subseteq tasks
  BY DEF Continue, Refuse, Relay, LoseReply, GiveUp, Crash, EvictActiveStrokes, Reconnect, vars,
         InsertFails, EvictHash, EvictPoints
<1> QED BY <1>4, <1>5, <1>6, <1>7, <1>8, StepCases

\* Every step keeps what is saved whole.
LEMMA SavingNext ==
  TypeOK /\ TypeOK' /\ HandlersInOrder /\ Relaying /\ Saving /\ [Next]_vars => Saving'
BY CollectsNext, BatchesNext DEF Saving, Relaying

\* Nothing is saved at the start.
LEMMA SavingInit == Init => Saving
<1> SUFFICES ASSUME Init, NEW s \in Stroke PROVE Collects(s) /\ Batches(s)
  BY DEF Saving
<1>1. /\ accepted[s] = <<>> /\ cache[s].points = <<>> /\ saved[s] = <<>> /\ tasks = {}
  BY DEF Init, NoEntry
<1>2. PointsOf(<<>>) = {} /\ Increasing(<<>>)
  BY DEF PointsOf, Increasing
<1> QED BY <1>1, <1>2 DEF Collects, Batches

\* What is saved is what was let in.
LEMMA SavingImplies == Saving => BatchIsWholeStroke
BY DEF Saving, Batches, BatchIsWholeStroke, IsWhole

\* A batch that reaches PostgreSQL holds every segment that was let in, in the order drawn,
\* and a stroke has one batch at most.
THEOREM BatchIsWholeStrokeHolds == Spec => []BatchIsWholeStroke
<1>1. Init => TypeOK /\ HandlersInOrder /\ Relaying /\ Saving
  BY TypeInit, OrderInit, RelayingInit, SavingInit
<1>2. (TypeOK /\ HandlersInOrder /\ Relaying /\ Saving) /\ [Next]_vars
        => (TypeOK /\ HandlersInOrder /\ Relaying /\ Saving)'
  BY TypeNext, OrderNext, RelayingNext, SavingNext
<1>3. TypeOK /\ HandlersInOrder /\ Relaying /\ Saving => BatchIsWholeStroke
  BY SavingImplies
<1> QED BY <1>1, <1>2, <1>3, PTL DEF Spec

-----------------------------------------------------------------------------
(* A stroke whose end the room was told is on its way to PostgreSQL.       *)

\* From stroke_end's EXISTS to the end of its persistence task the stroke has its metadata.
Reading == Closing \cup {"persist_read"}

Lives(s) ==
  "evicted" \notin fault[s] =>
    /\ cache[s].meta # "statusOnly"
    /\ At(s, Reading) # {} => cache[s].meta # "none"

\* A stroke that has a segment, was ended for the room and met no fault but resent commands
\* is saved, waits for PostgreSQL, or is being read back for it.
OnItsWay(s) ==
  EndsIn(room[s]) # {} /\ accepted[s] # <<>> /\ fault[s] \subseteq {"resent"}
    => \/ saved[s] # <<>>
       \/ \E t \in tasks : t.stroke = s
       \/ At(s, {"persist_read"}) # {}

EndReachesDatabase == \A s \in Stroke : OnItsWay(s)

Arriving == \A s \in Stroke : Lives(s) /\ OnItsWay(s)

\* No command takes the metadata away, and HSET status finds the rest of the hash.
LEMMA ExecuteLives ==
  ASSUME TypeOK, NEW s \in Stroke, Lives(s), NEW c \in Pending, Execute(c),
         "evicted" \notin fault[s]
  PROVE  /\ cache'[s].meta # "statusOnly"
         /\ cache[s].meta # "none" => cache'[s].meta # "none"
<1>1. /\ c \in Command /\ cache[s].meta # "statusOnly"
      /\ cache[s].meta \in {"none", "active", "completed", "statusOnly"}
  BY PendingType DEF Lives, TypeOK, CacheEntry
<1>2. CASE c.stroke # s
  BY <1>1, <1>2, ExecuteOn
<1>3. CASE c.stroke = s
  <2>1. cache'[s].meta = MetaAfter(cache[s], c)
    <3>1. cache'[s] = Written(cache[s], c)
      BY <1>1, <1>3, ExecuteOn
    <3> QED BY <3>1 DEF Written
  <2>2. c.step = "end_hset" => cache[s].meta # "none"
    BY <1>3 DEF Lives, At, Reading, Closing
  <2> QED BY <1>1, <2>1, <2>2 DEF MetaAfter
<1> QED BY <1>2, <1>3

\* A step that keeps the metadata, and starts to close only what has metadata.
LEMMA StaysAlive ==
  ASSUME NEW s \in Stroke, Lives(s), fault[s] \subseteq fault'[s],
         "evicted" \notin fault'[s] =>
           /\ cache'[s].meta # "statusOnly"
           /\ cache[s].meta # "none" => cache'[s].meta # "none",
         At(s, Reading)' # {} => At(s, Reading) # {} \/ cache[s].meta # "none"
  PROVE  Lives(s)'
BY DEF Lives

\* Every step keeps the metadata of a stroke that is being closed.
LEMMA LivesNext ==
  ASSUME TypeOK, TypeOK', HandlersInOrder, [Next]_vars, NEW s \in Stroke, Lives(s)
  PROVE  Lives(s)'
<1>1. fault[s] \subseteq fault'[s] /\ cache \in [Stroke -> CacheEntry]
  BY FaultsGrow DEF TypeOK
<1>2. "evicted" \notin fault'[s] => "evicted" \notin fault[s] /\ cache[s].meta # "statusOnly"
  BY <1>1 DEF Lives
<1>3. CASE ClientStep
  <2>1. PICK t \in Stroke : \E c : Arrives(t, c)
    BY <1>3, ClientArrives
  <2>2. PICK c : Arrives(t, c)
    BY <2>1
  <2>3. Pending' = Pending \/ Pending' = Pending \cup {c}
    BY <2>2, ArrivalJoins
  <2>4. c.step \in {"begin_consume", "segment_consume", "end_exists"} /\ cache' = cache
    BY <2>2 DEF Arrives
  <2>5. At(s, Reading)' \subseteq At(s, Reading)
    BY <2>3, <2>4 DEF At, Reading, Closing
  <2> QED BY <1>1, <1>2, <2>4, <2>5, StaysAlive
<1>4. CASE Continue
  <2>1. PICK d \in Command :
           /\ Pending' = (Pending \ {Head(conn)}) \cup {d}
           /\ d.stroke = Head(conn).stroke /\ d.step = Successor[Head(conn).step]
    BY <1>4, ContinueMoves
  <2>2. /\ Head(conn) \in Pending /\ Execute(Head(conn)) /\ Head(conn).step \in DOMAIN Successor
        /\ Head(conn).step = "end_exists" => cache[Head(conn).stroke].meta # "none"
    BY <1>4, HeadOrder DEF Continue, Continues
  <2>3. d.step \in Reading => Head(conn).step = "end_exists" \/ Head(conn).step \in Reading
    BY <2>1, <2>2 DEF Successor, Reading, Closing
  <2>4. At(s, Reading)' # {} => At(s, Reading) # {} \/ cache[s].meta # "none"
    <3> SUFFICES ASSUME NEW e \in At(s, Reading)' PROVE At(s, Reading) # {} \/ cache[s].meta # "none"
      OBVIOUS
    <3>1. e \in Pending' /\ e.stroke = s /\ e.step \in Reading
      BY DEF At
    <3>2. CASE e \in Pending
      BY <3>1, <3>2 DEF At
    <3>3. CASE e = d
      BY <2>1, <2>2, <2>3, <3>1, <3>3 DEF At
    <3> QED BY <2>1, <3>1, <3>2, <3>3
  <2> QED BY <1>1, <1>2, <2>2, <2>4, ExecuteLives, StaysAlive
<1>5. CASE Relay
  <2>1. Head(conn) \in Pending /\ Execute(Head(conn))
    BY <1>5, HeadOrder DEF Relay
  <2>2. ASSUME NEW e \in At(s, Reading)' PROVE At(s, Reading) # {}
    <3>1. e \in Pending' /\ e.stroke = s /\ e.step \in Reading
      BY <2>2 DEF At
    <3>2. \/ e \in Pending
          \/ e.stroke = Head(conn).stroke /\ Head(conn).step = "end_expirePoints"
      BY <1>5, <3>1, RelayMoves
    <3> QED BY <2>1, <3>1, <3>2 DEF At, Reading, Closing
  <2> QED BY <1>1, <1>2, <2>1, <2>2, ExecuteLives, StaysAlive
<1>6. CASE Refuse \/ ReadBack
  <2>1. Answering /\ conn' = Tail(conn) /\ cache' = cache
    BY <1>6 DEF Refuse, ReadBack, redisVars
  <2>2. Pending' = Pending \ {Head(conn)}
    BY <2>1, HeadLeaves
  <2>3. At(s, Reading)' \subseteq At(s, Reading)
    BY <2>2 DEF At
  <2> QED BY <1>1, <1>2, <2>1, <2>3, StaysAlive
<1>7. CASE GiveUp \/ Crash
  <2>1. conn' = <<>> /\ cache' = cache
    BY <1>7 DEF GiveUp, Crash, redisVars
  <2>2. At(s, Reading)' = {}
    BY <2>1 DEF At, Pending
  <2> QED BY <1>1, <1>2, <2>1, <2>2, StaysAlive
<1>8. CASE LoseReply
  <2>1. /\ conn[lost + 1] \in Pending /\ Execute(conn[lost + 1]) /\ conn' = conn
    BY <1>8 DEF LoseReply, TypeOK, Pending
  <2>2. At(s, Reading)' = At(s, Reading)
    BY <2>1 DEF At, Pending
  <2> QED BY <1>1, <1>2, <2>1, <2>2, ExecuteLives, StaysAlive
<1>9. CASE \E z \in Stroke : EvictHash(z) \/ EvictPoints(z)
  <2>1. PICK z \in Stroke : EvictHash(z) \/ EvictPoints(z)
    BY <1>9
  <2>2. At(s, Reading)' = At(s, Reading)
    BY <2>1 DEF EvictHash, EvictPoints, At, Pending
  <2>3. CASE s = z /\ EvictHash(z)
    <3>1. "evicted" \in fault'[s]
      BY <2>3 DEF EvictHash, Fault
    <3> QED BY <3>1 DEF Lives
  <2>4. CASE s # z \/ EvictPoints(z)
    <3>1. cache'[s].meta = cache[s].meta
      <4>1. CASE s # z
        BY <1>1, <2>1, <4>1 DEF EvictHash, EvictPoints
      <4>2. CASE EvictPoints(z)
        BY <1>1, <4>2 DEF EvictPoints, CacheEntry
      <4> QED BY <2>4, <4>1, <4>2
    <3> QED BY <1>1, <1>2, <2>2, <3>1, StaysAlive
  <2> QED BY <2>1, <2>3, <2>4
<1>10. CASE UNCHANGED <<conn, cache>>
  <2>1. At(s, Reading)' = At(s, Reading)
    BY <1>10 DEF At, Pending
  <2> QED BY <1>1, <1>2, <1>10, <2>1, StaysAlive
<1>11. EvictActiveStrokes \/ Reconnect \/ UNCHANGED vars
         \/ (\E t \in tasks : Insert(t) \/ InsertFails(t))
       => UNCHANGED <<conn, cache>>
  BY DEF EvictActiveStrokes, Reconnect, vars, Insert, InsertFails, redisVars
<1> QED BY <1>3, <1>4, <1>5, <1>6, <1>7, <1>8, <1>9, <1>10, <1>11, StepCases

\* Once the room was told the end, the only command of a stroke in flight is its reading back.
LEMMA EndedHandlers ==
  ASSUME TypeOK, NEW s \in Stroke, Relays(s), EndsIn(room[s]) # {}, NEW c \in Pending,
         c.stroke = s
  PROVE  c.step = "persist_read"
<1>1. c \in At(s, Step)
  BY PendingType DEF At, Command
<1> QED BY <1>1 DEF Relays, At

\* A step that relays no end and lets nothing in, and keeps the stroke on its way.
LEMMA StaysOnItsWay ==
  ASSUME NEW s \in Stroke, OnItsWay(s), fault[s] \subseteq fault'[s],
         EndsIn(room'[s]) # {} => EndsIn(room[s]) # {} /\ accepted'[s] = accepted[s],
         EndsIn(room[s]) # {} /\ fault'[s] \subseteq {"resent"} =>
           /\ saved[s] # <<>> => saved'[s] # <<>>
           /\ (\E t \in tasks : t.stroke = s)
                => saved'[s] # <<>> \/ \E t \in tasks' : t.stroke = s
           /\ At(s, {"persist_read"}) # {} => At(s, {"persist_read"})' # {}
  PROVE  OnItsWay(s)'
BY DEF OnItsWay

\* What the persistence task reads of a stroke that has a segment goes to PostgreSQL.
LEMMA ReadGoesOn ==
  ASSUME TypeOK, TypeOK', HandlersInOrder, NEW s \in Stroke, Relays(s), Collects(s), Lives(s),
         ReadBack, Head(conn).stroke = s
  PROVE  OnItsWay(s)'
<1>1. /\ Head(conn) \in Pending /\ Head(conn).step = "persist_read" /\ Answering
      /\ UNCHANGED <<fault, room, accepted>>
  BY HeadOrder DEF ReadBack, faultVars
<1> SUFFICES ASSUME EndsIn(room[s]) # {}, accepted[s] # <<>>, fault[s] \subseteq {"resent"}
             PROVE  \E t \in tasks' : t.stroke = s
  BY <1>1 DEF OnItsWay
<1>2. cache[s].meta \in {"active", "completed"}
  <2>1. cache[s].meta \in {"none", "active", "completed", "statusOnly"}
    BY DEF TypeOK, CacheEntry
  <2>2. At(s, Reading) # {}
    BY <1>1 DEF At, Reading
  <2> QED BY <2>1, <2>2 DEF Lives
<1>3. cache[s].points # <<>>
  <2>1. /\ accepted[s] \in Seq(Point) /\ Len(accepted[s]) \in Nat
        /\ DOMAIN accepted[s] = 1..Len(accepted[s])
    BY LenProperties DEF TypeOK
  <2>2. Len(accepted[s]) # 0
    BY <2>1, EmptySeq
  <2>3. 1 \in DOMAIN accepted[s]
    BY <2>1, <2>2
  <2>4. accepted[s][1] \in PointsOf(accepted[s])
    BY <2>3 DEF PointsOf
  <2>5. \A c \in At(s, {"segment_rpush"}) : FALSE
    BY EndedHandlers DEF At
  <2>6. accepted[s][1] \in PointsOf(cache[s].points)
    BY <2>4, <2>5 DEF Collects
  <2> QED BY <2>6 DEF PointsOf
<1>4. [stroke |-> s, points |-> cache[s].points] \in tasks'
  BY <1>1, <1>2, <1>3 DEF ReadBack
<1> QED BY <1>4

\* A handler relays: stroke_end turns into the reading back.
LEMMA RelayOnItsWay ==
  ASSUME TypeOK, TypeOK', HandlersInOrder, NEW s \in Stroke, Relays(s), OnItsWay(s), Relay
  PROVE  OnItsWay(s)'
<1> DEFINE c == Head(conn)
           event == [kind |-> KindOf[c.step], n |-> c.n]
<1>1. /\ c \in Pending /\ c \in Command /\ UNCHANGED <<fault, accepted, tasks, saved>>
      /\ c.step \in {"begin_expire", "segment_expire", "end_expirePoints"}
      /\ room' = [room EXCEPT ![c.stroke] = Append(@, event)]
  BY HeadOrder DEF Relay, KindOf, faultVars
<1>2. CASE c.stroke # s
  <2>1. room'[s] = room[s]
    BY <1>1, <1>2 DEF TypeOK
  <2>2. At(s, {"persist_read"})' = At(s, {"persist_read"})
    BY <1>2, RelayMoves, OtherStroke
  <2> QED BY <1>1, <2>1, <2>2, StaysOnItsWay
<1>3. CASE c.stroke = s /\ c.step = "end_expirePoints"
  <2>1. PICK d \in Command : /\ Pending' = (Pending \ {Head(conn)}) \cup {d}
                             /\ d.stroke = Head(conn).stroke /\ d.step = "persist_read"
    BY <1>3, RelayMoves
  <2>2. d \in At(s, {"persist_read"})'
    BY <1>3, <2>1 DEF At
  <2> QED BY <2>2 DEF OnItsWay
<1>4. CASE c.stroke = s /\ c.step \in {"begin_expire", "segment_expire"}
  <2>1. EndsIn(room[s]) = {}
    BY <1>1, <1>4, EndedHandlers
  <2>2. EndsIn(room'[s]) = EndsIn(room[s])
    <3> DEFINE events == room[s]
               more   == room'[s]
    <3>1. events \in Seq(Event) /\ more = Append(events, event)
      BY <1>1, <1>4 DEF TypeOK
    <3>2. event \in Event /\ event.kind # "end"
      BY <1>1, <1>4 DEF Event, KindOf, Command
    <3> HIDE DEF event, events, more
    <3>3. EndsIn(more) = EndsIn(events)
      BY <3>1, <3>2, AppendedEvent
    <3> QED BY <3>3 DEF events, more
  <2> QED BY <2>1, <2>2 DEF OnItsWay
<1> QED BY <1>1, <1>2, <1>3, <1>4

\* Every step keeps an ended stroke on its way.
LEMMA OnItsWayNext ==
  ASSUME TypeOK, TypeOK', HandlersInOrder, [Next]_vars, NEW s \in Stroke,
         Relays(s), Collects(s), Lives(s), OnItsWay(s)
  PROVE  OnItsWay(s)'
<1>1. fault[s] \subseteq fault'[s]
  BY FaultsGrow
<1>2. /\ tasks \subseteq [stroke : Stroke, points : Seq(Point)]
      /\ saved \in [Stroke -> Seq(Seq(Point))]
  BY DEF TypeOK
<1>3. CASE ClientStep
  <2>1. PICK t \in Stroke : \E c : Arrives(t, c)
    BY <1>3, ClientArrives
  <2>2. PICK c : Arrives(t, c)
    BY <2>1
  <2>3. Pending' = Pending \/ Pending' = Pending \cup {c}
    BY <2>2, ArrivalJoins
  <2>4. UNCHANGED <<room, accepted, saved, tasks>>
    BY <2>2 DEF Arrives
  <2>5. At(s, {"persist_read"}) \subseteq At(s, {"persist_read"})'
    BY <2>3 DEF At
  <2> QED BY <1>1, <2>4, <2>5, StaysOnItsWay
<1>4. CASE Continue
  <2>1. PICK d \in Command :
           /\ Pending' = (Pending \ {Head(conn)}) \cup {d} /\ d.stroke = Head(conn).stroke
    BY <1>4, ContinueMoves
  <2>2. /\ Head(conn) \in Pending /\ Head(conn).step # "persist_read"
        /\ UNCHANGED <<room, saved, tasks>>
        /\ accepted' = IF Head(conn).step = "segment_consume"
                       THEN [accepted EXCEPT ![Head(conn).stroke] = Append(@, Head(conn).n)]
                       ELSE accepted
    BY <1>4, HeadOrder DEF Continue, Continues, Successor
  <2>3. EndsIn(room[s]) # {} => Head(conn).stroke # s
    BY <2>2, EndedHandlers
  <2>4. EndsIn(room[s]) # {} => accepted'[s] = accepted[s]
    BY <2>2, <2>3 DEF TypeOK
  <2>5. At(s, {"persist_read"}) \subseteq At(s, {"persist_read"})'
    BY <2>1, <2>2 DEF At
  <2> QED BY <1>1, <2>2, <2>4, <2>5, StaysOnItsWay
<1>5. CASE Relay
  BY <1>5, RelayOnItsWay
<1>6. CASE Refuse
  <2>1. /\ Answering /\ conn' = Tail(conn) /\ Head(conn).step # "persist_read"
        /\ UNCHANGED <<room, accepted, saved, tasks>>
    BY <1>6 DEF Refuse
  <2>2. Pending' = Pending \ {Head(conn)}
    BY <2>1, HeadLeaves
  <2>3. At(s, {"persist_read"}) \subseteq At(s, {"persist_read"})'
    BY <2>1, <2>2 DEF At
  <2> QED BY <1>1, <2>1, <2>3, StaysOnItsWay
<1>7. CASE ReadBack
  <2>1. CASE Head(conn).stroke = s
    BY <1>7, <2>1, ReadGoesOn
  <2>2. CASE Head(conn).stroke # s
    <3>1. /\ Answering /\ conn' = Tail(conn) /\ UNCHANGED <<room, accepted, saved>>
          /\ tasks \subseteq tasks'
      BY <1>7 DEF ReadBack
    <3>2. Pending' = Pending \ {Head(conn)}
      BY <3>1, HeadLeaves
    <3>3. At(s, {"persist_read"})' = At(s, {"persist_read"})
      BY <2>2, <3>2 DEF At
    <3> QED BY <1>1, <3>1, <3>3, StaysOnItsWay
  <2> QED BY <2>1, <2>2
<1>8. CASE \E t \in tasks : Insert(t) \/ InsertFails(t)
  <2>1. PICK t \in tasks : Insert(t) \/ InsertFails(t)
    BY <1>8
  <2>2. tasks' = tasks \ {t} /\ UNCHANGED <<conn, room, accepted>>
    BY <2>1 DEF Insert, InsertFails
  <2>3. At(s, {"persist_read"})' = At(s, {"persist_read"})
    BY <2>2 DEF At, Pending
  <2>4. CASE Insert(t)
    <3>1. /\ t.stroke \in Stroke /\ t.points \in Seq(Point)
          /\ saved' = [saved EXCEPT ![t.stroke] = Append(@, t.points)]
      BY <1>2, <2>4 DEF Insert
    <3>2. t.stroke = s => saved'[s] # <<>>
      <4>1. saved[s] \in Seq(Seq(Point))
        BY <1>2
      <4>2. t.stroke = s => saved'[s] = Append(saved[s], t.points)
        BY <1>2, <3>1
      <4>3. Append(saved[s], t.points) # <<>>
        BY <3>1, <4>1, AppendProperties
      <4> QED BY <4>2, <4>3
    <3>3. t.stroke # s => saved'[s] = saved[s]
      BY <1>2, <3>1
    <3>4. (\E u \in tasks : u.stroke = s) => saved'[s] # <<>> \/ \E u \in tasks' : u.stroke = s
      BY <2>2, <3>2
    <3>5. saved[s] # <<>> => saved'[s] # <<>>
      BY <3>2, <3>3
    <3> QED BY <1>1, <2>2, <2>3, <3>4, <3>5, StaysOnItsWay
  <2>5. CASE InsertFails(t)
    <3>1. saved' = saved /\ (t.stroke = s => "unsaved" \in fault'[s])
      BY <2>5 DEF InsertFails, Fault
    <3>2. fault'[s] \subseteq {"resent"} =>
            ((\E u \in tasks : u.stroke = s) => \E u \in tasks' : u.stroke = s)
      BY <2>2, <3>1
    <3> QED BY <1>1, <2>2, <2>3, <3>1, <3>2, StaysOnItsWay
  <2> QED BY <2>1, <2>4, <2>5
<1>9. CASE GiveUp \/ Crash
  <2>1. /\ UNCHANGED <<room, accepted, saved>> /\ (s \in InFlight => "aborted" \in fault'[s])
        /\ (\E t \in tasks : t.stroke = s) => tasks' = tasks \/ "aborted" \in fault'[s]
    BY <1>9 DEF GiveUp, Crash, Fault
  <2>2. At(s, {"persist_read"}) # {} => "aborted" \in fault'[s]
    BY <2>1 DEF At, Pending, InFlight
  <2> QED BY <1>1, <2>1, <2>2, StaysOnItsWay
<1>10. CASE UNCHANGED <<conn, room, accepted, saved, tasks>>
  <2>1. At(s, {"persist_read"})' = At(s, {"persist_read"})
    BY <1>10 DEF At, Pending
  <2> QED BY <1>1, <1>10, <2>1, StaysOnItsWay
<1>11. LoseReply \/ EvictActiveStrokes \/ Reconnect \/ UNCHANGED vars
         \/ (\E z \in Stroke : EvictHash(z) \/ EvictPoints(z))
       => UNCHANGED <<conn, room, accepted, saved, tasks>>
  BY DEF LoseReply, EvictActiveStrokes, Reconnect, vars, EvictHash, EvictPoints
<1> QED BY <1>3, <1>4, <1>5, <1>6, <1>7, <1>8, <1>9, <1>10, <1>11, StepCases

\* Nothing is being closed at the start.
LEMMA ArrivingInit == Init => Arriving
<1> SUFFICES ASSUME Init, NEW s \in Stroke PROVE Lives(s) /\ OnItsWay(s)
  BY DEF Arriving
<1>1. cache[s].meta = "none" /\ accepted[s] = <<>> /\ Pending = {}
  BY DEF Init, NoEntry, Pending
<1> QED BY <1>1 DEF Lives, OnItsWay, At

\* A stroke with a segment whose end the room was told is saved, waits for PostgreSQL or is
\* being read back, unless a fault other than a resent command met it: nothing in
\* stroke_end or in its persistence task lets go of it.
THEOREM EndReachesDatabaseHolds == Spec => []EndReachesDatabase
<1> DEFINE Inv == TypeOK /\ HandlersInOrder /\ Relaying /\ Saving /\ Arriving
<1>1. Init => Inv
  BY TypeInit, OrderInit, RelayingInit, SavingInit, ArrivingInit
<1>2. Inv /\ [Next]_vars => Inv'
  <2> SUFFICES ASSUME Inv, [Next]_vars PROVE Inv'
    OBVIOUS
  <2>1. TypeOK' /\ HandlersInOrder' /\ Relaying' /\ Saving'
    BY TypeNext, OrderNext, RelayingNext, SavingNext
  <2>2. ASSUME NEW s \in Stroke PROVE Lives(s)' /\ OnItsWay(s)'
    <3>1. Relays(s) /\ Collects(s) /\ Lives(s) /\ OnItsWay(s)
      BY DEF Relaying, Saving, Arriving
    <3> QED BY <2>1, <3>1, LivesNext, OnItsWayNext
  <2> QED BY <2>1, <2>2 DEF Arriving
<1>3. Inv => EndReachesDatabase
  BY DEF Arriving, EndReachesDatabase
<1> QED BY <1>1, <1>2, <1>3, PTL DEF Spec

=============================================================================
