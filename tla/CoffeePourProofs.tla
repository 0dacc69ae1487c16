---------------------------- MODULE CoffeePourProofs ----------------------------
(***************************************************************************)
(* Type correctness of CoffeePour, its safety invariants, that it          *)
(* implements PourPromise, and that no await of it is in vain, for any set *)
(* of pours and of strokes and any number of faults.                       *)
(*                                                                         *)
(* A handler works on what it read a while ago, so the invariants say what *)
(* has stayed true of that since: what it holds of a stroke is no later    *)
(* than the stroke, a stroke it takes for dead stays dead, the breaker     *)
(* still counts its call, and a pour is in a list of the shutdown or of    *)
(* PostgreSQL only once its stain was shown.                               *)
(***************************************************************************)
EXTENDS CoffeePour, CoffeePhysicsProofs

\* An outcome is the end of a handler, and the handlers that were not sent have none.
OutcomeIsEnd == \A p \in Pour : pour[p].outcome # "none" => pour[p].at = "done"

\* What PostgreSQL has, is given, has failed to take or is waited for was shown.
TasksWereShown == \A p \in tasks \cup saved \cup unsaved \cup flush : pour[p].outcome = "simulated"

\* The shutdown goes on only after the tasks it waits for, or after their time.
FlushIsOver == server = "quitting" => flush \cap tasks \subseteq unsaved

\* A cached stain that was not shown: the answer to LPUSH or EXPIRE never came.
CachedWhen ==
  \A p \in stains.list :
    \/ pour[p].outcome = "simulated"
    \/ pour[p].at \in {"expire", "dead"}
    \/ link = "closed" /\ (pour[p].at = "lpush" \/ pour[p].outcome = "simplified")

\* A stroke is in Redis only once it was begun, and a pour reads only those.
OnlyBegun ==
  /\ \A s \in hash \cup listed : pen[s] # "new"
  /\ \A p \in Pour : \A s \in pour[p].todo \cup pour[p].next : pen[s] # "new"

\* A stroke found without its hash never has one again.
DeadStaysDead == \A p \in Pour : pour[p].at = "srem" => pour[p].next \cap hash = {}

\* Whatever is read or still to read was listed, with no more points than it had since.
ReadIsListed ==
  \A p \in Pour :
    /\ pour[p].todo \cup pour[p].next \subseteq DOMAIN pour[p].floor
    /\ \A s \in DOMAIN pour[p].floor : NoLaterThan(pour[p].floor[s], points[s])
    /\ pour[p].at \in {"unsent", "limiter", "members"} => DOMAIN pour[p].seen = {}

\* While half open the breaker has either its trial left or the one call under way.
TrialOrCall ==
  breaker.state = "halfOpen" =>
    /\ breaker.trial => \A p \in Pour : pour[p].at # "physics"
    /\ \A p, q \in Pour : pour[p].at = "physics" /\ pour[q].at = "physics" => p = q

Invariant ==
  /\ TypeOK /\ OutcomeIsEnd /\ TasksWereShown /\ FlushIsOver /\ NoStainForgotten
  /\ CachedWhen /\ OnlyBegun /\ DeadStaysDead /\ CleanupSparesStrokes
  /\ ReadIsListed /\ SnapshotIsRecent /\ TrialOrCall

-----------------------------------------------------------------------------
(* Types.                                                                  *)

USE PourAssumption

\* Strokes have so many points.
LEMMA LengthIs == \A s \in Drawing : Len(s.path) \in Nat
BY DrawingAssumption

USE LengthIs

\* What is known of a stretch.
LEMMA StretchIs ==
  ASSUME NEW s \in Drawing
  PROVE  /\ \A w \in Stretches(s) : /\ w \in [from : Nat, to : Nat]
                                    /\ w.from <= w.to /\ w.to <= Len(s.path)
         /\ Nothing \in Stretches(s) /\ [from |-> 0, to |-> Len(s.path)] \in Stretches(s)
BY DEF Stretches, Nothing

\* A snapshot is a function from strokes to stretches of theirs.
LEMMA SnapshotType ==
  ASSUME NEW S \in SUBSET Drawing, NEW r, r = [s \in S |-> r[s]],
         \A s \in S : r[s] \in Stretches(s)
  PROVE  r \in Snapshots
<1> DEFINE stretches == UNION {Stretches(s) : s \in Drawing}
<1>1. \A s \in S : r[s] \in stretches
  OBVIOUS
<1>2. r \in [S -> stretches]
  <2> HIDE DEF stretches
  <2> QED
    BY <1>1
<1> QED
  BY <1>2 DEF Snapshots

\* What is known of a snapshot.
LEMMA SnapshotIs ==
  ASSUME NEW r \in Snapshots
  PROVE  /\ DOMAIN r \in SUBSET Drawing /\ r = [s \in DOMAIN r |-> r[s]]
         /\ \A s \in DOMAIN r : r[s] \in Stretches(s)
<1> DEFINE stretches == UNION {Stretches(s) : s \in Drawing}
<1>1. PICK S \in SUBSET Drawing : r \in [S -> stretches]
  BY DEF Snapshots
<1>2. \A s \in DOMAIN r : r[s] \in Stretches(s)
  BY DEF Snapshots
<1> HIDE DEF stretches
<1> QED
  BY <1>1, <1>2

\* Later is later still: the order of the readings of one stroke.
LEMMA LaterIsLater ==
  /\ \A w \in [from : Nat, to : Nat] : NoLaterThan(w, w)
  /\ \A u, v, w \in [from : Nat, to : Nat] :
       NoLaterThan(u, v) /\ NoLaterThan(v, w) => NoLaterThan(u, w)
BY DEF NoLaterThan

\* What SMEMBERS and LRANGE make of one.
LEMMA ListedType == TypeOK => [s \in listed |-> points[s]] \in Snapshots
<1> SUFFICES ASSUME TypeOK PROVE [s \in listed |-> points[s]] \in Snapshots
  OBVIOUS
<1> DEFINE r == [s \in listed |-> points[s]]
<1>1. listed \in SUBSET Drawing
  BY DEF TypeOK
<1>2. r = [s \in listed |-> r[s]] /\ \A s \in listed : r[s] \in Stretches(s)
  BY <1>1 DEF TypeOK
<1> HIDE DEF r
<1>3. r \in Snapshots
  BY <1>1, <1>2, SnapshotType
<1> QED
  BY <1>3 DEF r

\* A snapshot that takes the points of some strokes from the canvas is a snapshot.
LEMMA ReadType ==
  ASSUME TypeOK, NEW r \in Snapshots, NEW S \in SUBSET Drawing
  PROVE  [s \in DOMAIN r \cup S |-> IF s \in S THEN points[s] ELSE r[s]] \in Snapshots
<1> DEFINE D == DOMAIN r \cup S
           seen == [s \in D |-> IF s \in S THEN points[s] ELSE r[s]]
<1>1. D \in SUBSET Drawing
  BY SnapshotIs
<1>2. seen = [s \in D |-> seen[s]]
  OBVIOUS
<1>3. ASSUME NEW s \in D PROVE seen[s] \in Stretches(s)
  <2>1. CASE s \in S
    BY <2>1 DEF TypeOK
  <2>2. CASE s \notin S
    BY <2>2, SnapshotIs
  <2> QED
    BY <2>1, <2>2
<1> HIDE DEF D, seen
<1>4. seen \in Snapshots
  BY <1>1, <1>2, <1>3, SnapshotType
<1> QED
  BY <1>4 DEF seen, D

\* There is one without strokes.
LEMMA NoStrokesType == NoStrokes \in Snapshots /\ DOMAIN NoStrokes = {}
<1>1. NoStrokes = [s \in {} |-> NoStrokes[s]]
  BY DEF NoStrokes
<1> QED
  BY <1>1, SnapshotType DEF NoStrokes

\* Handlers that have not begun or are at their end.
LEMMA EndType ==
  /\ Unsent \in Handler /\ [Unsent EXCEPT !.at = "dead"] \in Handler
  /\ \A outcome \in Outcome : Finish(outcome) \in Handler
  /\ Simplified \in Handler
BY NoStrokesType DEF Unsent, Finish, Simplified, Handler, Outcome

\* The handler of one pour changes and no other.
LEMMA SetOne ==
  ASSUME TypeOK, NEW p \in Pour, NEW h, Set(p, h)
  PROVE  /\ pour'[p] = h /\ \A q \in Pour \ {p} : pour'[q] = pour[q]
         /\ h \in Handler => pour' \in [Pour -> Handler]
BY DEF TypeOK, Set

\* Going on to the next stroke or to the physics service.
LEMMA ReadOnType ==
  ASSUME TypeOK, NEW p \in Pour, NEW h \in Handler, ReadOn(p, h)
  PROVE  /\ pour' \in [Pour -> Handler]
         /\ breaker' \in [state : {"closed", "open", "halfOpen"}, trial : BOOLEAN]
<1>1. CASE Set(p, [h EXCEPT !.at = "meta", !.next = {}]) /\ UNCHANGED breaker
  <2>1. [h EXCEPT !.at = "meta", !.next = {}] \in Handler
    BY DEF Handler, Await
  <2> QED
    BY <1>1, <2>1, SetOne DEF TypeOK
<1>2. CASE Set(p, Simplified) /\ UNCHANGED breaker
  BY <1>2, EndType, SetOne DEF TypeOK
<1>3. CASE Set(p, [h EXCEPT !.at = "physics", !.next = {}]) /\ breaker' = Fired
  <2>1. [h EXCEPT !.at = "physics", !.next = {}] \in Handler
    BY DEF Handler, Await
  <2> QED
    BY <1>3, <2>1, SetOne DEF TypeOK, Fired
<1> QED
  BY <1>1, <1>2, <1>3 DEF ReadOn

\* A call that fails leaves the breaker typed.
LEMMA FailedType ==
  ASSUME TypeOK, NEW p \in Pour, Failed(p)
  PROVE  breaker' \in [state : {"closed", "open", "halfOpen"}, trial : BOOLEAN]
<1>1. CASE breaker' = [state |-> "open", trial |-> FALSE]
  BY <1>1
<1>2. CASE UNCHANGED breaker
  BY <1>2 DEF TypeOK
<1> QED
  BY <1>1, <1>2 DEF Failed

\* The state at the start is well typed.
LEMMA TypeInit == Init => TypeOK
<1> SUFFICES ASSUME Init PROVE TypeOK
  OBVIOUS
<1>1. pour \in [Pour -> Handler]
  BY EndType DEF Init
<1>2. points \in [Drawing -> [from : Nat, to : Nat]] /\ \A s \in Drawing : points[s] \in Stretches(s)
  <2>1. ASSUME NEW s \in Drawing
        PROVE  points[s] \in Stretches(s) /\ points[s] \in [from : Nat, to : Nat]
    BY StretchIs DEF Init, Nothing
  <2>2. points = [s \in Drawing |-> points[s]]
    BY DEF Init
  <2> QED
    BY <2>1, <2>2
<1>3. /\ hash \subseteq Drawing /\ listed \subseteq Drawing /\ unlisted \subseteq Drawing
      /\ pen \in [Drawing -> {"new", "down", "up"}]
      /\ stains \in [list : SUBSET Pour, ttl : BOOLEAN]
      /\ breaker \in [state : {"closed", "open", "halfOpen"}, trial : BOOLEAN]
  BY DEF Init
<1>4. faults \in 0..MaxFaults
  BY DEF Init
<1> HIDE PourAssumption, LengthIs
<1> QED
  BY <1>1, <1>2, <1>3, <1>4 DEF Init, TypeOK

\* What drawing and eviction do to the points of a stroke.
LEMMA PointsGrow ==
  ASSUME TypeOK, NEW s \in Drawing, Draw(s) \/ EvictPoints(s)
  PROVE  /\ points' \in [Drawing -> [from : Nat, to : Nat]]
         /\ \A d \in Drawing : points'[d] \in Stretches(d) /\ NoLaterThan(points[d], points'[d])
<1>1. /\ points \in [Drawing -> [from : Nat, to : Nat]]
      /\ points[s] \in [from : Nat, to : Nat] /\ points[s].from <= points[s].to
      /\ \A d \in Drawing : points[d] \in Stretches(d)
  BY StretchIs DEF TypeOK
<1> DEFINE w == points'[s]
<1>2. CASE Draw(s)
  <2>1. points[s].to < Len(s.path) /\ points' = [points EXCEPT ![s].to = @ + 1]
    BY <1>2 DEF Draw
  <2>2. w = [from |-> points[s].from, to |-> points[s].to + 1]
    BY <1>1, <2>1
  <2>3. w \in [from : Nat, to : Nat] /\ w \in Stretches(s) /\ NoLaterThan(points[s], w)
    BY <1>1, <2>1, <2>2 DEF Stretches, NoLaterThan
  <2>4. \A d \in Drawing \ {s} : points'[d] = points[d]
    BY <1>1, <2>1
  <2>5. points' \in [Drawing -> [from : Nat, to : Nat]]
    BY <1>1, <2>1, <2>2, <2>3
  <2> HIDE DEF w
  <2> QED
    BY <1>1, <2>3, <2>4, <2>5, LaterIsLater DEF w
<1>3. CASE EvictPoints(s)
  <2>1. points' = [points EXCEPT ![s].from = points[s].to]
    BY <1>3 DEF EvictPoints
  <2>2. w = [from |-> points[s].to, to |-> points[s].to]
    BY <1>1, <2>1
  <2>3. w \in [from : Nat, to : Nat] /\ w \in Stretches(s) /\ NoLaterThan(points[s], w)
    BY <1>1, <2>2, StretchIs DEF Stretches, NoLaterThan
  <2>4. \A d \in Drawing \ {s} : points'[d] = points[d]
    BY <1>1, <2>1
  <2>5. points' \in [Drawing -> [from : Nat, to : Nat]]
    BY <1>1, <2>1, <2>2, <2>3
  <2> HIDE DEF w
  <2> QED
    BY <1>1, <2>3, <2>4, <2>5, LaterIsLater DEF w
<1> QED
  BY <1>2, <1>3

\* The strokes keep the types.
LEMMA StrokeType ==
  ASSUME TypeOK, NEW s \in Drawing,
         Begin(s) \/ Draw(s) \/ End(s) \/ EvictHash(s) \/ EvictPoints(s)
  PROVE  TypeOK'
<1>1. CASE Begin(s)
  BY <1>1 DEF TypeOK, Begin, taskVars, serverVars
<1>2. CASE Draw(s)
  BY <1>2, PointsGrow DEF TypeOK, Draw, taskVars, serverVars
<1>3. CASE End(s)
  BY <1>3 DEF TypeOK, End, taskVars, serverVars
<1>4. CASE EvictHash(s)
  BY <1>4 DEF TypeOK, EvictHash, Fault, taskVars, serverVars
<1>5. CASE EvictPoints(s)
  <2>1. /\ points' \in [Drawing -> [from : Nat, to : Nat]]
        /\ \A d \in Drawing : points'[d] \in Stretches(d)
    BY <1>5, PointsGrow
  <2>2. /\ faults' \in 0..MaxFaults
        /\ UNCHANGED <<pour, hash, listed, unlisted, pen, stains, breaker, tasks, saved,
                       unsaved, link, server, flush, silent>>
    BY <1>5 DEF TypeOK, EvictPoints, Fault, taskVars, serverVars
  <2> QED
    BY <2>1, <2>2 DEF TypeOK
<1> QED
  BY <1>1, <1>2, <1>3, <1>4, <1>5

\* So does the handler of a pour.
LEMMA HandleType ==
  ASSUME TypeOK, NEW p \in Pour, Send(p) \/ Handle(p)
  PROVE  TypeOK'
<1> DEFINE h == pour[p]
<1>1. h \in Handler
  BY DEF TypeOK
<1>2. /\ h.outcome \in {"none"} \cup Outcome
      /\ h.todo \in SUBSET Drawing /\ h.next \in SUBSET Drawing
      /\ h.seen \in Snapshots /\ h.floor \in Snapshots
  BY <1>1 DEF Handler
<1> HIDE DEF h
<1>3. ASSUME NEW a \in Await, Set(p, [h EXCEPT !.at = a])
      PROVE  pour' \in [Pour -> Handler]
  <2>1. [h EXCEPT !.at = a] \in Handler
    BY <1>1 DEF Handler
  <2> QED
    BY <1>3, <2>1, SetOne
<1>4. CASE Send(p)
  BY <1>3, <1>4 DEF TypeOK, Send, Await, canvasVars, taskVars, serverVars, h
<1>5. CASE Consume(p)
  <2>1. pour' \in [Pour -> Handler]
    BY <1>3, <1>5, EndType, SetOne DEF Consume, h, Await, Outcome
  <2> QED
    BY <1>5, <2>1 DEF TypeOK, Consume, canvasVars, taskVars, serverVars
<1>6. CASE Members(p)
  <2> DEFINE g == [h EXCEPT !.todo = listed, !.floor = [s \in listed |-> points[s]]]
  <2>1. [s \in listed |-> points[s]] \in Snapshots
    BY ListedType
  <2>2. g \in Handler
    BY <1>1, <2>1 DEF Handler, TypeOK
  <2>3. ReadOn(p, g)
    BY <1>6 DEF Members, h
  <2> HIDE DEF g
  <2> QED
    BY <1>6, <2>2, <2>3, ReadOnType DEF TypeOK, Members, canvasVars, taskVars, serverVars
<1>7. ASSUME NEW s \in Drawing, Meta(p, s) PROVE TypeOK'
  <2> DEFINE g == [h EXCEPT !.at = IF s \in hash THEN "points" ELSE "srem",
                            !.todo = @ \ {s}, !.next = {s}]
  <2>1. g \in Handler
    BY <1>1, <1>2 DEF Handler, Await
  <2>2. Set(p, g)
    BY <1>7 DEF Meta, h
  <2> HIDE DEF g
  <2> QED
    BY <1>7, <2>1, <2>2, SetOne DEF TypeOK, Meta, canvasVars, taskVars, serverVars
<1>8. CASE Srem(p)
  <2>1. ReadOn(p, h)
    BY <1>8 DEF Srem, h
  <2> QED
    BY <1>1, <1>8, <2>1, ReadOnType DEF TypeOK, Srem, canvasVars, taskVars, serverVars
<1>9. CASE Points(p)
  <2> DEFINE seen == [s \in DOMAIN h.seen \cup h.next |->
                        IF s \in h.next THEN points[s] ELSE h.seen[s]]
             g == [h EXCEPT !.seen = seen]
  <2>1. seen \in Snapshots
    BY <1>2, ReadType
  <2>2. g \in Handler
    BY <1>1, <2>1 DEF Handler
  <2>3. ReadOn(p, g)
    BY <1>9 DEF Points, h
  <2> HIDE DEF g
  <2> QED
    BY <1>9, <2>2, <2>3, ReadOnType DEF TypeOK, Points, canvasVars, taskVars, serverVars
<1>10. CASE Answered(p)
  <2>1. CASE Set(p, [h EXCEPT !.at = "lpush"]) /\ breaker' = Succeeded
    BY <1>3, <1>10, <2>1 DEF TypeOK, Answered, Succeeded, Await, canvasVars, taskVars, serverVars
  <2>2. CASE Set(p, Simplified) /\ Failed(p)
    BY <1>10, <2>2, EndType, SetOne, FailedType
    DEF TypeOK, Answered, canvasVars, taskVars, serverVars
  <2> QED
    BY <1>10, <2>1, <2>2 DEF Answered, h
<1>11. CASE Unanswered(p)
  BY <1>11, EndType, SetOne, FailedType DEF TypeOK, Unanswered, canvasVars, taskVars, serverVars
<1>12. CASE Lpush(p)
  BY <1>3, <1>12 DEF TypeOK, Lpush, Await, canvasVars, taskVars, serverVars, h
<1>13. CASE Expire(p)
  BY <1>13, EndType, SetOne DEF TypeOK, Expire, Outcome, canvasVars, taskVars, serverVars
<1>14. CASE RedisFails(p)
  BY <1>14, EndType, SetOne DEF TypeOK, RedisFails, Outcome, canvasVars, taskVars, serverVars
<1> QED
  BY <1>4, <1>5, <1>6, <1>7, <1>8, <1>9, <1>10, <1>11, <1>12, <1>13, <1>14 DEF Handle

\* So do the breaker, PostgreSQL, the connection, the shutdown and the other evictions.
LEMMA ProcessType ==
  ASSUME TypeOK,
         \/ EvictActiveStrokes \/ EvictStains
         \/ OpenedElsewhere \/ HalfOpen \/ GiveUp \/ Shutdown \/ Terminate
         \/ \E p \in Pour : Persist(p) \/ PersistFails(p)
  PROVE  TypeOK'
<1>1. CASE OpenedElsewhere
  BY <1>1 DEF TypeOK, OpenedElsewhere, Fault, canvasVars, taskVars, serverVars
<1>2. CASE HalfOpen
  BY <1>2 DEF TypeOK, HalfOpen, canvasVars, taskVars, serverVars
<1>3. CASE GiveUp
  <2>1. stains' \in [list : SUBSET Pour, ttl : BOOLEAN]
    BY <1>3 DEF TypeOK, GiveUp
  <2> QED
    BY <1>3, <2>1 DEF TypeOK, GiveUp, Fault, canvasVars, taskVars, serverVars
<1>4. CASE Shutdown
  BY <1>4 DEF TypeOK, Shutdown, Fault, canvasVars, taskVars
<1>5. CASE CloseSockets \/ Flushed \/ FlushTimeout \/ Quit
  BY <1>5 DEF TypeOK, CloseSockets, Flushed, FlushTimeout, Quit, canvasVars, taskVars, serverVars
<1>6. CASE Exit
  <2>1. pour' \in [Pour -> Handler]
    BY <1>6, EndType DEF TypeOK, Exit
  <2> QED
    BY <1>6, <2>1 DEF TypeOK, Exit, canvasVars
<1>7. ASSUME NEW p \in Pour, Persist(p) \/ PersistFails(p) PROVE TypeOK'
  BY <1>7 DEF TypeOK, Persist, PersistFails, Fault, canvasVars, serverVars
<1>8. CASE EvictActiveStrokes
  BY <1>8 DEF TypeOK, EvictActiveStrokes, Fault, taskVars, serverVars
<1>9. CASE EvictStains
  BY <1>9 DEF TypeOK, EvictStains, Fault, canvasVars, taskVars, serverVars
<1> QED
  BY <1>1, <1>2, <1>3, <1>4, <1>5, <1>6, <1>7, <1>8, <1>9 DEF Terminate

\* Stuttering keeps the types.
LEMMA TypeStutters == TypeOK /\ UNCHANGED vars => TypeOK'
BY DEF TypeOK, vars, canvasVars, taskVars, serverVars

\* Every step keeps the types.
LEMMA TypeStep == TypeOK /\ [Next]_vars => TypeOK'
BY StrokeType, HandleType, ProcessType, TypeStutters DEF Next

\* Every variable has its type, and a snapshot has of each stroke a stretch of its path.
THEOREM TypeCorrect == Spec => []TypeOK
BY TypeInit, TypeStep, PTL DEF Spec

-----------------------------------------------------------------------------
(* The handlers' steps.                                                    *)

\* A handler at its end holds nothing.
LEMMA EndIs ==
  /\ \A outcome \in Outcome :
       /\ Finish(outcome).at = "done" /\ Finish(outcome).outcome = outcome
       /\ Finish(outcome).todo = {} /\ Finish(outcome).next = {}
       /\ DOMAIN Finish(outcome).seen = {} /\ DOMAIN Finish(outcome).floor = {}
  /\ Simplified = Finish("simplified") /\ "simplified" \in Outcome
BY NoStrokesType DEF Unsent, Finish, Simplified, Outcome

\* What a handler is after it went on.
LEMMA ReadOnIs ==
  ASSUME TypeOK, NEW p \in Pour, NEW h \in Handler, ReadOn(p, h)
  PROVE  /\ \A q \in Pour \ {p} : pour'[q] = pour[q]
         /\ \/ pour'[p] = Simplified /\ UNCHANGED breaker
            \/ /\ pour'[p].outcome = h.outcome
               /\ pour'[p].todo = h.todo /\ pour'[p].next = {}
               /\ pour'[p].seen = h.seen /\ pour'[p].floor = h.floor
               /\ \/ pour'[p].at = "meta" /\ UNCHANGED breaker
                  \/ pour'[p].at = "physics" /\ ~Rejects /\ breaker' = Fired
<1>1. CASE Set(p, [h EXCEPT !.at = "meta", !.next = {}]) /\ UNCHANGED breaker
  <2> DEFINE g == [h EXCEPT !.at = "meta", !.next = {}]
  <2>1. /\ g.at = "meta" /\ g.outcome = h.outcome /\ g.todo = h.todo /\ g.next = {}
        /\ g.seen = h.seen /\ g.floor = h.floor
    BY DEF Handler
  <2> HIDE DEF g
  <2>2. pour'[p] = g /\ \A q \in Pour \ {p} : pour'[q] = pour[q]
    BY <1>1, SetOne DEF g
  <2> QED
    BY <1>1, <2>1, <2>2
<1>2. CASE Set(p, Simplified) /\ UNCHANGED breaker
  BY <1>2, SetOne
<1>3. CASE ~Rejects /\ Set(p, [h EXCEPT !.at = "physics", !.next = {}]) /\ breaker' = Fired
  <2> DEFINE g == [h EXCEPT !.at = "physics", !.next = {}]
  <2>1. /\ g.at = "physics" /\ g.outcome = h.outcome /\ g.todo = h.todo /\ g.next = {}
        /\ g.seen = h.seen /\ g.floor = h.floor
    BY DEF Handler
  <2> HIDE DEF g
  <2>2. pour'[p] = g /\ \A q \in Pour \ {p} : pour'[q] = pour[q]
    BY <1>3, SetOne DEF g
  <2> QED
    BY <1>3, <2>1, <2>2
<1> QED
  BY <1>1, <1>2, <1>3 DEF ReadOn

\* The handlers of Members, Srem and Points when they go on.
LEMMA ReadingIs ==
  ASSUME TypeOK, NEW p \in Pour, Members(p) \/ Srem(p) \/ Points(p)
  PROVE  \E h \in Handler :
           /\ ReadOn(p, h) /\ h.outcome = pour[p].outcome /\ h.next = pour[p].next
           /\ Members(p) => /\ h.todo = listed /\ h.floor = [s \in listed |-> points[s]]
                            /\ h.seen = pour[p].seen
           /\ Srem(p) => h = pour[p]
           /\ Points(p) => /\ h.todo = pour[p].todo /\ h.floor = pour[p].floor
                           /\ h.seen = [s \in DOMAIN pour[p].seen \cup pour[p].next |->
                                IF s \in pour[p].next THEN points[s] ELSE pour[p].seen[s]]
<1> DEFINE h == pour[p]
<1>1. /\ h \in Handler /\ h.todo \in SUBSET Drawing /\ h.next \in SUBSET Drawing
      /\ h.seen \in Snapshots /\ h.floor \in Snapshots
  BY DEF TypeOK, Handler
<1> HIDE DEF h
<1>2. /\ Members(p) => h.at = "members"
      /\ Srem(p) => h.at = "srem"
      /\ Points(p) => h.at = "points"
  BY DEF Members, Srem, Points, h
<1>3. CASE Members(p)
  <2> DEFINE r == [s \in listed |-> points[s]]
             g == [h EXCEPT !.todo = listed, !.floor = r]
  <2>1. r \in Snapshots
    BY ListedType
  <2>2. g \in Handler /\ g.todo = listed /\ g.floor = r /\ g.seen = h.seen
        /\ g.outcome = h.outcome /\ g.next = h.next
    BY <1>1, <2>1 DEF Handler, TypeOK
  <2>3. ReadOn(p, g)
    BY <1>3 DEF Members, h
  <2> HIDE DEF g
  <2>4. ~Srem(p) /\ ~Points(p)
    BY <1>2, <1>3
  <2> QED
    BY <2>2, <2>3, <2>4 DEF h
<1>4. CASE Srem(p)
  <2>1. ReadOn(p, h) /\ ~Members(p) /\ ~Points(p)
    BY <1>2, <1>4 DEF Srem, h
  <2> QED
    BY <1>1, <2>1 DEF h
<1>5. CASE Points(p)
  <2> DEFINE r == [s \in DOMAIN h.seen \cup h.next |->
                     IF s \in h.next THEN points[s] ELSE h.seen[s]]
             g == [h EXCEPT !.seen = r]
  <2>1. r \in Snapshots
    BY <1>1, ReadType
  <2>2. g \in Handler /\ g.todo = h.todo /\ g.floor = h.floor /\ g.seen = r
        /\ g.outcome = h.outcome /\ g.next = h.next
    BY <1>1, <2>1 DEF Handler
  <2>3. ReadOn(p, g)
    BY <1>5 DEF Points, h
  <2> HIDE DEF g
  <2>4. ~Members(p) /\ ~Srem(p)
    BY <1>2, <1>5
  <2> QED
    BY <2>2, <2>3, <2>4 DEF h
<1> QED
  BY <1>3, <1>4, <1>5

-----------------------------------------------------------------------------
(* Stains: shown, cached, kept.                                            *)

Kept == OutcomeIsEnd /\ TasksWereShown /\ FlushIsOver /\ NoStainForgotten /\ CachedWhen

\* A handler that goes on, or ends with a plain stain or a refusal, breaks none of it.
LEMMA QuietKeeps ==
  ASSUME TypeOK, Kept, NEW p \in Pour, pour[p].at # "done",
         \A q \in Pour \ {p} : pour'[q] = pour[q],
         pour'[p].outcome # "simulated",
         pour'[p].outcome # "none" => pour'[p].at = "done",
         p \in stains.list => link = "closed" /\ pour'[p].outcome = "simplified",
         UNCHANGED <<stains, taskVars, serverVars, link>>
  PROVE  Kept'
<1>1. pour[p].outcome = "none"
  BY DEF Kept, OutcomeIsEnd
<1>2. p \notin tasks \cup saved \cup unsaved \cup flush
  BY <1>1 DEF Kept, TasksWereShown
<1>3. OutcomeIsEnd'
  BY DEF Kept, OutcomeIsEnd
<1>4. TasksWereShown'
  BY <1>2 DEF Kept, TasksWereShown, TypeOK, taskVars, serverVars
<1>5. FlushIsOver'
  BY DEF Kept, FlushIsOver, taskVars, serverVars
<1>6. NoStainForgotten'
  BY DEF Kept, NoStainForgotten, taskVars, serverVars
<1>7. CachedWhen'
  BY DEF Kept, CachedWhen, TypeOK
<1> QED
  BY <1>3, <1>4, <1>5, <1>6, <1>7 DEF Kept

\* Of the stains that are cached, none belongs to a handler that has yet to come to LPUSH.
LEMMA NotCached ==
  ASSUME Kept, NEW p \in Pour,
         pour[p].at \in {"unsent", "limiter", "members", "meta", "srem", "points", "physics"}
  PROVE  p \notin stains.list /\ pour[p].at # "done" /\ pour[p].outcome = "none"
BY DEF Kept, CachedWhen, OutcomeIsEnd

\* Handling a pour keeps what Kept says.
LEMMA HandleKept ==
  ASSUME TypeOK, Kept, NEW p \in Pour, Send(p) \/ Handle(p)
  PROVE  Kept'
<1> DEFINE h == pour[p]
<1>1. h \in Handler
  BY DEF TypeOK
<1>2. /\ Simplified.at = "done" /\ Simplified.outcome = "simplified"
      /\ Finish("refused").at = "done" /\ Finish("refused").outcome = "refused"
      /\ Finish("simulated").at = "done" /\ Finish("simulated").outcome = "simulated"
  BY EndIs DEF Outcome
<1>3. CASE Send(p)
  <2>1. h.at = "unsent" /\ UNCHANGED <<stains, taskVars, serverVars, link>>
    BY <1>3 DEF Send
  <2>2. Set(p, [h EXCEPT !.at = "limiter"])
    BY <1>3 DEF Send
  <2>3. [h EXCEPT !.at = "limiter"].outcome = h.outcome
    BY <1>1 DEF Handler
  <2>4. pour'[p].outcome = h.outcome /\ \A q \in Pour \ {p} : pour'[q] = pour[q]
    BY <2>2, <2>3, SetOne
  <2> QED
    BY <2>1, <2>4, NotCached, QuietKeeps
<1>4. CASE Consume(p)
  <2>1. h.at = "limiter" /\ UNCHANGED <<stains, taskVars, serverVars, link>>
    BY <1>4 DEF Consume
  <2>2. \A q \in Pour \ {p} : pour'[q] = pour[q]
    BY <1>4, SetOne DEF Consume
  <2>3. pour'[p] = Finish("refused") \/ pour'[p].outcome = h.outcome
    BY <1>1, <1>4, SetOne DEF Consume, Handler
  <2> QED
    BY <1>2, <2>1, <2>2, <2>3, NotCached, QuietKeeps
<1>5. CASE Members(p) \/ Srem(p) \/ Points(p)
  <2>1. h.at \in {"members", "srem", "points"} /\ UNCHANGED <<stains, taskVars, serverVars, link>>
    BY <1>5 DEF Members, Srem, Points
  <2>2. PICK g \in Handler : ReadOn(p, g) /\ g.outcome = h.outcome
    BY <1>5, ReadingIs
  <2>3. /\ \A q \in Pour \ {p} : pour'[q] = pour[q]
        /\ pour'[p] = Simplified \/ pour'[p].outcome = h.outcome
    BY <2>2, ReadOnIs
  <2> QED
    BY <1>2, <2>1, <2>3, NotCached, QuietKeeps
<1>6. ASSUME NEW s \in Drawing, Meta(p, s) PROVE Kept'
  <2>1. h.at = "meta" /\ UNCHANGED <<stains, taskVars, serverVars, link>>
    BY <1>6 DEF Meta
  <2> DEFINE g == [h EXCEPT !.at = IF s \in hash THEN "points" ELSE "srem",
                            !.todo = @ \ {s}, !.next = {s}]
  <2>2. g.outcome = h.outcome
    BY <1>1 DEF Handler
  <2>3. Set(p, g)
    BY <1>6 DEF Meta
  <2> HIDE DEF g
  <2>4. pour'[p].outcome = h.outcome /\ \A q \in Pour \ {p} : pour'[q] = pour[q]
    BY <2>2, <2>3, SetOne
  <2> QED
    BY <2>1, <2>4, NotCached, QuietKeeps
<1>7. CASE Answered(p) \/ Unanswered(p)
  <2>1. h.at = "physics" /\ UNCHANGED <<stains, taskVars, serverVars, link>>
    BY <1>7 DEF Answered, Unanswered
  <2>2. Set(p, Simplified) \/ Set(p, [h EXCEPT !.at = "lpush"])
    BY <1>7 DEF Answered, Unanswered
  <2>3. /\ \A q \in Pour \ {p} : pour'[q] = pour[q]
        /\ pour'[p] = Simplified \/ pour'[p].outcome = h.outcome
    BY <1>1, <2>2, SetOne DEF Handler
  <2> QED
    BY <1>2, <2>1, <2>3, NotCached, QuietKeeps
<1>8. CASE Lpush(p)
  <2>1. /\ h.at = "lpush" /\ UNCHANGED <<taskVars, serverVars, link>>
        /\ stains'.list = stains.list \cup {p}
    BY <1>8 DEF Lpush, TypeOK
  <2>2. pour'[p].at = "expire" /\ pour'[p].outcome = h.outcome /\ \A q \in Pour \ {p} : pour'[q] = pour[q]
    BY <1>1, <1>8, SetOne DEF Lpush, Handler
  <2>3. h.outcome = "none"
    BY <2>1 DEF Kept, OutcomeIsEnd
  <2>4. OutcomeIsEnd' /\ TasksWereShown' /\ FlushIsOver' /\ NoStainForgotten'
    BY <2>1, <2>2, <2>3
    DEF Kept, OutcomeIsEnd, TasksWereShown, FlushIsOver, NoStainForgotten, TypeOK, taskVars, serverVars
  <2>5. CachedWhen'
    BY <2>1, <2>2 DEF Kept, CachedWhen, TypeOK
  <2> QED
    BY <2>4, <2>5 DEF Kept
<1>9. CASE Expire(p)
  <2>1. /\ h.at = "expire" /\ UNCHANGED <<saved, unsaved, serverVars, link>>
        /\ stains'.list = stains.list /\ tasks' = tasks \cup {p}
    BY <1>9 DEF Expire, TypeOK
  <2>2. pour'[p] = Finish("simulated") /\ \A q \in Pour \ {p} : pour'[q] = pour[q]
    BY <1>9, SetOne DEF Expire
  <2>3. h.outcome = "none" /\ p \notin flush
    BY <2>1 DEF Kept, OutcomeIsEnd, TasksWereShown
  <2>4. OutcomeIsEnd' /\ TasksWereShown'
    BY <1>2, <2>1, <2>2 DEF Kept, OutcomeIsEnd, TasksWereShown, TypeOK, serverVars
  <2>5. FlushIsOver'
    BY <2>1, <2>3 DEF Kept, FlushIsOver, serverVars
  <2>6. NoStainForgotten'
    BY <1>2, <2>1, <2>2 DEF Kept, NoStainForgotten, serverVars
  <2>7. CachedWhen'
    BY <1>2, <2>1, <2>2 DEF Kept, CachedWhen, TypeOK
  <2> QED
    BY <2>4, <2>5, <2>6, <2>7 DEF Kept
<1>10. CASE RedisFails(p)
  <2>1. h.at \in RedisAwait /\ link = "closed" /\ UNCHANGED <<stains, taskVars, serverVars, link>>
    BY <1>10 DEF RedisFails
  <2>2. /\ pour'[p] = IF h.at = "limiter" THEN Finish("refused") ELSE Simplified
        /\ \A q \in Pour \ {p} : pour'[q] = pour[q]
    BY <1>10, SetOne DEF RedisFails
  <2>3. h.at = "limiter" => p \notin stains.list
    BY NotCached
  <2>4. h.at # "done"
    BY <2>1 DEF RedisAwait, Await
  <2>5. pour'[p].at = "done" /\ pour'[p].outcome \in {"refused", "simplified"}
        /\ (p \in stains.list => pour'[p].outcome = "simplified")
    BY <1>2, <2>2, <2>3
  <2> QED
    BY <2>1, <2>2, <2>4, <2>5, QuietKeeps
<1> QED
  BY <1>3, <1>4, <1>5, <1>6, <1>7, <1>8, <1>9, <1>10 DEF Handle

\* The strokes and the breaker have no part in it.
LEMMA OthersKept ==
  ASSUME Kept, UNCHANGED <<pour, stains, taskVars, link, flush>>,
         server' # server => server = "up" /\ server' = "closing"
  PROVE  Kept'
<1>1. OutcomeIsEnd' /\ TasksWereShown' /\ FlushIsOver' /\ CachedWhen'
  BY DEF Kept, OutcomeIsEnd, TasksWereShown, FlushIsOver, CachedWhen, taskVars
<1>2. NoStainForgotten'
  BY DEF Kept, NoStainForgotten, taskVars
<1> QED
  BY <1>1, <1>2 DEF Kept

\* PostgreSQL takes a task or fails it.
LEMMA PersistKept ==
  ASSUME TypeOK, Kept, NEW p \in Pour, Persist(p) \/ PersistFails(p)
  PROVE  Kept'
<1>1. /\ p \in tasks /\ tasks' = tasks \ {p} /\ UNCHANGED <<pour, stains, link, server, flush>>
      /\ \/ saved' = saved \cup {p} /\ UNCHANGED unsaved
         \/ unsaved' = unsaved \cup {p} /\ UNCHANGED saved
  BY DEF Persist, PersistFails, serverVars
<1>2. OutcomeIsEnd' /\ CachedWhen'
  BY <1>1 DEF Kept, OutcomeIsEnd, CachedWhen
<1>3. TasksWereShown'
  BY <1>1 DEF Kept, TasksWereShown
<1>4. FlushIsOver'
  BY <1>1 DEF Kept, FlushIsOver
<1>5. NoStainForgotten'
  BY <1>1 DEF Kept, NoStainForgotten
<1> QED
  BY <1>2, <1>3, <1>4, <1>5 DEF Kept

\* The commands that wait fail, and may have been run.
LEMMA GiveUpKept ==
  ASSUME TypeOK, Kept, GiveUp
  PROVE  Kept'
<1>1. PICK pushed \in SUBSET {p \in Pour : pour[p].at = "lpush"} :
        \E ttl \in BOOLEAN : stains' = [list |-> stains.list \cup pushed, ttl |-> stains.ttl \/ ttl]
  BY DEF GiveUp
<1>2. stains'.list = stains.list \cup pushed /\ link' = "closed" /\ UNCHANGED <<pour, taskVars, serverVars>>
  BY <1>1 DEF GiveUp
<1>3. OutcomeIsEnd' /\ TasksWereShown' /\ FlushIsOver' /\ NoStainForgotten'
  BY <1>2 DEF Kept, OutcomeIsEnd, TasksWereShown, FlushIsOver, NoStainForgotten, taskVars, serverVars
<1>4. CachedWhen'
  BY <1>2 DEF Kept, CachedWhen
<1> QED
  BY <1>3, <1>4 DEF Kept

\* A list that is evicted shows nothing.
LEMMA EvictStainsKept ==
  ASSUME Kept, EvictStains
  PROVE  Kept'
<1>1. stains'.list = {} /\ UNCHANGED <<pour, taskVars, serverVars, link>>
  BY DEF EvictStains
<1>2. OutcomeIsEnd' /\ TasksWereShown' /\ FlushIsOver' /\ NoStainForgotten'
  BY <1>1 DEF Kept, OutcomeIsEnd, TasksWereShown, FlushIsOver, NoStainForgotten, taskVars, serverVars
<1>3. CachedWhen'
  BY <1>1 DEF CachedWhen
<1> QED
  BY <1>2, <1>3 DEF Kept

\* The shutdown waits for the tasks it found, or ten seconds.
LEMMA TerminateKept ==
  ASSUME TypeOK, Kept, Terminate
  PROVE  Kept'
<1>1. CASE CloseSockets
  <2>1. /\ server = "closing" /\ flush' = tasks /\ UNCHANGED <<pour, stains, taskVars, link>>
        /\ server' = "quitting" => tasks = {}
        /\ server' # "exited"
    BY <1>1 DEF CloseSockets
  <2>2. OutcomeIsEnd' /\ CachedWhen' /\ TasksWereShown' /\ FlushIsOver'
    BY <2>1 DEF Kept, OutcomeIsEnd, CachedWhen, TasksWereShown, FlushIsOver, taskVars
  <2>3. NoStainForgotten'
    BY <2>1 DEF Kept, NoStainForgotten, taskVars
  <2> QED
    BY <2>2, <2>3 DEF Kept
<1>2. CASE Flushed \/ FlushTimeout
  <2>1. /\ server = "flushing" /\ server' = "quitting"
        /\ flush \cap tasks \subseteq unsaved' /\ unsaved \subseteq unsaved'
        /\ unsaved' \subseteq unsaved \cup flush
        /\ UNCHANGED <<pour, stains, tasks, saved, link, flush>>
    BY <1>2 DEF Flushed, FlushTimeout, taskVars
  <2>2. OutcomeIsEnd' /\ CachedWhen' /\ TasksWereShown' /\ FlushIsOver'
    BY <2>1 DEF Kept, OutcomeIsEnd, CachedWhen, TasksWereShown, FlushIsOver
  <2>3. NoStainForgotten'
    BY <2>1 DEF Kept, NoStainForgotten
  <2> QED
    BY <2>2, <2>3 DEF Kept
<1>3. CASE Quit
  <2>1. link' = "closed" /\ UNCHANGED <<pour, stains, taskVars, serverVars>>
    BY <1>3 DEF Quit
  <2>2. OutcomeIsEnd' /\ CachedWhen' /\ TasksWereShown' /\ FlushIsOver' /\ NoStainForgotten'
    BY <2>1
    DEF Kept, OutcomeIsEnd, CachedWhen, TasksWereShown, FlushIsOver, NoStainForgotten, taskVars, serverVars
  <2> QED
    BY <2>2 DEF Kept
<1>4. CASE Exit
  <2>1. /\ server = "quitting" /\ server' = "exited" /\ tasks' = {}
        /\ UNCHANGED <<stains, saved, unsaved, link, flush>>
    BY <1>4 DEF Exit
  <2>2. ASSUME NEW p \in Pour
        PROVE  \/ pour'[p] = pour[p] /\ pour[p].at \notin Await
               \/ pour'[p].at = "dead" /\ pour'[p].outcome = "none" /\ pour[p].at \in Await
    BY <1>4 DEF Exit, Unsent
  <2>3. \A p \in Pour : pour[p].at \in Await => pour[p].outcome = "none"
    BY DEF Kept, OutcomeIsEnd, Await
  <2>4. OutcomeIsEnd'
    BY <2>2 DEF Kept, OutcomeIsEnd
  <2>5. TasksWereShown'
    BY <2>1, <2>2, <2>3 DEF Kept, TasksWereShown, TypeOK
  <2>6. FlushIsOver'
    BY <2>1 DEF FlushIsOver
  <2>7. NoStainForgotten'
    BY <2>1, <2>2, <2>3 DEF Kept, NoStainForgotten, FlushIsOver
  <2>8. CachedWhen'
    BY <2>1, <2>2 DEF Kept, CachedWhen, TypeOK, Await
  <2> QED
    BY <2>4, <2>5, <2>6, <2>7, <2>8 DEF Kept
<1> QED
  BY <1>1, <1>2, <1>3, <1>4 DEF Terminate

\* Nothing has been poured at first.
LEMMA KeptInit == Init => Kept
BY DEF Init, Unsent, Kept, OutcomeIsEnd, TasksWereShown, FlushIsOver, NoStainForgotten, CachedWhen

\* Every step keeps what Kept says.
LEMMA KeptStep ==
  ASSUME TypeOK, Kept, [Next]_vars
  PROVE  Kept'
<1>1. ASSUME NEW s \in Drawing, Begin(s) \/ Draw(s) \/ End(s) \/ EvictHash(s) \/ EvictPoints(s)
      PROVE  Kept'
  BY <1>1, OthersKept DEF Begin, Draw, End, EvictHash, EvictPoints, serverVars
<1>2. CASE EvictActiveStrokes \/ OpenedElsewhere \/ HalfOpen \/ Shutdown
  BY <1>2, OthersKept DEF EvictActiveStrokes, OpenedElsewhere, HalfOpen, Shutdown, serverVars
<1>3. CASE UNCHANGED vars
  BY <1>3, OthersKept DEF vars, serverVars
<1> QED
  BY <1>1, <1>2, <1>3, HandleKept, PersistKept, GiveUpKept, EvictStainsKept, TerminateKept DEF Next

-----------------------------------------------------------------------------
(* Strokes: listed, read, cleaned up.                                      *)

Reading == OnlyBegun /\ DeadStaysDead /\ CleanupSparesStrokes /\ ReadIsListed /\ SnapshotIsRecent

\* What one handler's part of it is.
HolderOk(h) ==
  /\ \A s \in h.todo \cup h.next : pen[s] # "new"
  /\ h.at = "srem" => h.next \cap hash = {}
  /\ h.todo \cup h.next \subseteq DOMAIN h.floor
  /\ \A s \in DOMAIN h.floor : NoLaterThan(h.floor[s], points[s])
  /\ h.at \in {"unsent", "limiter", "members"} => DOMAIN h.seen = {}
  /\ \A s \in DOMAIN h.seen :
       s \in DOMAIN h.floor /\ NoLaterThan(h.floor[s], h.seen[s]) /\ NoLaterThan(h.seen[s], points[s])

\* Reading, pour by pour.
LEMMA ReadingIsHolders ==
  Reading <=> /\ \A s \in hash \cup listed : pen[s] # "new"
              /\ CleanupSparesStrokes
              /\ \A p \in Pour : HolderOk(pour[p])
BY DEF Reading, OnlyBegun, DeadStaysDead, ReadIsListed, SnapshotIsRecent, HolderOk

\* A handler that holds nothing is fine.
LEMMA HoldsNothing ==
  ASSUME NEW h, h.todo = {}, h.next = {}, DOMAIN h.seen = {}, DOMAIN h.floor = {}
  PROVE  HolderOk(h)
BY DEF HolderOk

\* A handler takes a step that leaves the strokes alone.
LEMMA HolderStep ==
  ASSUME TypeOK, Reading, NEW p \in Pour,
         \A q \in Pour \ {p} : pour'[q] = pour[q],
         HolderOk(pour'[p]), UNCHANGED canvasVars
  PROVE  Reading'
<1>1. \A q \in Pour : HolderOk(pour'[q])
  BY ReadingIsHolders
<1>2. \A q \in Pour : HolderOk(pour[q])'
  BY <1>1 DEF HolderOk, canvasVars
<1>3. (\A s \in hash \cup listed : pen[s] # "new")' /\ CleanupSparesStrokes'
  BY ReadingIsHolders DEF CleanupSparesStrokes, canvasVars
<1> QED
  BY <1>2, <1>3, ReadingIsHolders DEF Reading, OnlyBegun, DeadStaysDead, ReadIsListed, SnapshotIsRecent, HolderOk

\* What happens to the strokes: they are begun once, grow, lose points to an eviction,
\* and lose a hash but never get it back.
Onwards ==
  /\ \A d \in Drawing : NoLaterThan(points[d], points'[d]) /\ (pen'[d] = "new" => pen[d] = "new")
  /\ \A d \in Drawing : d \in hash' \ hash => pen[d] = "new"
  /\ \A d \in Drawing : d \in hash' \cup listed' => pen'[d] # "new"
  /\ hash' \subseteq Drawing /\ listed' \subseteq Drawing
  /\ CleanupSparesStrokes'

\* Whatever happens to a stroke keeps what Reading says.
LEMMA StrokeReading ==
  ASSUME TypeOK, Reading,
         \/ EvictActiveStrokes
         \/ \E s \in Drawing : Begin(s) \/ Draw(s) \/ End(s) \/ EvictHash(s) \/ EvictPoints(s)
  PROVE  Reading'
<1>1. pour' = pour
  BY DEF EvictActiveStrokes, Begin, Draw, End, EvictHash, EvictPoints
<1>2. Onwards
  <2>1. \A d \in Drawing : NoLaterThan(points[d], points[d])
    BY LaterIsLater DEF TypeOK
  <2>2. ASSUME NEW s \in Drawing, Begin(s) PROVE Onwards
    BY <2>1, <2>2, ReadingIsHolders DEF Begin, TypeOK, CleanupSparesStrokes, Onwards
  <2>3. ASSUME NEW s \in Drawing, Draw(s) PROVE Onwards
    BY <2>3, PointsGrow, ReadingIsHolders DEF Draw, TypeOK, CleanupSparesStrokes, Onwards
  <2>4. ASSUME NEW s \in Drawing, End(s) PROVE Onwards
    BY <2>1, <2>4, ReadingIsHolders DEF End, TypeOK, CleanupSparesStrokes, Onwards
  <2>5. ASSUME NEW s \in Drawing, EvictHash(s) PROVE Onwards
    BY <2>1, <2>5, ReadingIsHolders DEF EvictHash, TypeOK, CleanupSparesStrokes, Onwards
  <2>6. ASSUME NEW s \in Drawing, EvictPoints(s) PROVE Onwards
    BY <2>6, PointsGrow, ReadingIsHolders DEF EvictPoints, TypeOK, CleanupSparesStrokes, Onwards
  <2>7. CASE EvictActiveStrokes
    BY <2>1, <2>7, ReadingIsHolders DEF EvictActiveStrokes, TypeOK, CleanupSparesStrokes, Onwards
  <2> QED
    BY <2>2, <2>3, <2>4, <2>5, <2>6, <2>7
<1>3. ASSUME NEW p \in Pour PROVE HolderOk(pour[p])'
  <2> DEFINE h == pour[p]
  <2>1. HolderOk(h) /\ pour'[p] = h
    BY <1>1, ReadingIsHolders
  <2>2. /\ h.todo \subseteq Drawing /\ h.next \subseteq Drawing
        /\ h.seen \in Snapshots /\ h.floor \in Snapshots
    BY DEF TypeOK, Handler
  <2>3. /\ DOMAIN h.seen \subseteq Drawing /\ DOMAIN h.floor \subseteq Drawing
        /\ \A d \in DOMAIN h.seen : h.seen[d] \in [from : Nat, to : Nat]
        /\ \A d \in DOMAIN h.floor : h.floor[d] \in [from : Nat, to : Nat]
    BY <2>2, SnapshotIs, StretchIs
  <2>4. \A d \in Drawing : points[d] \in [from : Nat, to : Nat] /\ points'[d] \in [from : Nat, to : Nat]
    BY StrokeType, ProcessType DEF TypeOK
  <2>5. \A d \in h.todo \cup h.next : pen'[d] # "new"
    BY <1>2, <2>1, <2>2 DEF HolderOk, Onwards
  <2>6. h.at = "srem" => h.next \cap hash' = {}
    BY <1>2, <2>1, <2>2 DEF HolderOk, Onwards
  <2>7. \A d \in DOMAIN h.floor : NoLaterThan(h.floor[d], points'[d])
    BY <1>2, <2>1, <2>3, <2>4, LaterIsLater DEF HolderOk, Onwards
  <2>8. \A d \in DOMAIN h.seen : NoLaterThan(h.seen[d], points'[d])
    BY <1>2, <2>1, <2>3, <2>4, LaterIsLater DEF HolderOk, Onwards
  <2> QED
    BY <2>1, <2>5, <2>6, <2>7, <2>8 DEF HolderOk
<1> QED
  BY <1>1, <1>2, <1>3
  DEF Reading, OnlyBegun, DeadStaysDead, ReadIsListed, SnapshotIsRecent, HolderOk, Onwards

\* Going on to the next stroke or to the physics service.
LEMMA ReadOnHolder ==
  ASSUME TypeOK, NEW p \in Pour, NEW h \in Handler, ReadOn(p, h),
         \A s \in h.todo : pen[s] # "new",
         h.todo \subseteq DOMAIN h.floor,
         \A s \in DOMAIN h.floor : NoLaterThan(h.floor[s], points[s]),
         \A s \in DOMAIN h.seen :
           /\ s \in DOMAIN h.floor
           /\ NoLaterThan(h.floor[s], h.seen[s]) /\ NoLaterThan(h.seen[s], points[s])
  PROVE  HolderOk(pour'[p]) /\ \A q \in Pour \ {p} : pour'[q] = pour[q]
<1>1. CASE pour'[p] = Simplified
  BY <1>1, ReadOnIs, EndIs, HoldsNothing
<1>2. CASE /\ pour'[p].todo = h.todo /\ pour'[p].next = {}
           /\ pour'[p].seen = h.seen /\ pour'[p].floor = h.floor
           /\ pour'[p].at \in {"meta", "physics"}
  BY <1>2, ReadOnIs DEF HolderOk
<1> QED
  BY <1>1, <1>2, ReadOnIs

\* Handling a pour keeps what Reading says.
LEMMA HandleReading ==
  ASSUME TypeOK, Reading, NEW p \in Pour, Send(p) \/ Handle(p)
  PROVE  Reading'
<1> DEFINE h == pour[p]
<1>1. h \in Handler /\ HolderOk(h)
  BY ReadingIsHolders DEF TypeOK
<1>2. /\ h.todo \subseteq Drawing /\ h.next \subseteq Drawing
      /\ h.seen \in Snapshots /\ h.floor \in Snapshots
  BY <1>1 DEF Handler
<1>3. \A d \in Drawing : NoLaterThan(points[d], points[d])
  BY LaterIsLater DEF TypeOK
<1>4. HolderOk(Simplified) /\ \A outcome \in Outcome : HolderOk(Finish(outcome))
  BY EndIs, HoldsNothing
<1> HIDE DEF h
<1>5. ASSUME NEW g, Set(p, g), HolderOk(g), UNCHANGED canvasVars
      PROVE  Reading'
  BY <1>5, SetOne, HolderStep
<1>6. CASE Send(p)
  <2> DEFINE g == [h EXCEPT !.at = "limiter"]
  <2>1. Set(p, g)
    BY <1>6 DEF Send, h
  <2>2. /\ g.at = "limiter" /\ g.todo = h.todo /\ g.next = h.next
        /\ g.seen = h.seen /\ g.floor = h.floor
    BY <1>1 DEF Handler
  <2>3. h.at = "unsent"
    BY <1>6 DEF Send, h
  <2> HIDE DEF g
  <2>4. HolderOk(g)
    BY <1>1, <2>2, <2>3 DEF HolderOk
  <2> QED
    BY <1>5, <1>6, <2>1, <2>4 DEF Send
<1>7. CASE Consume(p)
  <2> DEFINE g == [h EXCEPT !.at = "members"]
  <2>1. /\ g.at = "members" /\ g.todo = h.todo /\ g.next = h.next
        /\ g.seen = h.seen /\ g.floor = h.floor
    BY <1>1 DEF Handler
  <2>2. h.at = "limiter" /\ (Set(p, Finish("refused")) \/ Set(p, g)) /\ UNCHANGED canvasVars
    BY <1>7 DEF Consume, h
  <2> HIDE DEF g
  <2>3. HolderOk(g)
    BY <1>1, <2>1, <2>2 DEF HolderOk
  <2> QED
    BY <1>4, <1>5, <2>2, <2>3 DEF Outcome
<1>8. CASE Members(p)
  <2>1. PICK g \in Handler : /\ ReadOn(p, g) /\ g.todo = listed
                             /\ g.floor = [s \in listed |-> points[s]] /\ g.seen = h.seen
    BY <1>8, ReadingIs DEF h
  <2>2. h.at = "members" /\ UNCHANGED canvasVars
    BY <1>8 DEF Members, h
  <2>3. DOMAIN g.seen = {} /\ g.todo \subseteq DOMAIN g.floor /\ DOMAIN g.floor = listed
    BY <1>1, <2>1, <2>2 DEF HolderOk
  <2>4. \A s \in g.todo : pen[s] # "new"
    BY <2>1, ReadingIsHolders
  <2>5. \A s \in DOMAIN g.floor : NoLaterThan(g.floor[s], points[s])
    <3>1. listed \subseteq Drawing
      BY DEF TypeOK
    <3> QED
      BY <1>3, <2>1, <3>1
  <2> QED
    BY <2>1, <2>2, <2>3, <2>4, <2>5, ReadOnHolder, HolderStep
<1>9. ASSUME NEW s \in Drawing, Meta(p, s) PROVE Reading'
  <2> DEFINE g == [h EXCEPT !.at = IF s \in hash THEN "points" ELSE "srem",
                            !.todo = @ \ {s}, !.next = {s}]
  <2>1. /\ g.at = (IF s \in hash THEN "points" ELSE "srem")
        /\ g.todo = h.todo \ {s} /\ g.next = {s} /\ g.seen = h.seen /\ g.floor = h.floor
    BY <1>1 DEF Handler
  <2>2. Set(p, g) /\ s \in h.todo /\ UNCHANGED canvasVars
    BY <1>9 DEF Meta, h
  <2> HIDE DEF g
  <2>3. HolderOk(g)
    BY <1>1, <2>1, <2>2 DEF HolderOk
  <2> QED
    BY <1>5, <2>2, <2>3
<1>10. CASE Srem(p)
  <2>1. h.at = "srem" /\ listed' = listed \ h.next /\ UNCHANGED <<hash, points, unlisted, pen>> /\ ReadOn(p, h)
    BY <1>10 DEF Srem, h
  <2>2. h.next \cap hash = {}
    BY <1>1, <2>1 DEF HolderOk
  <2>3. HolderOk(pour'[p]) /\ \A q \in Pour \ {p} : pour'[q] = pour[q]
    BY <1>1, <2>1, ReadOnHolder DEF HolderOk
  <2>4. \A q \in Pour : HolderOk(pour[q])'
    BY <2>1, <2>3, ReadingIsHolders DEF HolderOk
  <2>5. (\A s \in hash \cup listed : pen[s] # "new")' /\ CleanupSparesStrokes'
    BY <2>1, <2>2, ReadingIsHolders DEF CleanupSparesStrokes
  <2> QED
    BY <2>4, <2>5
    DEF Reading, OnlyBegun, DeadStaysDead, ReadIsListed, SnapshotIsRecent, HolderOk
<1>11. CASE Points(p)
  <2>1. PICK g \in Handler :
          /\ ReadOn(p, g) /\ g.todo = h.todo /\ g.floor = h.floor
          /\ g.seen = [s \in DOMAIN h.seen \cup h.next |->
                         IF s \in h.next THEN points[s] ELSE h.seen[s]]
    BY <1>11, ReadingIs DEF h
  <2>2. UNCHANGED canvasVars
    BY <1>11 DEF Points
  <2>3. ASSUME NEW s \in DOMAIN g.seen
        PROVE  /\ s \in DOMAIN g.floor
               /\ NoLaterThan(g.floor[s], g.seen[s]) /\ NoLaterThan(g.seen[s], points[s])
    <3>1. CASE s \in h.next
      <4>1. s \in DOMAIN h.floor /\ NoLaterThan(h.floor[s], points[s]) /\ g.seen[s] = points[s]
        BY <1>1, <2>1, <3>1 DEF HolderOk
      <4> QED
        BY <1>2, <1>3, <2>1, <3>1, <4>1
    <3>2. CASE s \notin h.next
      BY <1>1, <2>1, <3>2 DEF HolderOk
    <3> QED
      BY <3>1, <3>2
  <2>4. /\ \A s \in g.todo : pen[s] # "new"
        /\ g.todo \subseteq DOMAIN g.floor
        /\ \A s \in DOMAIN g.floor : NoLaterThan(g.floor[s], points[s])
    BY <1>1, <2>1 DEF HolderOk
  <2> QED
    BY <2>1, <2>2, <2>3, <2>4, ReadOnHolder, HolderStep
<1>12. CASE Answered(p) \/ Unanswered(p)
  <2> DEFINE g == [h EXCEPT !.at = "lpush"]
  <2>1. /\ g.at = "lpush" /\ g.todo = h.todo /\ g.next = h.next
        /\ g.seen = h.seen /\ g.floor = h.floor
    BY <1>1 DEF Handler
  <2>2. (Set(p, Simplified) \/ Set(p, g)) /\ UNCHANGED canvasVars
    BY <1>12 DEF Answered, Unanswered, h
  <2> HIDE DEF g
  <2>3. HolderOk(g)
    BY <1>1, <2>1 DEF HolderOk
  <2> QED
    BY <1>4, <1>5, <2>2, <2>3
<1>13. CASE Lpush(p)
  <2> DEFINE g == [h EXCEPT !.at = "expire"]
  <2>1. /\ g.at = "expire" /\ g.todo = h.todo /\ g.next = h.next
        /\ g.seen = h.seen /\ g.floor = h.floor
    BY <1>1 DEF Handler
  <2>2. Set(p, g) /\ UNCHANGED canvasVars
    BY <1>13 DEF Lpush, h
  <2> HIDE DEF g
  <2>3. HolderOk(g)
    BY <1>1, <2>1 DEF HolderOk
  <2> QED
    BY <1>5, <2>2, <2>3
<1>14. CASE Expire(p)
  BY <1>4, <1>5, <1>14 DEF Expire, Outcome
<1>15. CASE RedisFails(p)
  <2>1. (Set(p, Finish("refused")) \/ Set(p, Simplified)) /\ UNCHANGED canvasVars
    BY <1>15 DEF RedisFails
  <2> QED
    BY <1>4, <1>5, <2>1 DEF Outcome
<1> QED
  BY <1>6, <1>7, <1>8, <1>9, <1>10, <1>11, <1>12, <1>13, <1>14, <1>15 DEF Handle

\* Only the exit touches the handlers otherwise, and what it ends holds nothing.
LEMMA OthersReading ==
  ASSUME TypeOK, Reading, UNCHANGED canvasVars,
         \A p \in Pour : pour'[p] = pour[p] \/ pour'[p] = [Unsent EXCEPT !.at = "dead"]
  PROVE  Reading'
<1>1. HolderOk([Unsent EXCEPT !.at = "dead"])
  BY NoStrokesType, HoldsNothing DEF Unsent
<1>2. \A p \in Pour : HolderOk(pour'[p])
  BY <1>1, ReadingIsHolders
<1>3. \A p \in Pour : HolderOk(pour[p])'
  BY <1>2 DEF HolderOk, canvasVars
<1>4. (\A s \in hash \cup listed : pen[s] # "new")' /\ CleanupSparesStrokes'
  BY ReadingIsHolders DEF CleanupSparesStrokes, canvasVars
<1> QED
  BY <1>3, <1>4 DEF Reading, OnlyBegun, DeadStaysDead, ReadIsListed, SnapshotIsRecent, HolderOk

\* Nobody reads at first.
LEMMA ReadingInit == Init => Reading
<1> SUFFICES ASSUME Init PROVE Reading
  OBVIOUS
<1>1. \A p \in Pour : HolderOk(pour[p])
  BY NoStrokesType, HoldsNothing DEF Init, Unsent
<1>2. (\A s \in hash \cup listed : pen[s] # "new") /\ CleanupSparesStrokes
  BY DEF Init, CleanupSparesStrokes
<1> QED
  BY <1>1, <1>2, ReadingIsHolders

\* Every step keeps what Reading says.
LEMMA ReadingStep ==
  ASSUME TypeOK, Reading, [Next]_vars
  PROVE  Reading'
<1>1. ASSUME NEW p \in Pour, Persist(p) \/ PersistFails(p) PROVE Reading'
  BY <1>1, OthersReading DEF Persist, PersistFails
<1>2. CASE EvictStains \/ OpenedElsewhere \/ HalfOpen \/ GiveUp \/ Shutdown
  BY <1>2, OthersReading DEF EvictStains, OpenedElsewhere, HalfOpen, GiveUp, Shutdown
<1>3. CASE CloseSockets \/ Flushed \/ FlushTimeout \/ Quit
  BY <1>3, OthersReading DEF CloseSockets, Flushed, FlushTimeout, Quit
<1>4. CASE Exit
  BY <1>4, OthersReading DEF Exit
<1>5. CASE UNCHANGED vars
  BY <1>5, OthersReading DEF vars
<1> QED
  BY <1>1, <1>2, <1>3, <1>4, <1>5, StrokeReading, HandleReading DEF Next, Terminate

-----------------------------------------------------------------------------
(* The breaker's trial.                                                     *)

\* No call is under way that was not, and the breaker is as it was.
LEMMA NoNewCall ==
  ASSUME TypeOK, TrialOrCall, UNCHANGED breaker,
         \A p \in Pour : pour'[p].at = "physics" => pour[p].at = "physics"
  PROVE  TrialOrCall'
BY DEF TrialOrCall

\* A breaker that is not half open has no trial.
LEMMA NotHalfOpen ==
  ASSUME breaker'.state # "halfOpen"
  PROVE  TrialOrCall'
BY DEF TrialOrCall

\* The call of a handler: it takes the trial, or the breaker is closed.
LEMMA CallStarts ==
  ASSUME TypeOK, TrialOrCall, NEW p \in Pour, NEW h \in Handler, ReadOn(p, h),
         pour[p].at # "physics"
  PROVE  TrialOrCall'
<1>1. CASE UNCHANGED breaker /\ pour'[p].at # "physics"
  BY <1>1, ReadOnIs, NoNewCall
<1>2. CASE ~Rejects /\ breaker' = Fired
  <2>1. breaker'.state = breaker.state /\ breaker'.trial = FALSE
    BY <1>2 DEF Fired, TypeOK
  <2>2. CASE breaker.state = "halfOpen"
    <3>1. \A q \in Pour : pour[q].at # "physics"
      BY <1>2, <2>2 DEF Rejects, TrialOrCall
    <3>2. \A q \in Pour \ {p} : pour'[q].at # "physics"
      BY <3>1, ReadOnIs
    <3> QED
      BY <2>1, <3>2 DEF TrialOrCall
  <2>3. CASE breaker.state # "halfOpen"
    BY <2>1, <2>3, NotHalfOpen
  <2> QED
    BY <2>2, <2>3
<1> QED
  BY <1>1, <1>2, ReadOnIs, EndIs DEF Outcome

\* Handling a pour keeps what TrialOrCall says.
LEMMA HandleTrial ==
  ASSUME TypeOK, TrialOrCall, NEW p \in Pour, Send(p) \/ Handle(p)
  PROVE  TrialOrCall'
<1> DEFINE h == pour[p]
<1>1. h \in Handler
  BY DEF TypeOK
<1>2. Simplified.at = "done" /\ Finish("refused").at = "done" /\ Finish("simulated").at = "done"
  BY EndIs DEF Outcome
<1>3. ASSUME NEW g, Set(p, g), g.at # "physics", UNCHANGED breaker PROVE TrialOrCall'
  BY <1>3, SetOne, NoNewCall
<1> HIDE DEF h
<1>4. ASSUME NEW a PROVE [h EXCEPT !.at = a].at = a
  BY <1>1 DEF Handler
<1>5. CASE Send(p)
  BY <1>3, <1>4, <1>5 DEF Send, h
<1>6. CASE Consume(p)
  BY <1>2, <1>3, <1>4, <1>6 DEF Consume, h
<1>7. CASE Members(p) \/ Srem(p) \/ Points(p)
  <2>1. h.at # "physics"
    BY <1>7 DEF Members, Srem, Points, h
  <2> QED
    BY <1>7, <2>1, ReadingIs, CallStarts DEF h
<1>8. ASSUME NEW s \in Drawing, Meta(p, s) PROVE TrialOrCall'
  <2> DEFINE g == [h EXCEPT !.at = IF s \in hash THEN "points" ELSE "srem",
                            !.todo = @ \ {s}, !.next = {s}]
  <2>1. g.at \in {"points", "srem"}
    BY <1>1 DEF Handler
  <2>2. Set(p, g) /\ UNCHANGED breaker
    BY <1>8 DEF Meta, h
  <2> HIDE DEF g
  <2> QED
    BY <1>3, <2>1, <2>2
<1>9. CASE Answered(p) \/ Unanswered(p)
  <2>1. pour'[p].at # "physics" /\ \A q \in Pour \ {p} : pour'[q] = pour[q]
    <3>1. Set(p, Simplified) \/ Set(p, [h EXCEPT !.at = "lpush"])
      BY <1>9 DEF Answered, Unanswered, h
    <3> QED
      BY <1>2, <1>4, <3>1, SetOne
  <2>2. \/ UNCHANGED breaker
        \/ breaker'.state # "halfOpen"
    BY <1>9 DEF Answered, Unanswered, Failed, Succeeded
  <2> QED
    BY <2>1, <2>2, NoNewCall, NotHalfOpen
<1>10. CASE Lpush(p)
  BY <1>3, <1>4, <1>10 DEF Lpush, h
<1>11. CASE Expire(p)
  BY <1>2, <1>3, <1>11 DEF Expire
<1>12. CASE RedisFails(p)
  BY <1>2, <1>3, <1>12 DEF RedisFails
<1> QED
  BY <1>5, <1>6, <1>7, <1>8, <1>9, <1>10, <1>11, <1>12 DEF Handle

\* Every step keeps what TrialOrCall says.
LEMMA TrialStep ==
  ASSUME TypeOK, TrialOrCall, [Next]_vars
  PROVE  TrialOrCall'
<1>1. ASSUME NEW s \in Drawing, Begin(s) \/ Draw(s) \/ End(s) \/ EvictHash(s) \/ EvictPoints(s)
      PROVE  TrialOrCall'
  BY <1>1, NoNewCall DEF Begin, Draw, End, EvictHash, EvictPoints
<1>2. ASSUME NEW p \in Pour, Persist(p) \/ PersistFails(p) PROVE TrialOrCall'
  BY <1>2, NoNewCall DEF Persist, PersistFails
<1>3. CASE OpenedElsewhere
  BY <1>3, NotHalfOpen DEF OpenedElsewhere
<1>4. CASE HalfOpen
  BY <1>4 DEF HalfOpen, TrialOrCall
<1>5. CASE EvictActiveStrokes \/ EvictStains \/ GiveUp \/ Shutdown
  BY <1>5, NoNewCall DEF EvictActiveStrokes, EvictStains, GiveUp, Shutdown
<1>6. CASE CloseSockets \/ Flushed \/ FlushTimeout \/ Quit
  BY <1>6, NoNewCall DEF CloseSockets, Flushed, FlushTimeout, Quit
<1>7. CASE Exit
  <2>1. \A p \in Pour : pour'[p].at = "physics" => pour[p].at = "physics"
    BY <1>7 DEF Exit, Unsent
  <2> QED
    BY <1>7, <2>1, NoNewCall DEF Exit
<1>8. CASE UNCHANGED vars
  BY <1>8, NoNewCall DEF vars
<1> QED
  BY <1>1, <1>2, <1>3, <1>4, <1>5, <1>6, <1>7, <1>8, HandleTrial DEF Next, Terminate

\* At most one call is at most one handler.
LEMMA AloneIfTrial == TrialOrCall => TrialIsAlone
<1> SUFFICES ASSUME TrialOrCall, breaker.state = "halfOpen"
             PROVE  Cardinality({p \in Pour : pour[p].at = "physics"}) <= 1
  BY DEF TrialIsAlone
<1> DEFINE calls == {p \in Pour : pour[p].at = "physics"}
<1>1. CASE calls = {}
  <2>1. Cardinality(calls) = 0
    <3> HIDE DEF calls
    <3> QED
      BY <1>1, FS_EmptySet
  <2> QED
    BY <2>1
<1>2. CASE calls # {}
  <2>1. PICK p \in calls : TRUE
    BY <1>2
  <2>2. calls = {p}
    BY <2>1 DEF TrialOrCall
  <2>3. Cardinality(calls) = 1
    BY <2>2, FS_Singleton
  <2> QED
    BY <2>3
<1> QED
  BY <1>1, <1>2

-----------------------------------------------------------------------------
(* The theorems.                                                            *)

\* The parts of the invariant.
LEMMA InvariantSplits == Invariant <=> TypeOK /\ Kept /\ Reading /\ TrialOrCall
BY DEF Invariant, Kept, Reading

\* The invariant holds at first.
LEMMA InvariantInit == Init => Invariant
BY InvariantSplits, TypeInit, KeptInit, ReadingInit DEF Init, TrialOrCall

\* Every step keeps the invariant.
LEMMA InvariantStep == Invariant /\ [Next]_vars => Invariant'
<1> SUFFICES ASSUME Invariant, [Next]_vars PROVE Invariant'
  OBVIOUS
<1>1. TypeOK' /\ Kept' /\ Reading' /\ TrialOrCall'
  BY InvariantSplits, TypeStep, KeptStep, ReadingStep, TrialStep
<1> QED
  BY <1>1 DEF Invariant, Kept, Reading

\* The invariant holds in every reachable state.
THEOREM InvariantHolds == Spec => []Invariant
BY InvariantInit, InvariantStep, PTL DEF Spec

\* A stain that the room saw as simulated is in PostgreSQL, on its way there, reported as
\* failed, or was started after the shutdown had chosen what to wait for.
THEOREM NothingForgotten == Spec => []NoStainForgotten
<1>1. Invariant => NoStainForgotten
  BY DEF Invariant
<1> QED
  BY <1>1, InvariantHolds, PTL

\* The cached stains are the ones that were shown, unless the connection to Redis broke
\* between LPUSH and the broadcast.
THEOREM CacheShows == Spec => []CachedIsShown
<1>1. Invariant => CachedIsShown
  BY DEF Invariant, TypeOK, CachedWhen, CachedIsShown, OutcomeIsEnd
<1> QED
  BY <1>1, InvariantHolds, PTL

\* What the simulation sees of each stroke is no older than the moment it was listed and
\* no newer than the stroke, and it lacks only points that Redis evicted, whenever keys are
\* evicted and however many.
THEOREM SnapshotsAreRecent == Spec => []SnapshotIsRecent
<1>1. Invariant => SnapshotIsRecent
  BY DEF Invariant
<1> QED
  BY <1>1, InvariantHolds, PTL

\* No cleanup of the active strokes hides one that is being drawn and has its metadata,
\* however many pours clean up at once: only an eviction of the whole set does.
THEOREM CleanupIsSafe == Spec => []CleanupSparesStrokes
<1>1. Invariant => CleanupSparesStrokes
  BY DEF Invariant
<1> QED
  BY <1>1, InvariantHolds, PTL

\* A half-open breaker has one call under way at most, whatever pours there are.
THEOREM TrialsAreAlone == Spec => []TrialIsAlone
<1>1. Invariant => TrialIsAlone
  BY AloneIfTrial DEF Invariant
<1> QED
  BY <1>1, InvariantHolds, PTL

-----------------------------------------------------------------------------
(* The simulations that the pours ask for.                                  *)

\* What a pour asks for is a request that its snapshot can make.
LEMMA AnswersAreRequests == TypeOK => Answers \subseteq Requests
<1> SUFFICES ASSUME TypeOK, NEW p \in Pour PROVE Request(pour[p].seen) \in Requests
  BY DEF Answers
<1>1. pour[p].seen \in Snapshots
  BY DEF TypeOK, Handler
<1> QED
  BY <1>1 DEF Requests

\* A request has finitely many strokes, and all of them absorb.
LEMMA RequestIs ==
  ASSUME NEW q \in Requests
  PROVE  Absorbent(q)
<1>1. PICK r \in Snapshots : q = Request(r)
  BY DEF Requests
<1> DEFINE S == DOMAIN r
           cut == [s \in S |-> [s EXCEPT !.path = SubSeq(@, r[s].from + 1, r[s].to)]]
<1>2. S \in SUBSET Drawing /\ IsFiniteSet(S)
  <2>1. S \in SUBSET Drawing
    BY SnapshotIs
  <2> HIDE DEF S
  <2> QED
    BY <2>1, FS_Subset
<1>3. \A t \in q : \E s \in S : t = cut[s]
  BY <1>1 DEF Request
<1>4. \A s \in S : cut[s] \in q
  BY <1>1 DEF Request
<1>5. cut \in Surjection(S, q)
  <2>1. DOMAIN cut = S /\ cut = [s \in S |-> cut[s]]
    OBVIOUS
  <2> HIDE DEF cut, S
  <2> QED
    BY <1>3, <1>4, <2>1 DEF Surjection
<1>6. IsFiniteSet(q)
  <2> HIDE DEF cut, S
  <2> QED
    BY <1>2, <1>5, FS_Surjection
<1>7. ASSUME NEW t \in q PROVE AbsorptionRate(t) \in Nat \ {0}
  <2>1. PICK s \in S : t = cut[s]
    BY <1>3
  <2>2. s \in [id : {s.id}, path : Seq(Int \X Int), dark : 0..100, width : Nat \ {0}]
    BY <1>2, DrawingAssumption
  <2>3. t.dark = s.dark /\ t.width = s.width
    BY <2>1, <2>2
  <2> QED
    BY <2>2, <2>3, RateIs
<1> QED
  BY <1>6, <1>7 DEF Absorbent

\* Every simulation that can be asked for conserves what was poured.
LEMMA RequestsConserve ==
  ASSUME NEW q \in Requests
  PROVE  Conserves[q]
<1>1. ASSUME NEW n \in 0..Steps PROVE Conserved(Simulated[q][n], Intensity.fit)
  <2>1. Intensity.fit = 100 /\ Simulated[q] = RunSimulation(q, Intensity.fit)
    BY DEF Intensity, Simulated
  <2>2. Conserved(RunSimulation(q, 100)[n], 100)
    BY RequestIs, RunConserves
  <2> QED
    BY <2>1, <2>2
<1> QED
  BY <1>1 DEF Conserves

\* Coffee is neither lost nor made in any simulation that a pour asks for: whatever the
\* strokes, the size of the grid and the number of steps, the grid and the strokes on it
\* hold what was poured after every step, and no cell holds less than none.
THEOREM CoffeeIsConserved == Spec => []VolumeConserved
<1>1. TypeOK => VolumeConserved
  BY AnswersAreRequests, RequestsConserve DEF VolumeConserved
<1> QED
  BY <1>1, TypeCorrect, PTL

\* A request for strokes that do not come back to the grid marks each without gaps.
LEMMA RequestsCover ==
  ASSUME \A s \in Drawing : EntersOnce(s), NEW q \in Requests
  PROVE  Covers[q]
<1>1. PICK r \in Snapshots : q = Request(r)
  BY DEF Requests
<1>2. ASSUME NEW s \in DOMAIN r PROVE Gapless([s EXCEPT !.path = SubSeq(@, r[s].from + 1, r[s].to)])
  <2> DEFINE t == [s EXCEPT !.path = SubSeq(@, r[s].from + 1, r[s].to)]
  <2> DEFINE a == r[s].from
             n == r[s].to - r[s].from
  <2>1. s \in Drawing /\ a \in Nat /\ n \in Nat /\ a + n = r[s].to /\ a + n <= Len(s.path)
    <3>1. s \in Drawing /\ r[s] \in Stretches(s)
      BY SnapshotIs
    <3>2. r[s] \in [from : Nat, to : Nat] /\ r[s].from <= r[s].to /\ r[s].to <= Len(s.path)
      BY <3>1, StretchIs
    <3> QED
      BY <3>1, <3>2
  <2>2. s \in [id : {s.id}, path : Seq(Int \X Int), dark : 0..100, width : Nat \ {0}]
    BY <2>1, DrawingAssumption
  <2>3. s.path \in Seq(Int \X Int) /\ t.path = SubSeq(s.path, a + 1, a + n)
    BY <2>1, <2>2
  <2> HIDE DEF a, n
  <2>4. /\ t.path \in Seq(Int \X Int) /\ DOMAIN t.path = 1..n
        /\ \A i \in 1..n : i + a \in DOMAIN s.path /\ t.path[i] = s.path[i + a]
    <3> DEFINE u == s.path
    <3>1. u \in Seq(Int \X Int) /\ a + n <= Len(u)
      BY <2>1, <2>3
    <3> HIDE DEF u
    <3>2. /\ SubSeq(u, a + 1, a + n) \in Seq(Int \X Int)
          /\ Len(SubSeq(u, a + 1, a + n)) = n
          /\ \A i \in 1..n : i + a \in DOMAIN u /\ SubSeq(u, a + 1, a + n)[i] = u[i + a]
      BY <2>1, <3>1
    <3>3. t.path = SubSeq(u, a + 1, a + n)
      BY <2>3 DEF u
    <3> HIDE DEF t
    <3> QED
      BY <2>1, <3>2, <3>3 DEF u
  <2>5. EntersOnce(s)
    BY <2>1
  <2> HIDE DEF t
  <2>6. EntersOnce(t)
    <3> SUFFICES ASSUME NEW i \in 1..n, NEW k \in 1..n, NEW j \in i..k,
                        Spot(t.path[i]) \in Cell, Spot(t.path[k]) \in Cell
                 PROVE  Spot(t.path[j]) \in Cell
      BY <2>4 DEF EntersOnce
    <3>1. j \in 1..n /\ j + a \in (i + a)..(k + a)
      BY <2>1
    <3>2. /\ i + a \in DOMAIN s.path /\ k + a \in DOMAIN s.path
          /\ Spot(s.path[i + a]) \in Cell /\ Spot(s.path[k + a]) \in Cell
      BY <2>4
    <3>3. Spot(s.path[j + a]) \in Cell
      BY <2>5, <3>1, <3>2 DEF EntersOnce
    <3> QED
      BY <2>4, <3>1, <3>3
  <2> QED
    BY <2>4, <2>6, MarksAreGapless DEF t
<1>3. \A s \in q : Gapless(s)
  BY <1>1, <1>2 DEF Request
<1> QED
  BY <1>3 DEF Covers

\* A stroke that does not come back to the grid after it left it is marked without gaps in
\* every simulation, wherever its points lie. One that comes back may not be: the line that
\* leads to the first point outside is not drawn, though it starts on the grid.
THEOREM StrokesAreUnbroken ==
  ASSUME \A s \in Drawing : EntersOnce(s)
  PROVE  Spec => []StrokesUnbroken
<1>1. TypeOK => StrokesUnbroken
  BY AnswersAreRequests, RequestsCover DEF StrokesUnbroken
<1> QED
  BY <1>1, TypeCorrect, PTL

\* Every outline of every simulation can be filled, as long as the pour has about as many
\* cells on each side as a quarter of its steps, and nine more: then the border of the grid
\* stays dry. The code's pours of full intensity have 30 cells and 15 steps (fluid.go:56,
\* physics-client.ts:115). An outline that met the border would stay open.
THEOREM OutlinesAreClosed ==
  ASSUME Radius >= Steps \div 4 + 9
  PROVE  Spec => []OutlinesClosed
<1>1. ASSUME NEW q \in Requests PROVE Closes[q]
  <2>1. 100 \in 0..100 /\ Simulated[q] = RunSimulation(q, 100)
    BY DEF Intensity, Simulated
  <2>2. \A chain \in ExtractStainPolygons(RunSimulation(q, 100)[Steps].volume) : Closed(chain)
    BY <2>1, RequestIs, RunIsOutlined
  <2> QED
    BY <2>1, <2>2 DEF Closes
<1>2. TypeOK => OutlinesClosed
  BY <1>1, AnswersAreRequests DEF OutlinesClosed
<1> QED
  BY <1>2, TypeCorrect, PTL

-----------------------------------------------------------------------------
(* CoffeePour implements PourPromise.                                       *)

\* The handler starts where its promise starts.
LEMMA PromiseInit == Init => Abstract!Start
BY DEF Init, Unsent, outcomeBar, Abstract!Start

\* A handler ends with an outcome, or the pours look as before.
LEMMA OutcomeStep ==
  ASSUME Invariant, NEW p \in Pour, Send(p) \/ Handle(p)
  PROVE  /\ UNCHANGED saved
         /\ \/ UNCHANGED outcomeBar
            \/ Abstract!Refuse(p) \/ Abstract!Show(p)
<1> DEFINE h == pour[p]
<1>1. h \in Handler /\ TypeOK
  BY DEF Invariant, TypeOK
<1>2. UNCHANGED saved
  BY DEF Send, Handle, Consume, Members, Meta, Srem, Points, Answered, Unanswered, Lpush,
         Expire, RedisFails, taskVars
<1>3. /\ \A q \in Pour \ {p} : pour'[q] = pour[q]
      /\ pour'[p].outcome \in {h.outcome} \cup Outcome
  <2>1. ASSUME NEW g, Set(p, g), g.outcome \in {h.outcome} \cup Outcome
        PROVE  /\ \A q \in Pour \ {p} : pour'[q] = pour[q]
               /\ pour'[p].outcome \in {h.outcome} \cup Outcome
    BY <1>1, <2>1, SetOne
  <2>2. /\ Simplified.outcome \in Outcome
        /\ \A outcome \in Outcome : Finish(outcome).outcome \in Outcome
    BY EndIs
  <2>3. ASSUME NEW a PROVE [h EXCEPT !.at = a].outcome = h.outcome
    BY <1>1 DEF Handler
  <2>4. CASE Send(p)
    <3>1. Set(p, [h EXCEPT !.at = "limiter"])
      BY <2>4 DEF Send
    <3> HIDE DEF h
    <3> QED
      BY <2>1, <2>3, <3>1
  <2>5. CASE Members(p) \/ Srem(p) \/ Points(p)
    BY <1>1, <2>2, <2>5, ReadingIs, ReadOnIs
  <2>6. ASSUME NEW s \in Drawing, Meta(p, s)
        PROVE  /\ \A q \in Pour \ {p} : pour'[q] = pour[q]
               /\ pour'[p].outcome \in {h.outcome} \cup Outcome
    <3> DEFINE g == [h EXCEPT !.at = IF s \in hash THEN "points" ELSE "srem",
                              !.todo = @ \ {s}, !.next = {s}]
    <3>1. g.outcome = h.outcome
      BY <1>1 DEF Handler
    <3>2. Set(p, g)
      BY <2>6 DEF Meta
    <3> HIDE DEF g, h
    <3> QED
      BY <2>1, <3>1, <3>2
  <2>7. CASE Consume(p) \/ Answered(p) \/ Unanswered(p) \/ Lpush(p) \/ Expire(p) \/ RedisFails(p)
    <3>1. \/ \E outcome \in Outcome : Set(p, Finish(outcome))
          \/ \E a : Set(p, [h EXCEPT !.at = a])
      BY <2>7, EndIs DEF Consume, Answered, Unanswered, Lpush, Expire, RedisFails, Outcome
    <3> HIDE DEF h
    <3> QED
      BY <2>1, <2>2, <2>3, <3>1
  <2> QED
    BY <2>4, <2>5, <2>6, <2>7 DEF Handle
<1>4. h.at # "done"
  BY DEF Send, Handle, Consume, Members, Meta, Srem, Points, Answered, Unanswered, Lpush,
         Expire, RedisFails, RedisAwait, Await
<1>5. h.outcome = "none"
  BY <1>4 DEF Invariant, OutcomeIsEnd
<1>6. CASE pour'[p].outcome = h.outcome
  <2>1. UNCHANGED outcomeBar
    BY <1>1, <1>3, <1>6 DEF outcomeBar
  <2> QED
    BY <1>2, <2>1
<1>7. CASE pour'[p].outcome \in Outcome
  <2>1. outcomeBar[p] = "none"
    BY <1>5 DEF outcomeBar
  <2>2. outcomeBar' = [outcomeBar EXCEPT ![p] = pour'[p].outcome]
    BY <1>3 DEF outcomeBar
  <2>3. CASE pour'[p].outcome = "refused"
    BY <1>2, <2>1, <2>2, <2>3 DEF Abstract!Refuse
  <2>4. CASE pour'[p].outcome \in {"simulated", "simplified"}
    BY <1>2, <2>1, <2>2, <2>4 DEF Abstract!Show
  <2> QED
    BY <1>7, <2>3, <2>4, <1>2 DEF Outcome
<1> QED
  BY <1>3, <1>6, <1>7

\* Every step of the handler is a step of its promise, or none that it sees.
LEMMA PromiseStep ==
  ASSUME Invariant, [Next]_vars
  PROVE  [\E p \in Pour : Abstract!Refuse(p) \/ Abstract!Show(p) \/ Abstract!Keep(p)]_(Abstract!promise)
<1>1. ASSUME UNCHANGED outcomeBar, UNCHANGED saved PROVE UNCHANGED Abstract!promise
  BY <1>1 DEF Abstract!promise
<1>2. ASSUME UNCHANGED pour PROVE UNCHANGED outcomeBar
  BY <1>2 DEF outcomeBar
<1>3. ASSUME NEW p \in Pour, Persist(p)
      PROVE  UNCHANGED Abstract!promise \/ Abstract!Keep(p)
  <2>1. p \in tasks /\ saved' = saved \cup {p} /\ UNCHANGED outcomeBar
    BY <1>2, <1>3 DEF Persist
  <2>2. outcomeBar[p] = "simulated"
    BY <2>1 DEF Invariant, TasksWereShown, outcomeBar
  <2>3. CASE p \in saved
    BY <1>1, <2>1, <2>3
  <2>4. CASE p \notin saved
    BY <2>1, <2>2, <2>4 DEF Abstract!Keep
  <2> QED
    BY <2>3, <2>4
<1>4. CASE Exit
  <2>1. \A p \in Pour : pour'[p].outcome = pour[p].outcome
    <3>1. \A p \in Pour : pour[p].at \in Await => pour[p].outcome = "none"
      BY DEF Invariant, OutcomeIsEnd, Await
    <3> QED
      BY <1>4, <3>1 DEF Exit, Unsent
  <2> QED
    BY <1>1, <1>4, <2>1 DEF Exit, outcomeBar
<1>5. ASSUME NEW s \in Drawing, Begin(s) \/ Draw(s) \/ End(s) \/ EvictHash(s) \/ EvictPoints(s)
      PROVE  UNCHANGED Abstract!promise
  BY <1>1, <1>2, <1>5 DEF Begin, Draw, End, EvictHash, EvictPoints, taskVars
<1>6. ASSUME NEW p \in Pour, PersistFails(p) PROVE UNCHANGED Abstract!promise
  BY <1>1, <1>2, <1>6 DEF PersistFails
<1>7. CASE \/ EvictActiveStrokes \/ EvictStains
           \/ OpenedElsewhere \/ HalfOpen \/ GiveUp \/ Shutdown
  BY <1>1, <1>2, <1>7
  DEF EvictActiveStrokes, EvictStains, OpenedElsewhere, HalfOpen, GiveUp, Shutdown, taskVars
<1>8. CASE CloseSockets \/ Flushed \/ FlushTimeout \/ Quit
  BY <1>1, <1>2, <1>8 DEF CloseSockets, Flushed, FlushTimeout, Quit, taskVars
<1>9. CASE UNCHANGED vars
  BY <1>1, <1>2, <1>9 DEF vars, taskVars
<1> QED
  BY <1>1, <1>3, <1>4, <1>5, <1>6, <1>7, <1>8, <1>9, OutcomeStep DEF Next, Terminate

\* To whoever sees the outcomes and the database only, a pour is settled once, as refused
\* or as shown, and nothing but a simulated stain that was shown is kept: every step of
\* the handler, the breaker and the shutdown is a step of PourPromise or invisible.
THEOREM PourKeepsPromise == Spec => KeepsPromise
<1>1. Invariant /\ [Next]_vars =>
        [\E p \in Pour : Abstract!Refuse(p) \/ Abstract!Show(p) \/ Abstract!Keep(p)]_(Abstract!promise)
  BY PromiseStep
<1> QED
  BY <1>1, PromiseInit, InvariantHolds, PTL DEF Spec, KeepsPromise, Abstract!Promise

-----------------------------------------------------------------------------
(* No await of a handler is in vain, and no wait of a shutdown: what the     *)
(* liveness of the runs rests on.                                            *)

\* A handler that is to read a stroke has one to read.
ReadsAStroke == \A p \in Pour : pour[p].at = "meta" => pour[p].todo # {}

\* The awaits that a handler may still come to: two for each stroke to read.
AwaitsLeft(h) ==
  CASE h.at = "limiter"            -> 2 * Cardinality(Drawing) + 5
    [] h.at = "members"            -> 2 * Cardinality(Drawing) + 4
    [] h.at = "meta"               -> 2 * Cardinality(h.todo) + 3
    [] h.at \in {"srem", "points"} -> 2 * Cardinality(h.todo) + 4
    [] h.at = "physics"            -> 3
    [] h.at = "lpush"              -> 2
    [] h.at = "expire"             -> 1
    [] OTHER                       -> 0

NoAwaitInVain ==
  \A p \in Pour : /\ Handle(p) => AwaitsLeft(pour'[p]) < AwaitsLeft(pour[p])
                  /\ Send(p) \/ AwaitsLeft(pour'[p]) <= AwaitsLeft(pour[p])

\* The steps that a shutdown may still take.
StepsToExit ==
  CASE server = "closing"                      -> 4
    [] server = "flushing"                     -> 3
    [] server = "quitting" /\ link = "up"      -> 2
    [] server = "quitting" /\ link = "closed"  -> 1
    [] OTHER                                   -> 0

NoWaitInVain ==
  /\ Terminate => StepsToExit' < StepsToExit
  /\ Shutdown \/ StepsToExit' <= StepsToExit

\* The awaits left are a number, and none when the handler is at its end.
LEMMA AwaitsLeftType ==
  ASSUME NEW h, h.todo \in SUBSET Drawing
  PROVE  /\ IsFiniteSet(h.todo) /\ Cardinality(h.todo) \in Nat /\ Cardinality(Drawing) \in Nat
         /\ Cardinality(h.todo) <= Cardinality(Drawing)
         /\ AwaitsLeft(h) \in Nat
         /\ h.at \notin Await => AwaitsLeft(h) = 0
<1> DEFINE n == Cardinality(h.todo)
           d == Cardinality(Drawing)
<1>1. IsFiniteSet(h.todo) /\ n \in Nat /\ d \in Nat /\ n <= d
  BY FS_Subset, FS_CardinalityType
<1>2. AwaitsLeft(h) = CASE h.at = "limiter"            -> 2 * d + 5
                        [] h.at = "members"            -> 2 * d + 4
                        [] h.at = "meta"               -> 2 * n + 3
                        [] h.at \in {"srem", "points"} -> 2 * n + 4
                        [] h.at = "physics"            -> 3
                        [] h.at = "lpush"              -> 2
                        [] h.at = "expire"             -> 1
                        [] OTHER                       -> 0
  BY DEF AwaitsLeft
<1> HIDE DEF n, d
<1>3. AwaitsLeft(h) \in Nat
  BY <1>1, <1>2
<1>4. h.at \notin Await => AwaitsLeft(h) = 0
  BY <1>2 DEF Await
<1> QED
  BY <1>1, <1>3, <1>4 DEF n, d

\* The end of a handler: no await is left, and nothing to read.
LEMMA NoAwaitAtEnd ==
  ASSUME NEW h, \/ h = Simplified \/ h = [Unsent EXCEPT !.at = "dead"]
                \/ \E outcome \in Outcome : h = Finish(outcome)
  PROVE  AwaitsLeft(h) = 0 /\ h.at # "meta" /\ h.todo \in SUBSET Drawing
<1>1. h.todo = {} /\ h.at \in {"done", "dead"}
  BY EndIs DEF Unsent
<1> QED
  BY <1>1, AwaitsLeftType DEF Await

\* A handler that goes on, with the strokes of h still to read.
LEMMA ReadOnMoves ==
  ASSUME TypeOK, NEW p \in Pour, NEW h \in Handler, ReadOn(p, h)
  PROVE  /\ AwaitsLeft(pour'[p]) \in Nat
         /\ AwaitsLeft(pour'[p]) <= 2 * Cardinality(h.todo) + 3
         /\ pour'[p].at = "meta" => pour'[p].todo # {}
<1> DEFINE g == pour'[p]
<1>1. h.todo \in SUBSET Drawing
  BY DEF Handler
<1>2. Cardinality(h.todo) \in Nat
  BY <1>1, AwaitsLeftType
<1>3. CASE g = Simplified
  <2>1. AwaitsLeft(g) = 0 /\ g.at # "meta"
    BY <1>3, NoAwaitAtEnd
  <2> QED
    BY <1>2, <2>1
<1>4. CASE g # Simplified
  <2>1. g.todo = h.todo /\ g.at \in {"meta", "physics"}
    BY <1>4, ReadOnIs
  <2>2. AwaitsLeft(g) \in Nat
    BY <1>1, <2>1, AwaitsLeftType
  <2>3. AwaitsLeft(g) = IF g.at = "meta" THEN 2 * Cardinality(g.todo) + 3 ELSE 3
    BY <2>1 DEF AwaitsLeft
  <2>4. AwaitsLeft(g) <= 2 * Cardinality(h.todo) + 3
    <3> DEFINE n == Cardinality(h.todo)
    <3>1. AwaitsLeft(g) = IF g.at = "meta" THEN 2 * n + 3 ELSE 3
      BY <2>1, <2>3
    <3>2. n \in Nat
      BY <1>2
    <3> HIDE DEF n
    <3>3. AwaitsLeft(g) <= 2 * n + 3
      BY <3>1, <3>2
    <3> QED
      BY <3>3 DEF n
  <2>5. g.at = "meta" => h.todo # {}
    <3>1. CASE h.todo # {}
      BY <3>1
    <3>2. CASE h.todo = {}
      <4>1. Set(p, [h EXCEPT !.at = "physics", !.next = {}])
        BY <1>4, <3>2, SetOne DEF ReadOn
      <4>2. g = [h EXCEPT !.at = "physics", !.next = {}]
        BY <4>1, SetOne
      <4> QED
        BY <4>2 DEF Handler
    <3> QED
      BY <3>1, <3>2
  <2> QED
    BY <2>1, <2>2, <2>4, <2>5
<1> QED
  BY <1>3, <1>4

\* Every step of a handler leaves fewer awaits.
LEMMA HandleMoves ==
  ASSUME TypeOK, NEW p \in Pour, Handle(p)
  PROVE  /\ \A q \in Pour \ {p} : pour'[q] = pour[q]
         /\ AwaitsLeft(pour'[p]) < AwaitsLeft(pour[p])
         /\ pour'[p].at = "meta" => pour'[p].todo # {}
<1> DEFINE h == pour[p]
           g == pour'[p]
           n == Cardinality(h.todo)
           d == Cardinality(Drawing)
<1>1. h \in Handler /\ h.todo \in SUBSET Drawing
  BY DEF TypeOK, Handler
<1>2. n \in Nat /\ d \in Nat /\ AwaitsLeft(h) \in Nat
  BY <1>1, AwaitsLeftType
<1>3. ASSUME h.at \in Await, Set(p, Simplified) \/ \E outcome \in Outcome : Set(p, Finish(outcome))
      PROVE  /\ \A q \in Pour \ {p} : pour'[q] = pour[q]
             /\ AwaitsLeft(g) < AwaitsLeft(h) /\ g.at # "meta"
  <2>1. /\ \A q \in Pour \ {p} : pour'[q] = pour[q]
        /\ g = Simplified \/ \E outcome \in Outcome : g = Finish(outcome)
    BY <1>3, SetOne
  <2>2. AwaitsLeft(g) = 0 /\ g.at # "meta"
    BY <2>1, NoAwaitAtEnd
  <2>3. 0 < AwaitsLeft(h)
    <3> HIDE DEF h
    <3>1. AwaitsLeft(h) # 0
      <4>1. Cardinality(h.todo) \in Nat /\ Cardinality(Drawing) \in Nat
        BY <1>2 DEF n, d, h
      <4> QED
        BY <1>3, <4>1 DEF AwaitsLeft, Await
    <3> QED
      BY <1>2, <3>1
  <2> QED
    BY <2>1, <2>2, <2>3
<1>4. CASE Consume(p)
  <2>1. h.at = "limiter" /\ h.at \in Await
    BY <1>4 DEF Consume, Await
  <2>2. CASE Set(p, Finish("refused"))
    BY <1>3, <2>1, <2>2 DEF Outcome
  <2>3. CASE Set(p, [h EXCEPT !.at = "members"])
    <3>1. g = [h EXCEPT !.at = "members"] /\ \A q \in Pour \ {p} : pour'[q] = pour[q]
      BY <2>3, SetOne
    <3>2. g.at = "members"
      BY <1>1, <3>1 DEF Handler
    <3>3. AwaitsLeft(g) = 2 * d + 4 /\ AwaitsLeft(h) = 2 * d + 5
      BY <2>1, <3>2 DEF AwaitsLeft
    <3>4. AwaitsLeft(g) < AwaitsLeft(h)
      <4> HIDE DEF d, g, h
      <4> QED
        BY <1>2, <3>3
    <3> QED
      BY <3>1, <3>2, <3>4
  <2> QED
    BY <1>4, <2>2, <2>3 DEF Consume
<1>5. CASE Members(p) \/ Srem(p) \/ Points(p)
  <2>1. PICK f \in Handler :
          /\ ReadOn(p, f)
          /\ Members(p) => f.todo = listed
          /\ Srem(p) => f = h
          /\ Points(p) => f.todo = h.todo
    BY <1>5, ReadingIs
  <2>2. /\ \A q \in Pour \ {p} : pour'[q] = pour[q]
        /\ AwaitsLeft(g) \in Nat /\ AwaitsLeft(g) <= 2 * Cardinality(f.todo) + 3
        /\ g.at = "meta" => g.todo # {}
    BY <2>1, ReadOnIs, ReadOnMoves
  <2>3. CASE Members(p)
    <3>1. f.todo = listed /\ listed \in SUBSET Drawing /\ h.at = "members"
      BY <2>1, <2>3 DEF Members, TypeOK
    <3>2. Cardinality(f.todo) \in Nat /\ Cardinality(f.todo) <= d
      BY <3>1, AwaitsLeftType
    <3>3. AwaitsLeft(h) = 2 * d + 4
      BY <3>1 DEF AwaitsLeft
    <3> HIDE DEF g, h, d
    <3>4. AwaitsLeft(g) < AwaitsLeft(h)
      BY <1>2, <2>2, <3>2, <3>3
    <3> QED
      BY <2>2, <3>4 DEF g, h
  <2>4. CASE Srem(p) \/ Points(p)
    <3>1. f.todo = h.todo /\ h.at \in {"srem", "points"}
      BY <2>1, <2>4 DEF Srem, Points
    <3>2. AwaitsLeft(h) = 2 * n + 4
      BY <3>1 DEF AwaitsLeft
    <3>3. AwaitsLeft(g) <= 2 * n + 3
      BY <2>2, <3>1
    <3> HIDE DEF g, h, n
    <3>4. AwaitsLeft(g) < AwaitsLeft(h)
      BY <1>2, <2>2, <3>2, <3>3
    <3> QED
      BY <2>2, <3>4 DEF g, h
  <2> QED
    BY <1>5, <2>3, <2>4
<1>6. CASE \E s \in Drawing : Meta(p, s)
  <2>1. PICK s \in Drawing : Meta(p, s)
    BY <1>6
  <2> DEFINE f == [h EXCEPT !.at = IF s \in hash THEN "points" ELSE "srem",
                            !.todo = @ \ {s}, !.next = {s}]
  <2>2. h.at = "meta" /\ s \in h.todo /\ Set(p, f)
    BY <2>1 DEF Meta
  <2>3. f.at \in {"srem", "points"} /\ f.todo = h.todo \ {s}
    BY <1>1 DEF Handler
  <2> HIDE DEF f
  <2>4. g = f /\ \A q \in Pour \ {p} : pour'[q] = pour[q]
    BY <2>2, SetOne
  <2>5. Cardinality(h.todo \ {s}) = n - 1
    <3>1. IsFiniteSet(h.todo)
      BY <1>1, AwaitsLeftType
    <3> QED
      BY <2>2, <3>1, FS_RemoveElement
  <2>6. AwaitsLeft(h) = 2 * n + 3 /\ AwaitsLeft(g) = 2 * Cardinality(h.todo \ {s}) + 4
    BY <2>2, <2>3, <2>4 DEF AwaitsLeft
  <2>7. AwaitsLeft(g) < AwaitsLeft(h)
    <3> HIDE DEF g, h, n
    <3>1. AwaitsLeft(g) = 2 * (n - 1) + 4
      BY <2>5, <2>6
    <3> QED
      BY <1>2, <2>6, <3>1
  <2> QED
    BY <2>3, <2>4, <2>7
<1>7. CASE Answered(p)
  <2>1. h.at = "physics" /\ h.at \in Await
    BY <1>7 DEF Answered, Await
  <2>2. CASE Set(p, Simplified)
    BY <1>3, <2>1, <2>2
  <2>3. CASE Set(p, [h EXCEPT !.at = "lpush"])
    <3>1. g = [h EXCEPT !.at = "lpush"] /\ \A q \in Pour \ {p} : pour'[q] = pour[q]
      BY <2>3, SetOne
    <3>2. g.at = "lpush"
      BY <1>1, <3>1 DEF Handler
    <3>3. AwaitsLeft(g) = 2 /\ AwaitsLeft(h) = 3
      BY <2>1, <3>2 DEF AwaitsLeft
    <3> QED
      BY <3>1, <3>2, <3>3
  <2> QED
    BY <1>7, <2>2, <2>3 DEF Answered
<1>8. CASE Unanswered(p)
  BY <1>3, <1>8 DEF Unanswered, Await
<1>9. CASE Lpush(p)
  <2>1. h.at = "lpush" /\ Set(p, [h EXCEPT !.at = "expire"])
    BY <1>9 DEF Lpush
  <2>2. g = [h EXCEPT !.at = "expire"] /\ \A q \in Pour \ {p} : pour'[q] = pour[q]
    BY <2>1, SetOne
  <2>3. g.at = "expire"
    BY <1>1, <2>2 DEF Handler
  <2>4. AwaitsLeft(g) = 1 /\ AwaitsLeft(h) = 2
    BY <2>1, <2>3 DEF AwaitsLeft
  <2> QED
    BY <2>2, <2>3, <2>4
<1>10. CASE Expire(p)
  BY <1>3, <1>10 DEF Expire, Await, Outcome
<1>11. CASE RedisFails(p)
  BY <1>3, <1>11 DEF RedisFails, RedisAwait, Outcome
<1> QED
  BY <1>4, <1>5, <1>6, <1>7, <1>8, <1>9, <1>10, <1>11 DEF Handle

\* What the other steps do to the handlers.
LEMMA OthersMove ==
  ASSUME TypeOK, NEW p \in Pour, [Next]_vars, ~Send(p), ~Handle(p)
  PROVE  pour'[p] = pour[p] \/ pour'[p] = [Unsent EXCEPT !.at = "dead"]
<1>1. ASSUME NEW q \in Pour, Send(q) \/ Handle(q) PROVE pour'[p] = pour[p]
  <2>1. p # q
    BY <1>1
  <2>2. CASE Send(q)
    BY <2>1, <2>2, SetOne DEF Send
  <2>3. CASE Handle(q)
    BY <2>1, <2>3, HandleMoves
  <2> QED
    BY <1>1, <2>2, <2>3
<1>2. CASE Exit
  BY <1>2 DEF Exit
<1>3. ASSUME NEW s \in Drawing, Begin(s) \/ Draw(s) \/ End(s) \/ EvictHash(s) \/ EvictPoints(s)
      PROVE  UNCHANGED pour
  BY <1>3 DEF Begin, Draw, End, EvictHash, EvictPoints
<1>4. ASSUME NEW q \in Pour, Persist(q) \/ PersistFails(q) PROVE UNCHANGED pour
  BY <1>4 DEF Persist, PersistFails
<1>5. CASE \/ EvictActiveStrokes \/ EvictStains
           \/ OpenedElsewhere \/ HalfOpen \/ GiveUp \/ Shutdown
           \/ CloseSockets \/ Flushed \/ FlushTimeout \/ Quit
  BY <1>5 DEF EvictActiveStrokes, EvictStains, OpenedElsewhere, HalfOpen, GiveUp, Shutdown, CloseSockets, Flushed,
              FlushTimeout, Quit
<1>6. CASE UNCHANGED vars
  BY <1>6 DEF vars
<1> QED
  BY <1>1, <1>2, <1>3, <1>4, <1>5, <1>6 DEF Next, Terminate

\* A pour that is sent reads nothing yet.
LEMMA SendMoves ==
  ASSUME TypeOK, NEW p \in Pour, Send(p)
  PROVE  pour'[p].at = "limiter"
<1>1. pour'[p] = [pour[p] EXCEPT !.at = "limiter"] /\ pour[p] \in Handler
  BY SetOne DEF TypeOK, Send
<1> QED
  BY <1>1 DEF Handler

\* A handler never waits for the metadata of a stroke without having one to read, so
\* there is always a command that Redis may answer, or refuse (index.ts:650-685).
THEOREM ReadersHaveAStroke == Spec => []ReadsAStroke
<1>1. Init => ReadsAStroke
  BY DEF Init, Unsent, ReadsAStroke
<1>2. TypeOK /\ ReadsAStroke /\ [Next]_vars => ReadsAStroke'
  <2> SUFFICES ASSUME TypeOK, ReadsAStroke, [Next]_vars, NEW p \in Pour
               PROVE  pour'[p].at = "meta" => pour'[p].todo # {}
    BY DEF ReadsAStroke
  <2>1. CASE Send(p)
    BY <2>1, SendMoves
  <2>2. CASE Handle(p)
    BY <2>2, HandleMoves
  <2>3. CASE ~Send(p) /\ ~Handle(p)
    BY <2>3, OthersMove, NoAwaitAtEnd DEF ReadsAStroke
  <2> QED
    BY <2>1, <2>2, <2>3
<1> QED
  BY <1>1, <1>2, TypeCorrect, PTL DEF Spec

\* Every answer, failure or deadline brings a handler nearer its outcome, and nothing
\* takes it back: a pour is settled after at most two awaits for each stroke and five
\* more, however the strokes and the other pours go on (index.ts:615-793).
THEOREM EveryAwaitCounts == Spec => [][NoAwaitInVain]_vars
<1>1. TypeOK /\ [Next]_vars => [NoAwaitInVain]_vars
  <2> SUFFICES ASSUME TypeOK, [Next]_vars, NEW p \in Pour
               PROVE  /\ Handle(p) => AwaitsLeft(pour'[p]) < AwaitsLeft(pour[p])
                      /\ Send(p) \/ AwaitsLeft(pour'[p]) <= AwaitsLeft(pour[p])
    BY DEF NoAwaitInVain
  <2>1. AwaitsLeft(pour[p]) \in Nat
    BY AwaitsLeftType DEF TypeOK, Handler
  <2>2. AwaitsLeft(pour'[p]) \in Nat
    <3>1. pour'[p].todo \in SUBSET Drawing
      BY TypeStep DEF TypeOK, Handler
    <3> QED
      BY <3>1, AwaitsLeftType
  <2>3. CASE Handle(p)
    <3>1. AwaitsLeft(pour'[p]) < AwaitsLeft(pour[p])
      BY <2>3, HandleMoves
    <3> QED
      BY <2>1, <2>2, <3>1
  <2>4. CASE ~Handle(p) /\ ~Send(p)
    <3>1. CASE pour'[p] = pour[p]
      BY <2>1, <2>4, <3>1
    <3>2. CASE pour'[p] = [Unsent EXCEPT !.at = "dead"]
      <4>1. AwaitsLeft(pour'[p]) = 0
        BY <3>2, NoAwaitAtEnd
      <4> QED
        BY <2>1, <2>4, <4>1
    <3> QED
      BY <2>4, <3>1, <3>2, OthersMove
  <2>5. CASE ~Handle(p) /\ Send(p)
    BY <2>5
  <2> QED
    BY <2>3, <2>4, <2>5
<1> QED
  BY <1>1, TypeCorrect, PTL DEF Spec

\* Every step of a shutdown brings it nearer its end and nothing takes it back, so a
\* database that never answers cannot hold the process (index.ts:847-869, 976-1009).
THEOREM EveryWaitEnds == Spec => [][NoWaitInVain]_vars
<1>1. TypeOK /\ [Next]_vars => [NoWaitInVain]_vars
  <2> SUFFICES ASSUME TypeOK, [Next]_vars PROVE NoWaitInVain
    OBVIOUS
  <2>1. link \in {"up", "closed"} /\ StepsToExit \in 0..4
    BY DEF TypeOK, StepsToExit
  <2>2. CASE Terminate
    <3>1. StepsToExit' < StepsToExit
      <4>1. CASE CloseSockets
        BY <4>1 DEF CloseSockets, StepsToExit
      <4>2. CASE Flushed \/ FlushTimeout
        <5>1. server = "flushing" /\ server' = "quitting" /\ link' = link
          BY <4>2 DEF Flushed, FlushTimeout
        <5> QED
          BY <5>1 DEF StepsToExit
      <4>3. CASE Quit
        BY <4>3 DEF Quit, StepsToExit, serverVars
      <4>4. CASE Exit
        BY <4>4 DEF Exit, StepsToExit
      <4> QED
        BY <2>2, <4>1, <4>2, <4>3, <4>4 DEF Terminate
    <3>2. StepsToExit' \in 0..4
      BY DEF StepsToExit
    <3> QED
      BY <2>1, <3>1, <3>2 DEF NoWaitInVain
  <2>3. CASE ~Terminate /\ server' = server /\ (link' = link \/ link' = "closed")
    BY <2>1, <2>3 DEF NoWaitInVain, StepsToExit
  <2>4. CASE ~Terminate /\ Shutdown
    BY <2>4 DEF NoWaitInVain
  <2>5. ASSUME NEW s \in Drawing, Begin(s) \/ Draw(s) \/ End(s) \/ EvictHash(s) \/ EvictPoints(s)
        PROVE  server' = server /\ link' = link
    BY <2>5 DEF Begin, Draw, End, EvictHash, EvictPoints, serverVars
  <2>6. ASSUME NEW p \in Pour, Send(p) \/ Handle(p) \/ Persist(p) \/ PersistFails(p)
        PROVE  server' = server /\ link' = link
    BY <2>6 DEF Send, Handle, Persist, PersistFails, Consume, Members, Meta, Srem, Points,
                Answered, Unanswered, Lpush, Expire, RedisFails, serverVars
  <2>7. CASE EvictActiveStrokes \/ EvictStains \/ OpenedElsewhere \/ HalfOpen \/ GiveUp
    BY <2>3, <2>7, <2>2
    DEF EvictActiveStrokes, EvictStains, OpenedElsewhere, HalfOpen, GiveUp, serverVars
  <2>8. CASE UNCHANGED vars
    BY <2>2, <2>3, <2>8 DEF vars, serverVars
  <2> QED
    BY <2>2, <2>3, <2>4, <2>5, <2>6, <2>7, <2>8 DEF Next
<1> QED
  BY <1>1, TypeCorrect, PTL DEF Spec

=============================================================================
