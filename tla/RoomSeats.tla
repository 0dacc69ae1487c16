------------------------------- MODULE RoomSeats -------------------------------
(***************************************************************************)
(* What the room service promises (requirements 4.1 and 4.3): a room opens *)
(* with its creator in it, and a person takes a seat only while one is     *)
(* free, in a colour that nobody in the room has unless all are taken.     *)
(* Each of the two is one indivisible step.                                *)
(***************************************************************************)
EXTENDS Naturals, FiniteSets

CONSTANTS Code, Person, Color, Capacity

VARIABLES
  capacity,   \* [Code -> seats of the room, 0 where no room has the code]
  seats       \* [Code -> the set of people in the room, with their colours]

vars == <<capacity, seats>>

Seat == [who : Person, color : Color]

Init ==
  /\ capacity = [c \in Code |-> 0]
  /\ seats = [c \in Code |-> {}]

Seated(p) == \E c \in Code : \E s \in seats[c] : s.who = p

Open(c, p) ==
  /\ capacity[c] = 0 /\ ~Seated(p)
  /\ \E n \in Capacity : capacity' = [capacity EXCEPT ![c] = n]
  /\ \E color \in Color : seats' = [seats EXCEPT ![c] = {[who |-> p, color |-> color]}]

Take(c, p) ==
  LET worn == {s.color : s \in seats[c]} IN
  /\ capacity[c] > Cardinality(seats[c]) /\ ~Seated(p)
  /\ \E color \in Color :
       /\ color \in worn => worn = Color
       /\ seats' = [seats EXCEPT ![c] = @ \cup {[who |-> p, color |-> color]}]
  /\ UNCHANGED capacity

Next == \E c \in Code, p \in Person : Open(c, p) \/ Take(c, p)

Spec == Init /\ [][Next]_vars

=============================================================================
