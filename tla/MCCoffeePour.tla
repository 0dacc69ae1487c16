------------------------------ MODULE MCCoffeePour ------------------------------
(* A small instance of CoffeePour: a broad dark stroke beside the pour, drawn     *)
(* while the pours read it, and a thin one that was left and ends on it, so that  *)
(* they share a cell. The pour reaches both.                                      *)
EXTENDS CoffeePour

Stroke1 == [id |-> 1, path |-> << <<-5, -15>>, <<-5, 15>> >>, dark |-> 100, width |-> 30]
Stroke2 == [id |-> 2, path |-> << <<-25, 5>>, <<-5, 5>> >>, dark |-> 10, width |-> 4]
MCDrawing == {Stroke1, Stroke2}
MCAbandoned == {Stroke2}

=============================================================================
