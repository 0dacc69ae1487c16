---------------------------- MODULE MCCanvasHistory ----------------------------
(* A small instance of CanvasHistory: a stroke and two stains, one of them on    *)
(* the stroke, in two chunks.                                                     *)
EXTENDS CanvasHistory, TLC

CONSTANTS k1, t1, t2, c1, c2

MCTarget == t1 :> {k1} @@ t2 :> {}
MCChunkOf == k1 :> c1 @@ t1 :> c1 @@ t2 :> c2

=============================================================================
