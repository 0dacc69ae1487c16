--------------------------- MODULE MCStrokePipeline ---------------------------
(* Model values for the runs of StrokePipeline. The strokes are alike: nothing *)
(* in the handlers orders or compares them.                                    *)
EXTENDS StrokePipeline, TLC

Symmetry == Permutations(Stroke)

=============================================================================
