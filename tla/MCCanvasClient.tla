----------------------------- MODULE MCCanvasClient -----------------------------
(* One tab that gets credentials twice, for one room or two, and a watcher. *)
EXTENDS CanvasClient
CONSTANTS r1, r2
MCRoom == {r1, r2}
=============================================================================
