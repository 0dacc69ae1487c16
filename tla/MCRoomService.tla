---------------------------- MODULE MCRoomService ----------------------------
(* Model values for the runs of RoomService. *)
EXTENDS RoomService

=============================================================================
