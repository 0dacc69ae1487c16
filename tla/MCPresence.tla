------------------------------ MODULE MCPresence ------------------------------
(* Model values for the runs of Presence: sockets, users and instances are each *)
(* interchangeable, but Init starts from one user and one instance, so only the *)
(* sockets are permuted.                                                        *)
EXTENDS Presence, TLC

Symmetry == Permutations(Socket)

=============================================================================
