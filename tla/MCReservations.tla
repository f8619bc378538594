---------------------------- MODULE MCReservations ----------------------------
(* Two connectors that are alike, for TLC.                                   *)
EXTENDS Reservations, TLC

Alike == Permutations(Connectors)
=============================================================================
