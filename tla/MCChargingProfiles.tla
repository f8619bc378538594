--------------------------- MODULE MCChargingProfiles ---------------------------
(* Two requests that may overlap, one of them of a manager that uses push-all, *)
(* and two rows of either slot: one, and the one that takes its id or its place. *)
EXTENDS ChargingProfiles

=============================================================================
