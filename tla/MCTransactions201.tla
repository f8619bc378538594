-------------------------- MODULE MCTransactions201 --------------------------
(* Stations with two EVSEs, for TLC.                                         *)
EXTENDS Transactions201

\* Connectors numbered across the station, as in 1.6
Distinct == {<<1, 1>>, <<2, 2>>}

\* Connectors numbered from 1 on each EVSE, as OCPP 2.0.1 prescribes
PerEvse == {<<1, 1>>, <<2, 1>>}
=============================================================================
