--------------------------- MODULE MCTransactions16 ---------------------------
(* Small instances of Transactions16 for TLC: the connectors of a charge     *)
(* point are interchangeable.                                                *)
EXTENDS Transactions16, TLC

Connectors == Permutations(Connector)
=============================================================================
