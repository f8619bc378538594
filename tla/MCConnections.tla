---------------------------- MODULE MCConnections ----------------------------
(* Connections on small sets.  Two client objects of one identity, each used *)
(* again once it is closed, are enough for a connection and the one that it  *)
(* replaced, which every property is about; what a third could add is proved *)
(* impossible for the safety properties.                                     *)
EXTENDS Connections

=============================================================================
