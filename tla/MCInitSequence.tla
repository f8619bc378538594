---------------------------- MODULE MCInitSequence ----------------------------
(* One key with a factory and an initial value, for TLC.                     *)
EXTENDS InitSequence
=============================================================================
