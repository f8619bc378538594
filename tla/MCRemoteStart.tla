---------------------------- MODULE MCRemoteStart ----------------------------
(* One connector, two remote starts and two rows: an older request, or row,    *)
(* meets a newer one.                                                          *)
EXTENDS RemoteStart

=============================================================================
