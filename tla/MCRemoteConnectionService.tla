---------------------- MODULE MCRemoteConnectionService ----------------------
(* Instances of RemoteConnectionService for TLC. *)
EXTENDS RemoteConnectionService
=============================================================================
