---------------------------- MODULE MCIpcReconnect ----------------------------
(* Instances of IpcReconnect for TLC: one caller and one handler are enough,   *)
(* since callers meet only at the connection, whose queue of one entry the     *)
(* answers to the router fill, and two connections succeed each other; the     *)
(* configurations give the constants their values.                             *)
EXTENDS IpcReconnect
=============================================================================
