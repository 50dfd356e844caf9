---------------------------- MODULE MCWsService ----------------------------
(* Instances of WsService for TLC. *)
EXTENDS WsService, TLC
=============================================================================
