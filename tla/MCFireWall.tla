----------------------------- MODULE MCFireWall -----------------------------
(* Instance of FireWall for TLC: rules of each kind, see FwRules.cfg.      *)
EXTENDS FireWall
=============================================================================
