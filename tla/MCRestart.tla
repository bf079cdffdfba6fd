----------------------------- MODULE MCRestart ------------------------------
(***************************************************************************)
(* The instance of Restart for TLC, with the chains of MCProxyKeeper.      *)
(***************************************************************************)
EXTENDS MCProxyKeeper, Restart
=============================================================================
