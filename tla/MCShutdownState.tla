-------------------------- MODULE MCShutdownState --------------------------
(* The instance of ShutdownState for TLC; the constants are in the cfg.    *)
EXTENDS ShutdownState
=============================================================================
