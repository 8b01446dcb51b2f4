---------------------------- MODULE MCLiveEvents ----------------------------
(* One client of any kind; the constants are in the configuration.         *)
EXTENDS LiveEvents
=============================================================================
