---------------------------- MODULE MCBashTool -----------------------------
(* The sizes are in the configuration.                                     *)
EXTENDS BashTool
=============================================================================
