---------------------------- MODULE MCMuxNetwork ----------------------------
(* MuxNetwork for TLC: its constants are given in the .cfg files.           *)
EXTENDS MuxNetwork
=============================================================================
