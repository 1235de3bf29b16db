---------------------------- MODULE MCBLENetwork ----------------------------
(* BLENetwork for TLC: its constants are given in the .cfg files.           *)
EXTENDS BLENetwork
=============================================================================
