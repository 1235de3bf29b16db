----------------------------- MODULE MCManager -----------------------------
(* Manager for TLC: its constants are given in the .cfg file.              *)
EXTENDS Manager
=============================================================================
