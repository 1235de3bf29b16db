---------------------------- MODULE MCAndroidBLE ----------------------------
(* AndroidBLE for TLC: its constants are given in the .cfg files.           *)
EXTENDS AndroidBLE
=============================================================================
