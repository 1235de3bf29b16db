--------------------------- MODULE MCWifiLifecycle ---------------------------
(* WifiLifecycle for TLC: its constants are given in the .cfg files.        *)
EXTENDS WifiLifecycle
=============================================================================
