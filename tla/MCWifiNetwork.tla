---------------------------- MODULE MCWifiNetwork ----------------------------
(* Small instances of WifiNetwork: one frame to send, one to receive.       *)
EXTENDS WifiNetwork, TLC

CONSTANTS out, in

MCSendFrames == {out}
MCFrameSize == out :> 1
MCRecvFrames == {in}
MCNoSizes == {}

\* A peer that sends nothing valid.
MCNoDatagrams == {}
=============================================================================
