--------------------------- MODULE MCWifiReceiver ---------------------------
(* Small instances of WifiReceiver.                                         *)
EXTENDS WifiReceiver

CONSTANTS f1, f2

MCFrames == {f1, f2}

\* One frame, two frames, a frame with a bad tail, an empty datagram.
MCDatagrams == {<<f1>>, <<f1, f2>>, <<f2, Malformed>>, <<>>}

\* For liveness: a datagram carries one frame.
MCOneDatagram == {<<f1>>}
=============================================================================
