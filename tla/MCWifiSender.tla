---------------------------- MODULE MCWifiSender ----------------------------
(* Small instances of WifiSender with the sizes of the code: the buffer     *)
(* holds 65527 bytes and UDP over IPv4 carries 65507.                       *)
EXTENDS WifiSender, TLC

CONSTANTS f1, f2, f3, f4

MCFrames == {f1, f2, f3, f4}

IP_MAXPACKET == 65535
UDP_HEADER_SIZE == 8
IP_HEADER_SIZE == 20
FRAME_HEADER_SIZE == 7

\* ARNETWORKAL_WIFINETWORK_MAX_DATA_BUFFER_SIZE plus the frame header.
MCBufferSize == (IP_MAXPACKET - UDP_HEADER_SIZE - FRAME_HEADER_SIZE)
                  + FRAME_HEADER_SIZE
MCUdpMax == IP_MAXPACKET - UDP_HEADER_SIZE - IP_HEADER_SIZE

\* Three frames that fill a datagram to the byte; the fourth fills the buffer
\* to the byte, with a batch of 65527 that no datagram carries.
MCSizes == f1 :> FRAME_HEADER_SIZE @@ f2 :> 40000 @@ f3 :> 25500 @@ f4 :> 20
=============================================================================
