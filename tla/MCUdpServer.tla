---------------------------- MODULE MCUdpServer ----------------------------
(* Two services and two sockets.                                            *)
EXTENDS UdpServer
CONSTANTS s1, s2, v1, v2
TwoSockets == {s1, s2}
MCServers == {v1, v2}
MCOrder == <<v1, v2>>
=============================================================================
