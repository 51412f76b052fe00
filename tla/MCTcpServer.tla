---------------------------- MODULE MCTcpServer ----------------------------
(* Two sockets linked to one service: a request without an answer (POST     *)
(* /auth/), a long and a short answer, buffers shorter and longer than one. *)
EXTENDS TcpServer
CONSTANTS s1, s2
TwoSockets == {s1, s2}
MCReplyLen == <<2, 0, 1>>
=============================================================================
