--------------------------- MODULE MCLobbySession ---------------------------
(* One connection, closed and opened again at any time.                      *)
EXTENDS LobbySession
CONSTANTS s1
OneSocket == {s1}
=============================================================================
