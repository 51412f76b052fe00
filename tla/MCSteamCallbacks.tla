-------------------------- MODULE MCSteamCallbacks --------------------------
(* Two threads of the game that ask and run the callbacks, two listeners.   *)
EXTENDS SteamCallbacks
CONSTANTS t1, t2, l1, l2
TwoThreads == {t1, t2}
MCListeners == {l1, l2}
=============================================================================
