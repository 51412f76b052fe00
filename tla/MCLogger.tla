------------------------------ MODULE MCLogger ------------------------------
(* Two instances of one game, which share both files; the first logs from two *)
(* threads.                                                                   *)
EXTENDS Logger, TLC

CONSTANTS a, b, a1, a2, b1

MCInstanceOf == a1 :> a @@ a2 :> a @@ b1 :> b
MCHome == a :> "beside" @@ b :> "beside"
=============================================================================
