---------------------------- MODULE MCIW5Probe ----------------------------
(* A stick direction and a button of one pad, and files that swap their keys  *)
(* or take Ctrl for one of them, saved twice while the two threads run.       *)
EXTENDS IW5Probe
CONSTANTS W, Q
MCOrder == <<"stick", "face">>
MCKeys == {W, Q, Ctrl, C}
Bind(s, f) == [i \in {"stick", "face"} |-> IF i = "stick" THEN s ELSE f]
MCDefaultBind == Bind(W, Q)
MCBinds == {MCDefaultBind, Bind(Q, W), Bind(W, Ctrl)}
=============================================================================
