--------------------------- MODULE MCXInputProbe ---------------------------
(* A stick direction, two buttons or a trigger, two pads, and ini files that  *)
(* keep the default, swap keys, bind a key twice or take Ctrl and C.          *)
EXTENDS XInputProbe
CONSTANTS stick, face, rt, W, Q
MCOrder == <<stick, face, rt>>
MCTriggers == {rt}
MCKeys == {W, Q, Ctrl, C}
Bind(s, f) == [i \in {stick, face} |-> IF i = stick THEN s ELSE f]
MCDefaultBind == Bind(W, Q)
MCBinds == {MCDefaultBind, Bind(Q, Q), Bind(W, Ctrl)}
=============================================================================
