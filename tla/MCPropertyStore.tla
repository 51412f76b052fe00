--------------------------- MODULE MCPropertyStore ---------------------------
(* Two instances of the game, two names to choose from, one property of an   *)
(* earlier version, and two deaths. The files of earlier runs: with a name,  *)
(* without one, and with a name that is no string.                           *)
EXTENDS PropertyStore
CONSTANTS p1, p2, n1, n2
TwoInstances == {p1, p2}
TwoNames == {n1, n2}
EarlierRuns == { [k \in Keys |-> IF k = Key THEN v ELSE n2] : v \in {n1, None, Junk} }
==============================================================================
