---------------------------- MODULE MCReplyFormat ----------------------------
(* Sample bytes that the types of other fields are among, zeros included. *)
EXTENDS ReplyFormat

MCVariants == {0, 1}

MCSample(kind, n, v) ==
    CASE kind = "string" -> IF (n + v) % 2 = 0 THEN <<>> ELSE <<64 + n, 16>>
      [] kind \in {"blob", "struct"} -> <<0, n, 19>>
      [] kind = "tags" -> IF v = 0 THEN <<>> ELSE Word(n) \o Word(0) \o Word(8) \o Word(0)
      [] kind = "raw4" -> <<127, 0, 0, n>>
      [] OTHER -> [i \in 1 .. Width[kind] |-> IF i = 1 THEN n ELSE IF i = 2 THEN 8 ELSE 0]
=============================================================================
