----------------------------- MODULE ReplyStream -----------------------------
(***************************************************************************)
(* What an emulated TCP service promises the game, without threads, queues *)
(* or locks: requests are answered one by one in the order they were sent, *)
(* and the bytes of the answers are read in that order, each exactly once. *)
(***************************************************************************)
EXTENDS Naturals, Sequences, SequencesExt

CONSTANTS
  Requests,    (* the requests the game may send, each once                 *)
  Reply(_)     (* the bytes a request is answered with, possibly none       *)

VARIABLES
  asked,       (* requests not answered yet, oldest first                   *)
  stream       (* bytes answered and not read yet                           *)

vars == <<asked, stream>>

Init == asked = <<>> /\ stream = <<>>

Ask(r) == asked' = Append(asked, r) /\ UNCHANGED stream

Answer ==
  /\ asked # <<>>
  /\ asked' = Tail(asked)
  /\ stream' = stream \o Reply(Head(asked))

Read ==
  /\ \E n \in 1..Len(stream) : stream' = SubSeq(stream, n + 1, Len(stream))
  /\ UNCHANGED asked

Next == (\E r \in Requests : Ask(r)) \/ Answer \/ Read

Spec == Init /\ [][Next]_vars
==============================================================================
