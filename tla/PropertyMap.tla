----------------------------- MODULE PropertyMap -----------------------------
(***************************************************************************)
(* What utils::properties promises the processes of one user: one map of   *)
(* the properties, in which load and store take effect at one moment       *)
(* between their call and their return. What it does not promise: a store  *)
(* does nothing where the file cannot be written, and a process that dies  *)
(* inside a call may take the whole map with it.                           *)
(***************************************************************************)
EXTENDS Naturals

CONSTANTS
  Procs,       (* the processes that share the properties                  *)
  Keys, Key,   (* the names of the properties; the one that is asked for   *)
  Values,      (* what a property may hold                                 *)
  Texts,       (* the values that are strings                              *)
  None

VARIABLES
  map,         (* the properties                                           *)
  call,        (* process -> "out", "load" or "store"                      *)
  result,      (* process -> what its last load has answered, or None      *)
  deaths       (* how many processes have died so far                      *)

vars == <<map, call, result, deaths>>

Empty == [k \in Keys |-> None]

Init ==
  /\ map \in [Keys -> Values \cup {None}]
  /\ call = [p \in Procs |-> "out"]
  /\ result = [p \in Procs |-> None]
  /\ deaths = 0

Call(p, c) ==
  /\ call[p] = "out"
  /\ call' = [call EXCEPT ![p] = c]
  /\ UNCHANGED <<map, result, deaths>>

Load(p) ==
  /\ call[p] = "load"
  /\ result' = [result EXCEPT ![p] = IF map[Key] \in Texts THEN map[Key] ELSE None]
  /\ UNCHANGED <<map, call, deaths>>

\* No other property changes with the one that is stored.
Store(p) ==
  /\ call[p] = "store"
  /\ \E v \in Texts : map' = [map EXCEPT ![Key] = v]
  /\ UNCHANGED <<call, result, deaths>>

Return(p) ==
  /\ call[p] # "out"
  /\ call' = [call EXCEPT ![p] = "out"]
  /\ UNCHANGED <<map, result, deaths>>

\* Outside of a call a death takes nothing with it.
Die(p) ==
  /\ deaths' = deaths + 1
  /\ call' = [call EXCEPT ![p] = "out"]
  /\ result' = [result EXCEPT ![p] = None]
  /\ map' = map \/ (call[p] # "out" /\ map' = Empty)

Next == \E p \in Procs :
  \/ \E c \in {"load", "store"} : Call(p, c)
  \/ Load(p) \/ Store(p) \/ Return(p) \/ Die(p)

Spec == Init /\ [][Next]_vars
==============================================================================
