----------------------------- MODULE SteamProofs -----------------------------
(***************************************************************************)
(* Theorems about SteamCallbacks, for any threads, listeners and calls.    *)
(***************************************************************************)
EXTENDS SteamCallbacks, SequenceTheorems, FiniteSetTheorems, TLAPS

(* How many of the results run_callbacks has looked up a handler for.      *)
Passed == IF owner = Nobody THEN 0 ELSE IF stage = "result" THEN at - 1 ELSE at

Walked(c) == \E i \in 1..Len(results) : i <= Passed /\ results[i] = c

(* Types, and what is reset between two results.                           *)
Shape ==
  /\ TypeOK
  /\ bound \in Nat /\ at \in Nat \ {0}
  /\ ran \in [1..MaxCalls -> Nat]
  /\ owner = Nobody => stage = "result"
  /\ owner # Nobody /\ stage # "result" => at <= bound
  /\ stage # "walk" => /\ slots = <<>> /\ turn = 1 /\ ~shaken /\ due = <<>>
                       /\ heard = [l \in Listeners |-> 0]
  /\ \A t \in Threads : pc[t] # "out" => call[t] \in Calls
  /\ \A t \in Threads : pc[t] = "posting" => Posts(calls[call[t]])

(* A call is posted by one thread, once; a handler that has run belongs to *)
(* a result that is freed or passed.                                       *)
Once ==
  /\ gone \cap ToSet(results) = {} /\ IsInjective(results)
  /\ \A t \in Threads : pc[t] = "posting" => call[t] \notin gone \cup ToSet(results)
  /\ \A t, u \in Threads : pc[t] = "posting" /\ pc[u] = "posting" /\ t # u => call[t] # call[u]
  /\ \A c \in 1..MaxCalls : ran[c] = 0 \/ (ran[c] = 1 /\ (c \in gone \/ Walked(c)))

(* The turns a listener has had.                                           *)
Turns(l) == {i \in 1..Len(slots) : i < turn /\ slots[i] = l}

(* As long as nothing is erased, the walk stands on the front of the list. *)
Walk ==
  stage = "walk" /\ ~shaken =>
    /\ Len(slots) <= Len(listening) /\ \A i \in 1..Len(slots) : slots[i] = listening[i]
    /\ due = slots
    /\ \A l \in Listeners : heard[l] = Cardinality(Turns(l))

Settled(c) == calls[c] = "stats" \/ ran[c] = 1 \/ c \in nested \cup early \cup withdrawn

(* What was not posted from inside a handler lies before the end that      *)
(* run_callbacks took, and its handler is there or on its way.             *)
Told ==
  /\ \A i \in 1..Len(results) : calls[results[i]] # "lobby"
  /\ \A i \in 1..Len(results) : i <= Passed => Settled(results[i])
  /\ \A c \in gone : Settled(c)
  /\ \A i \in 1..Len(results) :
       calls[results[i]] = "ticket" =>
         \/ results[i] \in handlers \cup withdrawn
         \/ \E u \in Threads : call[u] = results[i] /\ pc[u] = "registering"
  /\ owner # Nobody => \A i \in 1..Len(results) : i > bound => results[i] \in nested

IInv == Shape /\ Once /\ Walk /\ Told

------------------------------------------------------------------------------
(* Shape. *)

LEMMA FunctionIsSequence ==
  ASSUME NEW S, NEW n \in Nat, NEW f \in [1..n -> S]
  PROVE  f \in Seq(S) /\ Len(f) = n
<1>1. f \in Seq(S)
  BY SeqDef
<1> QED BY <1>1, LenProperties

LEMMA WiderSequence ==
  ASSUME NEW S, NEW T, S \subseteq T, NEW s \in Seq(S)
  PROVE  s \in Seq(T)
<1>1. s \in [1..Len(s) -> S] /\ Len(s) \in Nat
  BY LenProperties
<1>2. s \in [1..Len(s) -> T]
  BY <1>1
<1> QED BY <1>1, <1>2, FunctionIsSequence

(* The buffer under the walk stays as long as it was, and holds listeners. *)
LEMMA UnderlayShape ==
  ASSUME slots \in Seq(Listeners), NEW list \in Seq(Listeners), NEW s \in Underlay(list)
  PROVE  s \in Seq(Listeners) /\ Len(s) = Len(slots)
<1>1. CASE s \in [1..Len(slots) -> ToSet(slots) \cup ToSet(list)]
  <2>1. ToSet(slots) \cup ToSet(list) \subseteq Listeners
    BY DEF ToSet
  <2>2. s \in [1..Len(slots) -> Listeners]
    BY <1>1, <2>1
  <2> QED BY <2>2, FunctionIsSequence
<1>2. CASE s = slots
  BY <1>2
<1>3. s = slots \/ s \in [1..Len(slots) -> ToSet(slots) \cup ToSet(list)]
  <2>1. DOMAIN slots = 1..Len(slots)
    OBVIOUS
  <2> QED BY <2>1 DEF Underlay
<1> QED BY <1>1, <1>2, <1>3

(* What is left of a list when a listener is erased.                       *)
LEMMA WithoutShape ==
  ASSUME NEW s \in Seq(Listeners), NEW l, NEW r \in Without(s, l)
  PROVE  r \in Seq(Listeners)
<1>1. PICK f \in UNION {[1..m -> {i \in DOMAIN s : s[i] # l}] : m \in 0..Len(s)} :
         r = [k \in DOMAIN f |-> s[f[k]]]
  BY DEF Without
<1>2. PICK m \in 0..Len(s) : f \in [1..m -> {i \in DOMAIN s : s[i] # l}]
  OBVIOUS
<1>3. r \in [1..m -> Listeners]
  BY <1>1, <1>2
<1> QED BY <1>3, FunctionIsSequence

LEMMA CallsFit == TypeOK => Calls \subseteq 1..MaxCalls
<1> SUFFICES ASSUME TypeOK, NEW c \in Calls PROVE c \in 1..MaxCalls
  OBVIOUS
<1>1. Len(calls) \in Nat /\ Len(calls) <= MaxCalls /\ MaxCalls \in Nat
  BY SteamAssumption DEF TypeOK
<1>2. c \in 1..Len(calls)
  BY <1>1 DEF Calls, TypeOK
<1> QED BY ONLY <1>1, <1>2

LEMMA RegisterCallShape ==
  ASSUME Shape, NEW t \in Threads, NEW kind \in Kinds, RegisterCall(t, kind)
  PROVE  Shape' /\ Len(calls') = Len(calls) + 1 /\ (\A c \in Calls : calls'[c] = calls[c])
<1> USE SteamAssumption DEF Shape, TypeOK
<1>1. /\ calls' \in Seq(Kinds) /\ Len(calls') = Len(calls) + 1 /\ Len(calls') <= MaxCalls
      /\ \A c \in 1..Len(calls) : calls'[c] = calls[c]
      /\ calls'[Len(calls')] = kind
  <2>1. calls \in Seq(Kinds) /\ Len(calls) \in Nat /\ MaxCalls \in Nat
    OBVIOUS
  <2>2. calls' = Append(calls, kind) /\ Len(calls) < MaxCalls
    BY DEF RegisterCall
  <2> QED BY ONLY <2>1, <2>2, kind \in Kinds
<1>2. Calls = 1..Len(calls) /\ Calls' = 1..Len(calls) + 1
  BY <1>1 DEF Calls
<1>3. /\ call' = [call EXCEPT ![t] = Len(calls) + 1]
      /\ pc' = [pc EXCEPT ![t] = IF Posts(kind) THEN "posting" ELSE "registering"]
  BY <1>1 DEF RegisterCall, Leaves
<1>4. UNCHANGED <<results, handlers, listening, pump, history, dead>>
  BY DEF RegisterCall
<1>5. results' \in Seq(Calls')
  <2>1. Calls \subseteq Calls' /\ results' = results /\ results \in Seq(Calls)
    BY <1>1, <1>2, <1>4
  <2> QED BY <2>1, WiderSequence
<1>6. call' \in [Threads -> Calls' \cup {0}] /\ pc' \in [Threads -> {"out", "posting", "registering"}]
  <2>1. Calls \subseteq Calls' /\ Len(calls) + 1 \in Calls' /\ call \in [Threads -> Calls \cup {0}]
    BY <1>1, <1>2, SMTT(30)
  <2>2. call' \in [Threads -> Calls' \cup {0}]
    BY ONLY <1>3, <2>1
  <2> QED BY <1>3, <2>2
<1>7. TypeOK'
  <2>1. Calls \subseteq Calls'
    BY <1>1, <1>2
  <2>2. handlers' \subseteq Calls' /\ gone' \cup nested' \cup early' \cup withdrawn' \subseteq Calls'
    BY <1>4, <2>1 DEF history
  <2> QED BY <1>1, <1>4, <1>5, <1>6, <2>2 DEF pump, walk
<1>8. ASSUME NEW u \in Threads
      PROVE  /\ pc'[u] # "out" => call'[u] \in Calls'
             /\ pc'[u] = "posting" => Posts(calls'[call'[u]])
  <2>1. CASE u = t
    <3>1. call'[u] = Len(calls) + 1 /\ calls'[call'[u]] = kind /\ call'[u] \in Calls'
      BY <1>1, <1>2, <1>3, <2>1
    <3>2. pc'[u] = IF Posts(kind) THEN "posting" ELSE "registering"
      BY <1>3, <2>1
    <3> QED BY ONLY <3>1, <3>2
  <2>2. CASE u # t
    <3>1. pc'[u] = pc[u] /\ call'[u] = call[u]
      BY <1>3, <2>2
    <3>2. \A c \in Calls : c \in Calls' /\ calls'[c] = calls[c]
      <4>1. Len(calls) \in Nat
        OBVIOUS
      <4> QED BY ONLY <4>1, <1>1, <1>2
    <3>3. pc[u] # "out" => call[u] \in Calls
      OBVIOUS
    <3>4. pc[u] = "posting" => Posts(calls[call[u]])
      OBVIOUS
    <3> QED BY ONLY <3>1, <3>2, <3>3, <3>4
  <2> QED BY <2>1, <2>2
<1> QED BY <1>1, <1>2, <1>4, <1>7, <1>8 DEF pump, walk, history

LEMMA ReturnCallShape ==
  ASSUME Shape, NEW t \in Threads, ReturnCall(t)
  PROVE  Shape'
<1> USE DEF Shape, TypeOK
<1>1. call[t] \in Calls
  BY DEF ReturnCall
<1>2. results' \in Seq(Calls) /\ Len(results') = Len(results) + 1
  BY <1>1 DEF ReturnCall
<1>3. pc' \in [Threads -> {"out", "posting", "registering"}] /\ \A u \in Threads : pc'[u] = "posting" => pc[u] = "posting"
  BY DEF ReturnCall, Leaves
<1>4. \A u \in Threads : pc'[u] # "out" => pc[u] # "out"
  BY DEF ReturnCall, Leaves
<1>5. nested' \subseteq Calls
  BY <1>1 DEF ReturnCall
<1>6. UNCHANGED <<calls, handlers, listening, pump, call, ran, gone, early, withdrawn, dead>>
  BY DEF ReturnCall
<1>7. Calls' = Calls
  BY <1>6 DEF Calls
<1>8. TypeOK'
  BY <1>2, <1>3, <1>5, <1>6, <1>7, SMTT(30) DEF pump, walk
<1> QED BY <1>3, <1>4, <1>6, <1>7, <1>8 DEF pump, walk

LEMMA RegisterResultShape ==
  ASSUME Shape, NEW t \in Threads, RegisterCallResult(t) \/ UnregisterCallResult(t)
  PROVE  Shape'
<1> USE DEF Shape, TypeOK
<1>1. handlers' \subseteq Calls /\ withdrawn' \subseteq Calls
  BY DEF RegisterCallResult, UnregisterCallResult, history
<1>2. /\ pc' \in [Threads -> {"out", "posting", "registering"}]
      /\ \A u \in Threads : pc'[u] # "out" => pc'[u] = pc[u]
  BY DEF RegisterCallResult, UnregisterCallResult, Leaves
<1>3. UNCHANGED <<calls, results, listening, pump, call, ran, gone, nested, early, dead>>
  BY DEF RegisterCallResult, UnregisterCallResult, history
<1>4. Calls' = Calls
  BY <1>3 DEF Calls
<1> QED BY <1>1, <1>2, <1>3, <1>4 DEF pump, walk

LEMMA RegisterCallbackShape ==
  ASSUME Shape, NEW t \in Threads, NEW l \in Listeners, RegisterCallback(t, l)
  PROVE  Shape'
<1> USE DEF Shape, TypeOK
<1>1. listening' = Append(listening, l) /\ slots' \in Underlay(listening')
  BY DEF RegisterCallback
<1>2. listening' \in Seq(Listeners)
  BY <1>1
<1>3. slots' \in Seq(Listeners) /\ Len(slots') = Len(slots)
  BY <1>1, <1>2, UnderlayShape
<1>5. grown' \in BOOLEAN
  BY DEF RegisterCallback
<1>6. UNCHANGED <<calls, results, handlers, owner, at, bound, stage, turn, inside,
                  due, heard, shaken, pc, call, history, dead>>
  BY DEF RegisterCallback
<1>7. Calls' = Calls
  BY <1>6 DEF Calls
<1>8. stage # "walk" => slots' = <<>>
  <2>1. stage # "walk" => Len(slots') = 0
    BY <1>3
  <2> QED BY <1>3, <2>1, EmptySeq
<1> QED BY <1>2, <1>3, <1>5, <1>6, <1>7, <1>8 DEF history

LEMMA UnregisterCallbackShape ==
  ASSUME Shape, NEW t \in Threads, NEW l \in Listeners, UnregisterCallback(t, l)
  PROVE  Shape'
<1> USE DEF Shape, TypeOK
<1>3. listening' \in Seq(Listeners)
  BY WithoutShape DEF UnregisterCallback
<1>4. slots' \in Seq(Listeners) /\ Len(slots') = Len(slots)
  BY <1>3, UnderlayShape DEF UnregisterCallback
<1>5. stage # "walk" => slots' = <<>> /\ ~shaken'
  <2>1. stage # "walk" => Len(slots') = 0
    BY <1>4
  <2> QED BY <1>4, <2>1, EmptySeq DEF UnregisterCallback
<1>6. UNCHANGED <<calls, results, handlers, owner, at, bound, stage, turn, inside,
                  grown, due, heard, pc, call, history, dead>> /\ shaken' \in BOOLEAN
  BY DEF UnregisterCallback
<1>7. Calls' = Calls
  BY <1>6 DEF Calls
<1> QED BY <1>3, <1>4, <1>5, <1>6, <1>7 DEF history

LEMMA RunShape ==
  ASSUME Shape, NEW t \in Threads,
         RunBegins(t) \/ RunHandler(t) \/ WalkBegins(t) \/ RunListener(t) \/ ResultEnds(t) \/ RunEnds(t)
  PROVE  Shape'
<1> USE DEF Shape, TypeOK
<1>1. UNCHANGED <<calls, handlers, listening, pc, call, nested, withdrawn, dead>>
  BY DEF RunBegins, RunHandler, WalkBegins, RunListener, ResultEnds, RunEnds, shared, history
<1>2. Calls' = Calls
  BY <1>1 DEF Calls
<1>3. CASE RunBegins(t)
  BY <1>1, <1>2, <1>3 DEF RunBegins, shared, walk, history
<1>4. CASE RunHandler(t)
  <2>1. results[at] \in Calls /\ t \in Threads /\ owner = t /\ owner # Nobody
    BY <1>4, SteamAssumption DEF RunHandler, Runs
  <2>2. ran' \in [1..MaxCalls -> Nat] /\ early' \subseteq Calls /\ inside' \in BOOLEAN
    <3> DEFINE c == results[at]
    <3>1. c \in 1..MaxCalls
      BY <2>1, CallsFit
    <3>2. ran' = IF c \in handlers THEN [ran EXCEPT ![c] = @ + 1] ELSE ran
      BY <1>4 DEF RunHandler
    <3>3. early' \subseteq early \cup {c} /\ inside' \in BOOLEAN
      BY ONLY <1>4 DEF RunHandler
    <3>4. ran' \in [1..MaxCalls -> Nat]
      <4> HIDE DEF c
      <4>1. ran \in [1..MaxCalls -> Nat]
        OBVIOUS
      <4>2. \A n \in Nat : n + 1 \in Nat
        OBVIOUS
      <4>3. ran[c] + 1 \in Nat
        BY <3>1, <4>1, <4>2
      <4> QED BY ONLY <3>1, <3>2, <4>1, <4>3
    <3> QED BY <2>1, <3>3, <3>4
  <2>3. stage' = "handler" /\ at <= bound
    BY <1>4 DEF RunHandler
  <2>4. UNCHANGED <<shared, owner, at, bound, slots, turn, grown, due, heard, shaken, gone>> /\ stage = "result"
    BY <1>4 DEF RunHandler, Runs
  <2> QED BY <1>1, <1>2, <2>1, <2>2, <2>3, <2>4 DEF shared
<1>5. CASE WalkBegins(t)
  <2>1. slots' \in Seq(Listeners) /\ due' = slots'
    <3>1. slots' = listening \/ slots' = <<>>
      BY <1>5 DEF WalkBegins
    <3> QED BY <1>5, <3>1 DEF WalkBegins
  <2>2. 1 \in 1..Len(slots') + 1
    BY <2>1
  <2>3. UNCHANGED <<shared, owner, at, bound, turn, grown, heard, shaken, history>>
        /\ stage = "handler" /\ stage' = "walk" /\ inside' = FALSE /\ owner # Nobody
    BY <1>5, SteamAssumption DEF WalkBegins, Runs
  <2> QED BY <1>1, <1>2, <2>1, <2>2, <2>3 DEF shared, history
<1>6. CASE RunListener(t)
  <2>1. heard' \in [Listeners -> Nat] /\ turn' \in 1..Len(slots) + 1
    BY <1>6 DEF RunListener
  <2>2. UNCHANGED <<shared, owner, at, bound, stage, slots, grown, due, shaken, history>>
        /\ inside' = TRUE /\ stage = "walk"
    BY <1>6 DEF RunListener, Runs
  <2> QED BY <1>1, <1>2, <2>1, <2>2 DEF shared, history
<1>7. CASE ResultEnds(t)
  <2>1. owner # Nobody /\ at <= bound /\ bound <= Len(results) /\ at' = at + 1
    BY <1>7, SteamAssumption DEF ResultEnds, Runs
  <2>2. at' \in 1..bound + 1 /\ at' \in Nat \ {0}
    <3>1. at \in Nat \ {0} /\ bound \in Nat
      OBVIOUS
    <3> QED BY ONLY <2>1, <3>1
  <2>3. UNCHANGED <<shared, owner, bound, history>> /\ heard' = [l \in Listeners |-> 0]
        /\ stage' = "result" /\ slots' = <<>> /\ turn' = 1 /\ inside' = FALSE /\ grown' = FALSE
        /\ due' = <<>> /\ shaken' = FALSE
    BY <1>7 DEF ResultEnds
  <2>4. slots' \in Seq(Listeners) /\ turn' \in 1..Len(slots') + 1
    BY <2>3
  <2>5. heard' \in [Listeners -> Nat]
    BY <2>3
  <2> QED BY <1>1, <1>2, <2>1, <2>2, <2>3, <2>4, <2>5 DEF shared, history
<1>8. CASE RunEnds(t)
  <2>1. results' = <<>> /\ gone' = gone \cup ToSet(results) /\ owner' = Nobody /\ stage = "result"
        /\ UNCHANGED <<at, bound, walk, ran, early>>
    BY <1>8 DEF RunEnds, Runs
  <2>2. gone' \subseteq Calls /\ results' \in Seq(Calls)
    BY <2>1 DEF ToSet
  <2> QED BY <1>1, <1>2, <2>1, <2>2 DEF walk
<1> QED BY <1>3, <1>4, <1>5, <1>6, <1>7, <1>8

LEMMA StepShape == Shape /\ [Next]_vars => Shape'
<1>1. ASSUME Shape, UNCHANGED vars PROVE Shape'
  BY <1>1 DEF Shape, TypeOK, Calls, Posts, vars, shared, pump, walk, history
<1>2. ASSUME Shape, NEW t \in Threads, Dies(t) PROVE Shape'
  BY <1>2 DEF Shape, TypeOK, Calls, Posts, Dies, shared, pump, walk, history
<1> QED BY <1>1, <1>2, RegisterCallShape, ReturnCallShape, RegisterResultShape, RegisterCallbackShape,
           UnregisterCallbackShape, RunShape DEF Next, Thread

------------------------------------------------------------------------------
(* Once. *)

(* What an action that leaves the results and their handlers' runs alone   *)
(* has to keep.                                                            *)
LEMMA OnceUnchanged ==
  ASSUME Once, UNCHANGED <<results, gone, ran, owner, stage, at, call>>,
         \A t \in Threads : pc'[t] = "posting" => pc[t] = "posting"
  PROVE  Once'
<1>1. \A c : Walked(c)' = Walked(c)
  BY DEF Walked, Passed
<1> QED BY <1>1 DEF Once

LEMMA RegisterCallOnce ==
  ASSUME Shape, Once, NEW t \in Threads, NEW kind \in Kinds, RegisterCall(t, kind)
  PROVE  Once'
<1>1. UNCHANGED <<results, gone, ran, owner, stage, at>>
  BY DEF RegisterCall, pump, walk, history
<1>2. \A c : Walked(c)' = Walked(c)
  BY <1>1 DEF Walked, Passed
<1>3. call' = [call EXCEPT ![t] = Len(calls) + 1] /\ \A u \in Threads \ {t} : pc'[u] = pc[u]
  BY DEF RegisterCall, Leaves, Shape, TypeOK
<1>4. Len(calls) + 1 \notin Calls
  BY DEF Shape, TypeOK, Calls
<1>5. gone \subseteq Calls /\ ToSet(results) \subseteq Calls
      /\ \A u \in Threads : pc[u] = "posting" => call[u] \in Calls
  BY DEF Shape, TypeOK, ToSet
<1>6. call \in [Threads -> Calls \cup {0}]
  BY DEF Shape, TypeOK
<1>7. \A u \in Threads : pc'[u] = "posting" => call'[u] \notin gone \cup ToSet(results)
  BY <1>3, <1>4, <1>5, <1>6 DEF Once
<1>8. \A u, v \in Threads : pc'[u] = "posting" /\ pc'[v] = "posting" /\ u # v => call'[u] # call'[v]
  BY <1>3, <1>4, <1>5, <1>6 DEF Once
<1> QED BY <1>1, <1>2, <1>7, <1>8 DEF Once

LEMMA ReturnCallOnce ==
  ASSUME Shape, Once, NEW t \in Threads, ReturnCall(t)
  PROVE  Once'
<1>1. UNCHANGED <<gone, ran, owner, stage, at, call>> /\ results' = Append(results, call[t])
      /\ pc[t] = "posting" /\ pc'[t] # "posting" /\ \A u \in Threads \ {t} : pc'[u] = pc[u]
  BY DEF ReturnCall, pump, walk, Leaves, Shape, TypeOK
<1>2. call[t] \notin gone \cup ToSet(results)
  BY <1>1 DEF Once
<1>3. results \in Seq(Calls) /\ call[t] \in Calls
  BY <1>1 DEF Shape, TypeOK
<1>4. /\ Len(results') = Len(results) + 1 /\ results'[Len(results')] = call[t]
      /\ \A i \in 1..Len(results) : results'[i] = results[i]
      /\ results' \in Seq(Calls)
  BY <1>1, <1>3
<1>5. \A i \in 1..Len(results') : i \in 1..Len(results) \/ i = Len(results')
  BY <1>3, <1>4
<1>6. ToSet(results') = ToSet(results) \cup {call[t]}
  <2>1. ToSet(results') \subseteq ToSet(results) \cup {call[t]}
    BY <1>4, <1>5 DEF ToSet
  <2>2. Len(results') \in 1..Len(results') /\ \A i \in 1..Len(results) : i \in 1..Len(results')
    BY <1>3, <1>4
  <2>3. ToSet(results) \cup {call[t]} \subseteq ToSet(results')
    BY <1>4, <2>2 DEF ToSet
  <2> QED BY <2>1, <2>3
<1>7. IsInjective(results')
  <2>1. \A i, j \in 1..Len(results) : results[i] = results[j] => i = j
    BY DEF Once, IsInjective
  <2>2. \A i \in 1..Len(results) : results[i] # call[t]
    BY <1>2 DEF ToSet
  <2>3. \A i, j \in 1..Len(results') : results'[i] = results'[j] => i = j
    BY <1>4, <1>5, <2>1, <2>2
  <2>4. DOMAIN results' = 1..Len(results')
    BY <1>4
  <2> QED BY <2>3, <2>4 DEF IsInjective
<1>8. \A c : Walked(c) => Walked(c)'
  BY <1>1, <1>3, <1>4 DEF Walked, Passed
<1>9. \A u \in Threads : pc'[u] = "posting" => u # t /\ pc[u] = "posting"
  BY <1>1
<1> QED BY <1>1, <1>2, <1>6, <1>7, <1>8, <1>9 DEF Once

LEMMA RunHandlerOnce ==
  ASSUME Shape, Once, NEW t \in Threads, RunHandler(t)
  PROVE  Once'
<1> DEFINE c == results[at]
<1>1. UNCHANGED <<results, gone, owner, at, pc, call>> /\ stage = "result" /\ stage' = "handler"
      /\ ran' = (IF c \in handlers THEN [ran EXCEPT ![c] = @ + 1] ELSE ran) /\ owner # Nobody
  BY SteamAssumption DEF RunHandler, Runs, shared
<1>2. at \in 1..Len(results) /\ Passed = at - 1 /\ Passed' = at
  <2>1. /\ at <= bound /\ bound <= Len(results)
        /\ at \in Nat \ {0} /\ bound \in Nat /\ Len(results) \in Nat
    BY <1>1 DEF Shape, TypeOK, RunHandler
  <2>2. at \in 1..Len(results)
    BY ONLY <2>1
  <2> QED BY <1>1, <2>2 DEF Passed
<1>3. c \in ToSet(results)
  BY <1>2 DEF ToSet
<1>4. c \notin gone /\ ~Walked(c)
  <2>1. \A i \in 1..Len(results) : results[i] = c => i = at
    BY <1>2 DEF Once, IsInjective
  <2> QED BY <1>2, <1>3, <2>1 DEF Once, Walked
<1>5. \A d : Walked(d) => Walked(d)'
  BY <1>1, <1>2 DEF Walked
<1>6. \A d : d = c => Walked(d)'
  BY <1>1, <1>2 DEF Walked
<1>7. ran \in [1..MaxCalls -> Nat]
  BY DEF Shape
<1> HIDE DEF c
<1>8. \A d \in 1..MaxCalls : ran'[d] = 0 \/ (ran'[d] = 1 /\ (d \in gone \/ Walked(d)'))
  <2> TAKE d \in 1..MaxCalls
  <2>1. CASE d = c
    <3>1. ran[c] = 0
      BY <1>4, <2>1 DEF Once
    <3>2. ran'[c] \in {0, 1}
      <4>1. c \in 1..MaxCalls
        BY <2>1
      <4>2. CASE c \in handlers
        <5>1. ran'[c] = 0 + 1
          BY <1>1, <1>7, <3>1, <4>1, <4>2
        <5> QED BY <5>1
      <4>3. CASE c \notin handlers
        BY <1>1, <3>1, <4>3
      <4> QED BY <4>2, <4>3
    <3> QED BY <1>6, <2>1, <3>2
  <2>2. CASE d # c
    <3>1. ran'[d] = ran[d]
      BY <1>1, <1>7, <2>2
    <3> QED BY <1>5, <3>1 DEF Once
  <2> QED BY <2>1, <2>2
<1> QED BY <1>1, <1>8 DEF Once

LEMMA RunOnce ==
  ASSUME Shape, Once, NEW t \in Threads,
         RunBegins(t) \/ WalkBegins(t) \/ RunListener(t) \/ ResultEnds(t) \/ Dies(t)
  PROVE  Once'
<1>1. UNCHANGED <<results, gone, ran, pc, call>>
  BY DEF RunBegins, WalkBegins, RunListener, ResultEnds, Dies, shared, history
<1>2. Passed' = Passed
  <2>1. CASE RunBegins(t)
    BY <2>1, SteamAssumption DEF RunBegins, Passed, walk, Shape
  <2>2. CASE WalkBegins(t)
    BY <2>2 DEF WalkBegins, Passed, Runs
  <2>3. CASE RunListener(t)
    BY <2>3 DEF RunListener, Passed, Runs
  <2>4. CASE ResultEnds(t)
    <3>1. (at + 1) - 1 = at
      BY DEF Shape
    <3>2. owner' = owner /\ at' = at + 1 /\ stage' = "result" /\ stage = "walk"
      BY <2>4 DEF ResultEnds, Runs
    <3> QED BY <3>1, <3>2 DEF Passed
  <2>5. CASE Dies(t)
    BY <2>5 DEF Dies, Passed, pump, walk
  <2> QED BY <2>1, <2>2, <2>3, <2>4, <2>5
<1>3. \A c : Walked(c)' = Walked(c)
  BY <1>1, <1>2 DEF Walked
<1> QED BY <1>1, <1>3 DEF Once

LEMMA RunEndsOnce ==
  ASSUME Shape, Once, NEW t \in Threads, RunEnds(t)
  PROVE  Once'
<1>1. UNCHANGED <<ran, pc, call>> /\ results' = <<>> /\ gone' = gone \cup ToSet(results)
  BY DEF RunEnds
<1>2. ToSet(results') = {} /\ IsInjective(results')
  BY <1>1 DEF ToSet, IsInjective
<1>3. \A c : Walked(c) => c \in gone'
  BY <1>1 DEF Walked, ToSet
<1> QED BY <1>1, <1>2, <1>3 DEF Once

LEMMA StepOnce == Shape /\ Once /\ [Next]_vars => Once'
<1> SUFFICES ASSUME Shape, Once, [Next]_vars PROVE Once'
  OBVIOUS
<1>1. CASE UNCHANGED vars
  BY <1>1, OnceUnchanged DEF vars, shared, pump, walk, history
<1>2. ASSUME NEW t \in Threads, RegisterCallResult(t) \/ UnregisterCallResult(t) PROVE Once'
  <2>1. UNCHANGED <<results, gone, ran, owner, stage, at, call>>
    BY <1>2 DEF RegisterCallResult, UnregisterCallResult, pump, walk, history
  <2>2. \A u \in Threads : pc'[u] = "posting" => pc[u] = "posting"
    BY <1>2 DEF RegisterCallResult, UnregisterCallResult, Leaves, Shape, TypeOK
  <2> QED BY <2>1, <2>2, OnceUnchanged
<1>3. ASSUME NEW t \in Threads, NEW l \in Listeners, RegisterCallback(t, l) \/ UnregisterCallback(t, l)
      PROVE  Once'
  BY <1>3, OnceUnchanged DEF RegisterCallback, UnregisterCallback, history
<1> QED BY <1>1, <1>2, <1>3, RegisterCallOnce, ReturnCallOnce, RunHandlerOnce, RunOnce, RunEndsOnce
        DEF Next, Thread

------------------------------------------------------------------------------
(* Walk. *)

LEMMA RegisterCallbackWalks ==
  ASSUME Shape, Walk, NEW t \in Threads, NEW l \in Listeners, RegisterCallback(t, l)
  PROVE  Walk'
<1> SUFFICES ASSUME stage = "walk", ~shaken PROVE Walk'
  BY DEF RegisterCallback, Walk
<1>1. /\ listening' = Append(listening, l) /\ slots' \in Underlay(listening')
      /\ UNCHANGED <<stage, turn, due, heard, shaken>>
  BY DEF RegisterCallback
<1>2. /\ Len(slots) <= Len(listening) /\ \A i \in 1..Len(slots) : slots[i] = listening[i]
      /\ slots \in Seq(Listeners) /\ listening \in Seq(Listeners)
  BY DEF Walk, Shape, TypeOK
<1>3. /\ Len(slots) <= Len(listening') /\ listening' \in Seq(Listeners)
      /\ \A i \in 1..Len(slots) : slots[i] = listening'[i]
  BY <1>1, <1>2
<1>4. slots' = slots
  <2>1. DOMAIN slots = 1..Len(slots) /\ slots \in [1..Len(slots) -> Listeners]
    BY <1>2, LenProperties
  <2>2. ASSUME NEW s \in [1..Len(slots) -> ToSet(slots) \cup ToSet(listening')],
               \A i \in 1..Len(slots) : i <= Len(listening') => s[i] = listening'[i]
        PROVE  s = slots
    <3>1. \A i \in 1..Len(slots) : s[i] = slots[i]
      BY <1>2, <1>3, <2>2
    <3> QED BY ONLY <2>1, <2>2, <3>1
  <2> QED BY <1>1, <2>1, <2>2 DEF Underlay
<1> QED BY <1>1, <1>3, <1>4 DEF Walk, Turns

LEMMA WalkBeginsWalks ==
  ASSUME Shape, NEW t \in Threads, WalkBegins(t)
  PROVE  Walk'
<1>1. /\ slots' = listening \/ slots' = <<>>
      /\ due' = slots' /\ turn' = 1 /\ heard' = [l \in Listeners |-> 0]
      /\ listening' = listening
  BY DEF WalkBegins, Runs, Shape, shared
<1>2. Len(slots') <= Len(listening) /\ \A i \in 1..Len(slots') : slots'[i] = listening[i] /\ ~(i < turn')
  BY <1>1 DEF Shape, TypeOK
<1>3. \A l \in Listeners : Turns(l)' = {}
  BY ONLY <1>2 DEF Turns
<1>4. Cardinality({}) = 0
  BY FS_EmptySet
<1> QED BY <1>1, <1>2, <1>3, <1>4 DEF Walk

LEMMA RunListenerWalks ==
  ASSUME Shape, Walk, NEW t \in Threads, RunListener(t)
  PROVE  Walk'
<1> SUFFICES ASSUME ~shaken PROVE Walk'
  BY DEF RunListener, Walk
<1>1. /\ UNCHANGED <<listening, stage, slots, due, shaken>> /\ turn <= Len(slots)
      /\ heard' = [heard EXCEPT ![slots[turn]] = @ + 1] /\ turn' = turn + 1 /\ stage = "walk"
  BY DEF RunListener, Runs, shared
<1>2. slots \in Seq(Listeners) /\ turn \in 1..Len(slots) /\ heard \in [Listeners -> Nat]
  <2>1. slots \in Seq(Listeners) /\ turn \in 1..Len(slots) + 1 /\ heard \in [Listeners -> Nat]
    BY DEF Shape, TypeOK
  <2>2. turn \in 1..Len(slots)
    BY <1>1, <2>1
  <2> QED BY <2>1, <2>2
<1>3. \A l \in Listeners : heard[l] = Cardinality(Turns(l)) /\ IsFiniteSet(Turns(l))
  <2>1. IsFiniteSet(1..Len(slots))
    BY <1>2, FS_Interval
  <2>2. \A l : Turns(l) \subseteq 1..Len(slots)
    BY DEF Turns
  <2> QED BY <1>1, <2>1, <2>2, FS_Subset DEF Walk
<1>4. ASSUME NEW l \in Listeners PROVE heard'[l] = Cardinality(Turns(l)')
  <2>1. CASE l = slots[turn]
    <3>1. Turns(l)' = Turns(l) \cup {turn} /\ turn \notin Turns(l)
      BY <1>1, <1>2, <2>1 DEF Turns
    <3>2. heard'[l] = heard[l] + 1
      BY <1>1, <1>2, <2>1
    <3> QED BY <1>3, <3>1, <3>2, FS_AddElement
  <2>2. CASE l # slots[turn]
    <3>1. Turns(l)' = Turns(l)
      BY <1>1, <1>2, <2>2 DEF Turns
    <3>2. heard'[l] = heard[l]
      BY <1>1, <1>2, <2>2
    <3> QED BY <1>3, <3>1, <3>2
  <2> QED BY <2>1, <2>2
<1> QED BY <1>1, <1>4 DEF Walk

LEMMA StepWalk == Shape /\ Walk /\ [Next]_vars => Walk'
<1> SUFFICES ASSUME Shape, Walk, [Next]_vars PROVE Walk'
  OBVIOUS
<1>1. ASSUME UNCHANGED <<stage, shaken, slots, listening, due, heard, turn>> PROVE Walk'
  BY <1>1 DEF Walk, Turns
<1>2. CASE UNCHANGED vars
  BY <1>1, <1>2 DEF vars, shared, pump, walk
<1>3. ASSUME NEW t \in Threads,
             \/ \E kind \in Kinds : RegisterCall(t, kind)
             \/ ReturnCall(t) \/ RegisterCallResult(t) \/ UnregisterCallResult(t)
             \/ RunBegins(t) \/ RunEnds(t) \/ Dies(t)
      PROVE  Walk'
  <2>1. UNCHANGED walk /\ listening' = listening
    BY <1>3 DEF RegisterCall, ReturnCall, RegisterCallResult, UnregisterCallResult, RunBegins,
                RunEnds, Dies, shared, pump
  <2> QED BY <1>1, <2>1 DEF walk
<1>4. ASSUME NEW t \in Threads, NEW l \in Listeners, UnregisterCallback(t, l) PROVE Walk'
  <2>1. stage' = stage /\ shaken' = (shaken \/ stage = "walk")
    BY <1>4 DEF UnregisterCallback
  <2>2. stage' = "walk" => shaken'
    BY <2>1
  <2> QED BY <2>2 DEF Walk
<1>5. ASSUME NEW t \in Threads, RunHandler(t) \/ ResultEnds(t) PROVE Walk'
  <2>1. stage' # "walk"
    BY <1>5 DEF RunHandler, ResultEnds
  <2> QED BY <2>1 DEF Walk
<1> QED BY <1>2, <1>3, <1>4, <1>5, RegisterCallbackWalks, WalkBeginsWalks, RunListenerWalks
        DEF Next, Thread

------------------------------------------------------------------------------
(* Told. *)

(* The call of a result either has its handler, or had it, or its thread is *)
(* about to register one.                                                  *)
Attended(c) ==
  \/ c \in handlers \cup withdrawn
  \/ \E u \in Threads : call[u] = c /\ pc[u] = "registering"

LEMMA ToldUnchanged ==
  ASSUME Shape, Told, UNCHANGED <<results, owner, bound, gone, nested>>, Passed' = Passed,
         \A c \in Calls : calls'[c] = calls[c] /\ (Settled(c) => Settled(c)')
                          /\ (Attended(c) => Attended(c)')
  PROVE  Told'
<1>1. (\A i \in 1..Len(results) : results[i] \in Calls) /\ gone \subseteq Calls
  BY DEF Shape, TypeOK
<1> QED BY <1>1 DEF Told, Attended

LEMMA RegisterCallTold ==
  ASSUME Shape, Told, NEW t \in Threads, NEW kind \in Kinds, RegisterCall(t, kind)
  PROVE  Told'
<1>1. UNCHANGED <<results, owner, bound, gone, nested, early, withdrawn, handlers, ran>> /\ Passed' = Passed
  BY DEF RegisterCall, pump, walk, history, Passed
<1>2. \A c \in Calls : calls'[c] = calls[c]
  BY RegisterCallShape
<1>3. pc[t] = "out" /\ \A u \in Threads \ {t} : pc'[u] = pc[u] /\ call'[u] = call[u]
  BY DEF RegisterCall, Leaves, Shape, TypeOK
<1>4. \A c \in Calls : (Settled(c) => Settled(c)') /\ (Attended(c) => Attended(c)')
  BY <1>1, <1>2, <1>3 DEF Settled, Attended
<1> QED BY <1>1, <1>2, <1>4, ToldUnchanged

LEMMA ReturnCallTold ==
  ASSUME Shape, Told, NEW t \in Threads, ReturnCall(t)
  PROVE  Told'
<1> DEFINE new == call[t]
<1>1. /\ UNCHANGED <<calls, owner, bound, stage, at, gone, early, withdrawn, handlers, ran, call>>
      /\ results' = Append(results, new)
      /\ nested' = IF owner = t THEN nested \cup {new} ELSE nested
      /\ pc[t] = "posting" /\ (calls[new] = "ticket" => pc'[t] = "registering")
      /\ \A u \in Threads \ {t} : pc'[u] = pc[u]
      /\ owner \in {Nobody, t}
  BY DEF ReturnCall, Leaves, Enters, pump, walk, Shape, TypeOK
<1>2. new \in Calls /\ calls[new] # "lobby"
  BY <1>1 DEF Shape, Posts
<1>3. /\ results \in Seq(Calls) /\ Len(results) \in Nat /\ Len(results') = Len(results) + 1
      /\ \A i \in 1..Len(results) : results'[i] = results[i]
      /\ results'[Len(results) + 1] = new
  BY <1>1, <1>2 DEF Shape, TypeOK
<1>4. \A i \in 1..Len(results') : i \in 1..Len(results) \/ (i = Len(results) + 1 /\ results'[i] = new)
  BY <1>3
<1>5. Passed' = Passed /\ Passed <= Len(results)
  BY <1>1 DEF Passed, Shape, TypeOK
<1>6. \A c : (Settled(c) => Settled(c)') /\ (Attended(c) => Attended(c)')
  BY <1>1 DEF Settled, Attended
<1>7. calls[new] = "ticket" => \A c : c = new => Attended(c)'
  BY <1>1 DEF Attended
<1>8. ~(Len(results) + 1 <= Passed')
  <2>1. Passed \in Nat
    BY DEF Passed, Shape
  <2> QED BY <1>3, <1>5, <2>1
<1> HIDE DEF new
<1>9. \A i \in 1..Len(results') : calls'[results'[i]] # "lobby"
  BY <1>1, <1>2, <1>3, <1>4 DEF Told
<1>10. \A i \in 1..Len(results') : i <= Passed' => Settled(results[i])'
  BY <1>3, <1>4, <1>5, <1>6, <1>8 DEF Told
<1>11. \A i \in 1..Len(results') : calls'[results'[i]] = "ticket" => Attended(results[i])'
  <2> SUFFICES ASSUME NEW i \in 1..Len(results'), calls'[results'[i]] = "ticket"
               PROVE  Attended(results[i])'
    OBVIOUS
  <2>1. \A c : c = results'[i] /\ Attended(c)' => Attended(results[i])'
    BY DEF Attended
  <2>2. CASE i \in 1..Len(results)
    <3>1. Attended(results[i]) /\ results'[i] = results[i]
      BY <1>1, <1>3, <2>2 DEF Told, Attended
    <3> QED BY <1>6, <2>1, <3>1
  <2>3. CASE results'[i] = new
    BY <1>1, <1>7, <2>1, <2>3
  <2> QED BY <1>4, <2>2, <2>3
<1>12. owner' # Nobody => \A i \in 1..Len(results') : i > bound' => results'[i] \in nested'
  BY <1>1, <1>3, <1>4 DEF Told
<1>13. \A c \in gone' : Settled(c)'
  BY <1>1, <1>6 DEF Told
<1> QED BY <1>9, <1>10, <1>11, <1>12, <1>13 DEF Told, Attended

LEMMA RegisterResultTold ==
  ASSUME Shape, Told, NEW t \in Threads, RegisterCallResult(t) \/ UnregisterCallResult(t)
  PROVE  Told'
<1>1. UNCHANGED <<calls, results, owner, bound, gone, nested, early, ran, call>> /\ Passed' = Passed
  BY DEF RegisterCallResult, UnregisterCallResult, pump, walk, history, Passed
<1>2. withdrawn \subseteq withdrawn' /\ handlers \cup withdrawn \subseteq handlers' \cup withdrawn'
  BY DEF RegisterCallResult, UnregisterCallResult, history
<1>3. \A c : Attended(c) => Attended(c)'
  <2>1. CASE RegisterCallResult(t)
    <3>1. call[t] \in handlers' /\ \A u \in Threads \ {t} : pc'[u] = pc[u]
      BY <2>1 DEF RegisterCallResult, Leaves, Shape, TypeOK
    <3> QED BY <1>1, <1>2, <3>1 DEF Attended
  <2>2. CASE UnregisterCallResult(t)
    BY <1>1, <1>2, <2>2 DEF UnregisterCallResult, Attended
  <2> QED BY <2>1, <2>2
<1>4. \A c : Settled(c) => Settled(c)'
  BY <1>1, <1>2 DEF Settled
<1> QED BY <1>1, <1>3, <1>4, ToldUnchanged

(* A result that is not attended has been looked up too early.             *)
LEMMA RunHandlerTold ==
  ASSUME Shape, Once, Told, NEW t \in Threads, RunHandler(t)
  PROVE  Told'
<1> DEFINE c == results[at]
<1>1. /\ UNCHANGED <<calls, results, handlers, owner, at, bound, pc, call, gone, nested, withdrawn>>
      /\ ran' = (IF c \in handlers THEN [ran EXCEPT ![c] = @ + 1] ELSE ran)
      /\ early' = IF \E u \in Threads \ {t} : call[u] = c /\ pc[u] = "registering"
                  THEN early \cup {c} ELSE early
      /\ owner = t /\ owner # Nobody /\ pc[t] = "out" /\ stage = "result" /\ stage' = "handler"
  BY SteamAssumption DEF RunHandler, Runs, shared
<1>2. at \in 1..Len(results) /\ Passed = at - 1 /\ Passed' = at
  <2>1. /\ at <= bound /\ bound <= Len(results)
        /\ at \in Nat \ {0} /\ bound \in Nat /\ Len(results) \in Nat
    BY <1>1 DEF Shape, TypeOK, RunHandler
  <2>2. at \in 1..Len(results)
    BY ONLY <2>1
  <2> QED BY <1>1, <2>2 DEF Passed
<1>3. c \in Calls /\ c \in 1..MaxCalls
  <2>1. c \in Calls
    BY <1>2 DEF Shape, TypeOK
  <2> QED BY <2>1, CallsFit DEF Shape
<1>4. ran[c] = 0
  <2>1. \A i \in 1..Len(results) : results[i] = c => i = at
    BY <1>2 DEF Once, IsInjective
  <2>2. c \in ToSet(results)
    BY <1>2 DEF ToSet
  <2>3. at \in Nat /\ ~(at <= Passed)
    BY <1>2 DEF Shape
  <2>4. ~Walked(c)
    BY ONLY <2>1, <2>3 DEF Walked
  <2>5. c \notin gone
    BY ONLY <2>2, Once DEF Once
  <2>6. ran[c] = 0 \/ (ran[c] = 1 /\ (c \in gone \/ Walked(c)))
    BY <1>3 DEF Once
  <2> QED BY ONLY <2>4, <2>5, <2>6
<1>5. ran \in [1..MaxCalls -> Nat]
  BY DEF Shape
<1>6. calls[c] = "ticket" => Attended(c)
  BY <1>2 DEF Told, Attended
<1>7. calls[c] \in {"ticket", "stats"}
  <2>1. calls[c] \in Kinds /\ calls[c] # "lobby"
    BY <1>2, <1>3 DEF Told, Shape, TypeOK, Calls
  <2> QED BY <2>1 DEF Kinds
<1>8. \A d : d = c => Settled(d)'
  <2>1. CASE calls[c] = "stats"
    BY <1>1, <2>1 DEF Settled
  <2>2. CASE c \in handlers
    <3>1. ran'[c] = 0 + 1
      BY <1>1, <1>3, <1>4, <1>5, <2>2
    <3> QED BY <3>1 DEF Settled
  <2>3. CASE calls[c] = "ticket" /\ c \notin handlers
    <3>1. c \in withdrawn \/ c \in early'
      BY <1>1, <1>6, <2>3 DEF Attended
    <3> QED BY <1>1, <3>1 DEF Settled
  <2> QED BY <1>7, <2>1, <2>2, <2>3
<1>9. \A d : d # c /\ Settled(d) => Settled(d)'
  <2>1. \A d : d # c => ran'[d] = ran[d]
    <3> HIDE DEF c
    <3> QED BY <1>1, <1>5
  <2> QED BY <1>1, <2>1 DEF Settled
<1>10. \A i \in 1..Len(results) : i <= at => i <= Passed \/ results[i] = c
  BY <1>2
<1>11. \A d : Settled(d) => Settled(d)'
  BY <1>8, <1>9
<1>12. \A i \in 1..Len(results) : i <= at => Settled(results[i])'
  BY <1>1, <1>8, <1>10, <1>11 DEF Told
<1> HIDE DEF c
<1> QED BY <1>1, <1>2, <1>11, <1>12 DEF Told

LEMMA RunTold ==
  ASSUME Shape, Told, NEW t \in Threads,
         WalkBegins(t) \/ RunListener(t) \/ ResultEnds(t) \/ Dies(t)
  PROVE  Told'
<1>1. UNCHANGED <<calls, handlers, results, owner, bound, pc, call, ran, gone, nested, early, withdrawn>>
  BY DEF WalkBegins, RunListener, ResultEnds, Dies, shared, pump, history
<1>2. Passed' = Passed
  <2>1. CASE WalkBegins(t)
    BY <2>1 DEF WalkBegins, Passed, Runs
  <2>2. CASE RunListener(t)
    BY <2>2 DEF RunListener, Passed, Runs
  <2>3. CASE ResultEnds(t)
    <3>1. (at + 1) - 1 = at
      BY DEF Shape
    <3>2. owner' = owner /\ at' = at + 1 /\ stage' = "result" /\ stage = "walk"
      BY <2>3 DEF ResultEnds, Runs
    <3> QED BY <3>1, <3>2 DEF Passed
  <2>4. CASE Dies(t)
    BY <2>4 DEF Dies, Passed, pump, walk
  <2> QED BY <2>1, <2>2, <2>3, <2>4
<1>3. \A c : (Settled(c) => Settled(c)') /\ (Attended(c) => Attended(c)')
  BY <1>1 DEF Settled, Attended
<1> QED BY <1>1, <1>2, <1>3, ToldUnchanged

LEMMA RunBeginsTold ==
  ASSUME Shape, Told, NEW t \in Threads, RunBegins(t)
  PROVE  Told'
<1>1. UNCHANGED <<calls, handlers, results, pc, call, ran, gone, nested, early, withdrawn, stage>>
  BY DEF RunBegins, shared, walk, history
<1>2. Passed' = 0 /\ bound' = Len(results) /\ Len(results) \in Nat
  BY SteamAssumption DEF RunBegins, Passed, walk, Shape, TypeOK
<1>3. \A i \in 1..Len(results) : ~(i <= Passed') /\ ~(i > bound')
  BY <1>2
<1>4. \A c : Settled(c) => Settled(c)'
  BY <1>1 DEF Settled
<1> QED BY <1>1, <1>3, <1>4 DEF Told

(* All that is cleared has been passed or was posted from a handler.       *)
LEMMA RunEndsTold ==
  ASSUME Shape, Told, NEW t \in Threads, RunEnds(t)
  PROVE  Told'
<1>1. /\ UNCHANGED <<calls, handlers, ran, nested, early, withdrawn>> /\ results' = <<>>
      /\ gone' = gone \cup ToSet(results) /\ owner' = Nobody
      /\ owner # Nobody /\ stage = "result" /\ at = bound + 1
  BY SteamAssumption DEF RunEnds, Runs
<1>2. \A i \in 1..Len(results) : i <= Passed \/ i > bound
  BY <1>1 DEF Passed, Shape, TypeOK
<1>3. \A i \in 1..Len(results) : Settled(results[i])
  BY <1>1, <1>2 DEF Told, Settled
<1>4. \A c \in gone' : Settled(c)
  BY <1>1, <1>3 DEF Told, ToSet
<1>5. \A c : Settled(c) => Settled(c)'
  BY <1>1 DEF Settled
<1>6. Len(results') = 0
  BY <1>1
<1> QED BY <1>1, <1>4, <1>5, <1>6 DEF Told

LEMMA StepTold == Shape /\ Once /\ Told /\ [Next]_vars => Told'
<1> SUFFICES ASSUME Shape, Once, Told, [Next]_vars PROVE Told'
  OBVIOUS
<1>1. ASSUME UNCHANGED <<calls, handlers, results, owner, stage, at, bound, pc, call, ran, gone, nested,
                         early, withdrawn>>
      PROVE  Told'
  <2>1. \A c : (Settled(c) => Settled(c)') /\ (Attended(c) => Attended(c)')
    BY <1>1 DEF Settled, Attended
  <2>2. Passed' = Passed
    BY <1>1 DEF Passed
  <2> QED BY <1>1, <2>1, <2>2, ToldUnchanged
<1>2. CASE UNCHANGED vars
  BY <1>1, <1>2 DEF vars, shared, pump, walk, history
<1>3. ASSUME NEW t \in Threads, NEW l \in Listeners, RegisterCallback(t, l) \/ UnregisterCallback(t, l)
      PROVE  Told'
  BY <1>1, <1>3 DEF RegisterCallback, UnregisterCallback, history
<1> QED BY <1>2, <1>3, RegisterCallTold, ReturnCallTold, RegisterResultTold, RunHandlerTold, RunTold,
           RunBeginsTold, RunEndsTold DEF Next, Thread

------------------------------------------------------------------------------
(* The theorems. *)

LEMMA InitIInv == Init => IInv
<1> SUFFICES ASSUME Init PROVE IInv
  OBVIOUS
<1>1. /\ \A S : <<>> \in Seq(S)
      /\ Len(<<>>) = 0 /\ ToSet(<<>>) = {} /\ IsInjective(<<>>)
  BY EmptySeq DEF ToSet, IsInjective
<1>2. calls \in Seq(Kinds) /\ results \in Seq(Calls) /\ listening \in Seq(Listeners) /\ slots \in Seq(Listeners)
  BY <1>1 DEF Init
<1>3. turn \in 1..Len(slots) + 1 /\ Len(calls) <= MaxCalls
  BY <1>1, SteamAssumption DEF Init
<1>4. TypeOK
  BY <1>2, <1>3, SteamAssumption DEF Init, TypeOK
<1>5. Shape
  BY <1>1, <1>4, SteamAssumption DEF Init, Shape
<1>6. Once
  BY <1>1 DEF Init, Once
<1>7. Walk
  BY DEF Init, Walk
<1>8. Told
  BY <1>1 DEF Init, Told
<1> QED BY <1>5, <1>6, <1>7, <1>8 DEF IInv

LEMMA StepIInv == IInv /\ [Next]_vars => IInv'
BY StepShape, StepOnce, StepWalk, StepTold DEF IInv

(* For any number of threads, calls and listeners, with handlers that come *)
(* back into the interfaces: no result is handled twice or freed twice,    *)
(* and a walk that nobody erases from runs every listener as often as it   *)
(* was registered when the walk began (steam.cpp:69-90).                   *)
THEOREM EveryResultRunsOnce == Spec => []ResultsRunOnce
<1>1. IInv => ResultsRunOnce
  <2> SUFFICES ASSUME IInv PROVE ResultsRunOnce
    OBVIOUS
  <2>1. \A c \in Calls : ran[c] <= 1
    <3> QED BY CallsFit DEF IInv, Shape, Once
  <2>2. ASSUME stage = "walk", turn > Len(slots), ~shaken, NEW l \in Listeners
        PROVE  heard[l] = Times(due, l)
    <3>1. \A i \in 1..Len(slots) : i < turn
      BY <2>2 DEF IInv, Shape, TypeOK
    <3>2. due = slots /\ DOMAIN slots = 1..Len(slots)
      BY <2>2 DEF IInv, Shape, TypeOK, Walk
    <3>3. Turns(l) = {i \in DOMAIN due : due[i] = l}
      BY ONLY <3>1, <3>2 DEF Turns
    <3> QED BY <2>2, <3>3 DEF IInv, Walk, Times
  <2> QED BY <2>1, <2>2 DEF IInv, Once, ResultsRunOnce
<1> QED BY <1>1, InitIInv, StepIInv, PTL DEF Spec

(* A result is freed without its handler having run for three reasons only, *)
(* for any number of threads and calls (steam.cpp:55-90).                  *)
THEOREM OnlyNestedResultsAreDropped == Spec => []DroppedOnlyWhenNested
<1>1. IInv => DroppedOnlyWhenNested
  BY DEF IInv, Told, Settled, DroppedOnlyWhenNested
<1> QED BY <1>1, InitIInv, StepIInv, PTL DEF Spec

==============================================================================
