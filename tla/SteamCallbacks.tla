---------------------------- MODULE SteamCallbacks ----------------------------
(***************************************************************************)
(* The Steam calls that client-t6 answers itself: steam::callbacks         *)
(* (steam/steam.cpp) and the interfaces that post results (steam/          *)
(* interfaces).  One recursive mutex guards everything and is held through *)
(* a whole run_callbacks; a handler that runs may come back in, but for    *)
(* run_callbacks itself.                                                   *)
(***************************************************************************)
EXTENDS Naturals, Sequences, FiniteSets, SequencesExt

CONSTANTS
  Threads,      (* threads of the game that use the Steam interfaces         *)
  Listeners,    (* handlers for SteamAPI_RegisterCallback                    *)
  MaxCalls,     (* bound: how many calls the game makes                      *)
  MaxListening, (* bound: how long callback_list_ gets                       *)
  Nobody

ASSUME SteamAssumption == MaxCalls \in Nat /\ MaxListening \in Nat /\ Nobody \notin Threads

\* What a call is: "ticket" hands its number to the game, which registers a
\* handler for it; "stats" is only broadcast; "lobby" is never answered.
Kinds == {"ticket", "stats", "lobby"}
Posts(kind) == kind # "lobby"

VARIABLES
  calls,        (* call_id_ and the kinds of the calls: call -> kind         *)
  results,      (* results_, the numbers of the calls                        *)
  handlers,     (* result_handlers_: the calls with a handler                *)
  listening,    (* callback_list_                                            *)
  owner,        (* the thread inside run_callbacks, or Nobody                *)
  at,           (* the position of run_callbacks in results_                 *)
  bound,        (* the end run_callbacks took when it began                  *)
  stage,        (* run_callbacks is at "result", its "handler", or the "walk" *)
  slots,        (* what the walk finds from the begin to the end it took     *)
  turn,         (* the position of the walk in slots                         *)
  inside,       (* a handler runs: it may come back in                       *)
  grown,        (* callback_list_ may have moved away from under the walk    *)
  pc,           (* thread -> "out", "posting", "registering"                 *)
  call,         (* thread -> the call it makes, 0 for none                   *)
  ran,          (* history: call -> how often its own handler ran            *)
  due,          (* history: the list when the walk began                     *)
  heard,        (* history: listener -> how often the walk has run it        *)
  shaken,       (* history: one was unregistered during the walk             *)
  gone,         (* history: the results that left results_                   *)
  nested,       (* history: the results posted from inside a handler         *)
  early,        (* history: the results another thread walked over before
                   the asking one had registered its handler                 *)
  withdrawn,    (* history: the calls whose handler was unregistered         *)
  dead          (* the process has died of a dangling iterator               *)

shared == <<calls, results, handlers, listening>>
walk == <<stage, slots, turn, inside, grown, due, heard, shaken>>
pump == <<owner, at, bound, walk>>
history == <<ran, gone, nested, early, withdrawn>>
vars == <<shared, pump, pc, call, history, dead>>

Calls == DOMAIN calls

TypeOK ==
  /\ calls \in Seq(Kinds) /\ Len(calls) <= MaxCalls
  /\ results \in Seq(Calls)
  /\ handlers \subseteq Calls
  /\ listening \in Seq(Listeners)
  /\ owner \in Threads \cup {Nobody}
  /\ owner # Nobody => at \in 1..bound + 1 /\ bound <= Len(results)
  /\ stage \in {"result", "handler", "walk"}
  /\ slots \in Seq(Listeners) /\ turn \in 1..Len(slots) + 1
  /\ inside \in BOOLEAN /\ grown \in BOOLEAN /\ shaken \in BOOLEAN
  /\ due \in Seq(Listeners) /\ heard \in [Listeners -> Nat]
  /\ pc \in [Threads -> {"out", "posting", "registering"}]
  /\ call \in [Threads -> Calls \cup {0}]
  /\ gone \cup nested \cup early \cup withdrawn \subseteq Calls
  /\ dead \in BOOLEAN

Init ==
  /\ calls = <<>> /\ results = <<>> /\ handlers = {} /\ listening = <<>>
  /\ owner = Nobody /\ at = 1 /\ bound = 0
  /\ stage = "result" /\ slots = <<>> /\ turn = 1 /\ inside = FALSE /\ grown = FALSE
  /\ due = <<>> /\ heard = [l \in Listeners |-> 0] /\ shaken = FALSE
  /\ pc = [t \in Threads |-> "out"]
  /\ call = [t \in Threads |-> 0]
  /\ ran = [c \in 1..MaxCalls |-> 0]
  /\ gone = {} /\ nested = {} /\ early = {} /\ withdrawn = {}
  /\ dead = FALSE

\* The mutex is free, or t has it already and is inside a handler.
Enters(t) == ~dead /\ owner \in {Nobody, t} /\ (owner = t => inside)
Leaves(t, where) == pc' = [pc EXCEPT ![t] = where]

------------------------------------------------------------------------------
(* The interfaces. *)

\* register_call.  A handler may call it, while run_callbacks walks.
RegisterCall(t, kind) ==
  /\ pc[t] = "out" /\ Enters(t)
  /\ Len(calls) < MaxCalls
  /\ calls' = Append(calls, kind)
  /\ call' = [call EXCEPT ![t] = Len(calls')]
  /\ Leaves(t, IF Posts(kind) THEN "posting" ELSE "registering")
  /\ UNCHANGED <<results, handlers, listening, pump, history, dead>>

\* return_call: the result is complete before the game knows the call.
ReturnCall(t) ==
  /\ pc[t] = "posting" /\ Enters(t)
  /\ results' = Append(results, call[t])
  /\ nested' = IF owner = t THEN nested \cup {call[t]} ELSE nested
  /\ Leaves(t, IF calls[call[t]] = "ticket" THEN "registering" ELSE "out")
  /\ UNCHANGED <<calls, handlers, listening, pump, call, ran, gone, early, withdrawn, dead>>

\* Mutant of RegisterCallResult: one handler for all calls.
RegisterCallResultAlone(t) ==
  /\ pc[t] = "registering" /\ Enters(t)
  /\ handlers' = {call[t]}
  /\ Leaves(t, "out")
  /\ UNCHANGED <<calls, results, listening, pump, call, history, dead>>

\* SteamAPI_RegisterCallResult with the number of the call.
RegisterCallResult(t) ==
  /\ pc[t] = "registering" /\ Enters(t)
  /\ handlers' = handlers \cup {call[t]}
  /\ Leaves(t, "out")
  /\ UNCHANGED <<calls, results, listening, pump, call, history, dead>>

\* SteamAPI_UnregisterCallResult.
UnregisterCallResult(t) ==
  /\ pc[t] = "out" /\ Enters(t)
  /\ \E c \in handlers :
       /\ handlers' = handlers \ {c}
       /\ withdrawn' = withdrawn \cup {c}
  /\ UNCHANGED <<calls, results, listening, pump, pc, call, ran, gone, nested, early, dead>>

\* What the walk finds under it once callback_list_ is list: behind the last
\* element anything that stood there before.  A list that has moved leaves the
\* buffer alone.
Underlay(list) ==
  LET under == {s \in [DOMAIN slots -> ToSet(slots) \cup ToSet(list)] :
                  \A i \in DOMAIN slots : i <= Len(list) => s[i] = list[i]}
  IN IF grown THEN under \cup {slots} ELSE under

\* push_back, of a listener that is on the list already too.  With the walk going
\* on it may move the list, unless an erase has made room.
RegisterCallback(t, l) ==
  /\ pc[t] = "out" /\ Enters(t)
  /\ Len(listening) < MaxListening
  /\ listening' = Append(listening, l)
  /\ slots' \in Underlay(listening')
  /\ grown' = (grown \/ (stage = "walk" /\ Len(listening) >= Len(slots)))
  /\ UNCHANGED <<calls, results, handlers, owner, at, bound, stage, turn, inside,
                 due, heard, shaken, pc, call, history, dead>>

\* The list without l: the others, in their order.
Without(list, l) ==
  LET picks == UNION {[1..m -> {i \in DOMAIN list : list[i] # l}] : m \in 0..Len(list)}
      InOrder(f) == \A j, k \in DOMAIN f : j < k => f[j] < f[k]
      All(f) == \A i \in DOMAIN list : list[i] = l \/ \E k \in DOMAIN f : f[k] = i
  IN {[k \in DOMAIN f |-> list[f[k]]] : f \in {f \in picks : InOrder(f) /\ All(f)}}

\* erase of every entry of l, which moves the later listeners forward, under the
\* walk as well.
UnregisterCallback(t, l) ==
  /\ pc[t] = "out" /\ Enters(t)
  /\ l \in ToSet(listening)
  /\ listening' \in Without(listening, l)
  /\ slots' \in Underlay(listening')
  /\ shaken' = (shaken \/ stage = "walk")
  /\ UNCHANGED <<calls, results, handlers, owner, at, bound, stage, turn, inside,
                 grown, due, heard, pc, call, history, dead>>

------------------------------------------------------------------------------
(* run_callbacks. *)

\* Mutant of RunBegins: the last result is left out.
RunBeginsShort(t) ==
  /\ pc[t] = "out" /\ owner = Nobody /\ ~dead
  /\ owner' = t /\ at' = 1
  /\ bound' = IF results = <<>> THEN 0 ELSE Len(results) - 1
  /\ UNCHANGED <<shared, walk, pc, call, history, dead>>

RunBegins(t) ==
  /\ pc[t] = "out" /\ owner = Nobody /\ ~dead
  /\ owner' = t /\ at' = 1 /\ bound' = Len(results)
  /\ UNCHANGED <<shared, walk, pc, call, history, dead>>

\* t goes on with the callbacks: the handler that ran has returned.
Runs(t, where) == owner = t /\ pc[t] = "out" /\ ~dead /\ stage = where

\* The handler of the next result, if one is registered by now.
RunHandler(t) ==
  /\ Runs(t, "result") /\ at <= bound
  /\ LET c == results[at] IN
     /\ ran' = IF c \in handlers THEN [ran EXCEPT ![c] = @ + 1] ELSE ran
     /\ inside' = (c \in handlers)
     /\ early' = IF \E u \in Threads \ {t} : call[u] = c /\ pc[u] = "registering"
                 THEN early \cup {c} ELSE early
  /\ stage' = "handler"
  /\ UNCHANGED <<shared, owner, at, bound, slots, turn, grown, due, heard, shaken,
                 pc, call, gone, nested, withdrawn, dead>>

\* The loop over callback_list_ takes its begin and its end.
WalkBegins(t) ==
  /\ Runs(t, "handler")
  /\ stage' = "walk" /\ inside' = FALSE
  /\ slots' = IF calls[results[at]] = "stats" THEN listening ELSE <<>>
  /\ due' = slots'
  /\ UNCHANGED <<shared, owner, at, bound, turn, grown, heard, shaken, pc, call, history, dead>>

\* The next listener of the result's type.
RunListener(t) ==
  /\ Runs(t, "walk") /\ turn <= Len(slots)
  /\ heard' = [heard EXCEPT ![slots[turn]] = @ + 1]
  /\ turn' = turn + 1 /\ inside' = TRUE
  /\ UNCHANGED <<shared, owner, at, bound, stage, slots, grown, due, shaken, pc, call, history, dead>>

\* The data of the result is freed.
ResultEnds(t) ==
  /\ Runs(t, "walk") /\ turn > Len(slots)
  /\ at' = at + 1
  /\ stage' = "result" /\ slots' = <<>> /\ turn' = 1 /\ inside' = FALSE /\ grown' = FALSE
  /\ due' = <<>> /\ heard' = [l \in Listeners |-> 0] /\ shaken' = FALSE
  /\ UNCHANGED <<shared, owner, bound, pc, call, history, dead>>

\* Mutant of RunEnds: results_ is not cleared.
RunEndsWithoutClear(t) ==
  /\ Runs(t, "result") /\ at = bound + 1
  /\ gone' = gone \cup ToSet(results)
  /\ owner' = Nobody
  /\ UNCHANGED <<shared, at, bound, walk, pc, call, ran, nested, early, withdrawn, dead>>

\* results_.clear() removes what was posted during the walk as well.
RunEnds(t) ==
  /\ Runs(t, "result") /\ at = bound + 1
  /\ gone' = gone \cup ToSet(results)
  /\ results' = <<>>
  /\ owner' = Nobody
  /\ UNCHANGED <<calls, handlers, listening, at, bound, walk, pc, call, ran, nested, early, withdrawn, dead>>

\* What a handler appends may make results_ or callback_list_ reallocate under
\* the loop that walks it: then the loop reads freed memory, which either still
\* holds the old elements (the steps above) or kills the process.
Dies(t) ==
  /\ owner = t /\ pc[t] = "out" /\ ~dead
  /\ \/ at <= bound /\ ToSet(results) \cap nested # {}
     \/ grown
  /\ dead' = TRUE
  /\ UNCHANGED <<shared, pump, pc, call, history>>

Thread(t) ==
  \/ \E kind \in Kinds : RegisterCall(t, kind)
  \/ ReturnCall(t) \/ RegisterCallResult(t) \/ UnregisterCallResult(t)
  \/ \E l \in Listeners : RegisterCallback(t, l) \/ UnregisterCallback(t, l)
  \/ RunBegins(t) \/ RunHandler(t) \/ WalkBegins(t) \/ RunListener(t) \/ ResultEnds(t)
  \/ RunEnds(t) \/ Dies(t)

Next == \E t \in Threads : Thread(t)

Spec == Init /\ [][Next]_vars

\* The game runs the callbacks every frame, and what it has begun it finishes.
Fairness == \A t \in Threads :
  /\ WF_vars(ReturnCall(t)) /\ WF_vars(RegisterCallResult(t))
  /\ SF_vars(RunBegins(t))
  /\ WF_vars(RunHandler(t) \/ WalkBegins(t) \/ RunListener(t) \/ ResultEnds(t) \/ RunEnds(t))

FairSpec == Spec /\ Fairness

------------------------------------------------------------------------------
(* Properties. *)

\* A result is given to its handler at most once and is freed when it is, over
\* any number of runs; and every listener hears it as often as it was on the list
\* when the walk began, whatever the handlers ask, post and register in the
\* meantime, unless one of them unregisters a listener: then the walk may run one
\* that is gone, skip one or run one too often.
Times(list, l) == Cardinality({i \in DOMAIN list : list[i] = l})

ResultsRunOnce ==
  /\ \A c \in Calls : ran[c] <= 1
  /\ gone \cap ToSet(results) = {}
  /\ IsInjective(results)
  /\ stage = "walk" /\ turn > Len(slots) /\ ~shaken =>
       \A l \in Listeners : heard[l] = Times(due, l)

\* The handler of a result is run before the result is freed, unless the result
\* was posted from inside a handler, the game has unregistered the handler, or
\* another thread ran the callbacks in the moment between the call and the
\* registration of its handler: the thread that asks cannot lose it by itself.
DroppedOnlyWhenNested ==
  \A c \in gone : calls[c] = "stats" \/ ran[c] = 1 \/ c \in nested \cup early \cup withdrawn

\* A handler whose result waits is run: results do not starve, unless
\* the game unregisters it or has broken the walk from inside a handler.
WaitingHandlersRun ==
  \A c \in 1..MaxCalls :
    (c \in handlers /\ c \in ToSet(results) /\ c \notin nested \cup early)
      ~> (ran[c] = 1 \/ c \in withdrawn \/ dead)
==============================================================================
