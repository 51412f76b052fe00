--------------------------- MODULE ComponentLoader ---------------------------
(***************************************************************************)
(* The component loader (common/loader/component_loader.cpp) between the   *)
(* attaching of the proxy library (common/proxies/proxy_base.cpp) and the  *)
(* end of the process: registration by static objects, activation in the   *)
(* order of the priorities, and the phases, each a function whose body is  *)
(* the initialiser of a static local: it runs once, whoever calls first,   *)
(* and every other caller waits for it.                                    *)
(***************************************************************************)
EXTENDS Integers, Sequences, SequencesExt, FiniteSets

CONSTANTS
  Registered,   (* the components in the order in which they register        *)
  Priority,     (* component -> priority()                                   *)
  Type,         (* component -> "client", "server" or "any"                  *)
  Unpacker,     (* the component whose post_load hooks the unpacking         *)
  Splasher,     (* the one whose post_load hooks the loading of images       *)
  Threads,      (* threads of the game that run into the first hook          *)
  Outcomes      (* how a component's handler may end: "ok", or it "throws"  *)

Components == ToSet(Registered)
Attacher == "dll"

ASSUME LoaderAssumption ==
  /\ Registered \in Seq(Components) /\ IsInjective(Registered)
  /\ Priority \in [Components -> Int]
  /\ Type \in [Components -> {"client", "server", "any"}]
  /\ {Unpacker, Splasher} \subseteq Components
  /\ Attacher \notin Threads
  /\ "ok" \in Outcomes /\ Outcomes \subseteq {"ok", "throws"}

\* The phases that are called, and activation: nothing that is registered calls
\* post_thread_setup.
Handlers == {"post_load", "post_unpack", "pre_destroy"}
Phases == Handlers \cup {"activate"}
Callers == Threads \cup {Attacher}

VARIABLES
  server,       (* the argument of activate                                  *)
  components,   (* get_components()                                          *)
  status,       (* phase -> "new", "running", "true" or "false" (res)        *)
  runner,       (* phase -> the caller whose call runs the body              *)
  reached,      (* phase -> the position the walk has reached                *)
  done,         (* history: phase -> the components whose handler returned   *)
  pc,           (* caller -> the phase it calls, "out", "back" or "exit"     *)
  complete,     (* the two ..._phase_complete flags, as a set of phases      *)
  splash,       (* the thread that loads the splash image: "out", "polling", "shown" *)
  process       (* "runs", "exits" or "over"                                 *)

loader == <<server, components, status, runner, reached, done, complete>>
loaderVars == <<loader, pc, splash, process>>

LoaderTypeOK ==
  /\ server \in BOOLEAN
  /\ components \in Seq(Components)
  /\ status \in [Phases -> {"new", "running", "true", "false"}]
  /\ runner \in [Phases -> Callers]
  /\ \A ph \in Handlers : reached[ph] \in 1..Len(components) + 1
  /\ reached["activate"] \in 1..Len(Registered) + 1
  /\ done \in [Handlers -> Seq(Components)]
  /\ pc \in [Callers -> Phases \cup {"out", "back", "exit"}]
  /\ complete \subseteq {"post_load", "post_unpack"}
  /\ splash \in {"out", "polling", "shown"}
  /\ process \in {"runs", "exits", "over"}

\* The static objects have registered, should_load has said yes.
LoaderInit ==
  /\ server \in BOOLEAN
  /\ components = <<>>
  /\ status = [ph \in Phases |-> "new"]
  /\ runner = [ph \in Phases |-> Attacher]
  /\ reached = [ph \in Phases |-> 1]
  /\ done = [ph \in Handlers |-> <<>>]
  /\ pc = [t \in Callers |-> IF t = Attacher THEN "activate" ELSE "out"]
  /\ complete = {} /\ splash = "out" /\ process = "runs"

------------------------------------------------------------------------------
(* Static locals. *)

\* Mutant of Begin: a plain function, which runs for every call.
BeginWithoutStatic(ph, t) ==
  /\ pc[t] = ph /\ process # "over"
  /\ status[ph] = "new" \/ (status[ph] = "true" /\ runner[ph] # t)
  /\ status' = [status EXCEPT ![ph] = "running"]
  /\ runner' = [runner EXCEPT ![ph] = t]
  /\ reached' = [reached EXCEPT ![ph] = 1]
  /\ UNCHANGED <<server, components, done, pc, complete, splash, process>>

\* The first caller runs the body.
Begin(ph, t) ==
  /\ pc[t] = ph /\ process # "over"
  /\ status[ph] = "new"
  /\ status' = [status EXCEPT ![ph] = "running"]
  /\ runner' = [runner EXCEPT ![ph] = t]
  /\ UNCHANGED <<server, components, reached, done, pc, complete, splash, process>>

Running(ph, t) == pc[t] = ph /\ process # "over" /\ status[ph] = "running" /\ runner[ph] = t

Finish(ph, verdict) == status' = [status EXCEPT ![ph] = verdict]

Wanted(c) == Type[c] = "any" \/ server = (Type[c] = "server")

\* activate: one registration.  push_back and a stable sort by falling priority:
\* the new component goes behind all of its priority or a higher one.
Activate(t) ==
  /\ Running("activate", t)
  /\ reached["activate"] <= Len(Registered)
  /\ LET c == Registered[reached["activate"]]
         place == Cardinality({ i \in DOMAIN components : Priority[components[i]] >= Priority[c] })
     IN \/ /\ reached' = [reached EXCEPT !["activate"] = @ + 1]
           /\ components' = IF Wanted(c) THEN InsertAt(components, place + 1, c) ELSE components
           /\ UNCHANGED status
        \/ /\ Wanted(c) /\ Outcomes # {"ok"}
           /\ Finish("activate", "false")
           /\ UNCHANGED <<reached, components>>
  /\ UNCHANGED <<server, runner, done, pc, complete, splash, process>>

\* Mutant of Handler: the walk advances twice.
HandlerSkips(ph, t) ==
  /\ Running(ph, t)
  /\ reached[ph] <= Len(components)
  /\ reached' = [reached EXCEPT ![ph] = @ + 2]
  /\ done' = [done EXCEPT ![ph] = Append(@, components[reached[ph]])]
  /\ UNCHANGED <<server, components, status, runner, pc, complete, splash, process>>

\* One handler of a phase: it returns, or throws and ends the phase.
Handler(ph, t) ==
  /\ Running(ph, t)
  /\ reached[ph] <= Len(components)
  /\ \E outcome \in Outcomes :
       IF outcome = "ok"
       THEN /\ reached' = [reached EXCEPT ![ph] = @ + 1]
            /\ done' = [done EXCEPT ![ph] = Append(@, components[reached[ph]])]
            /\ UNCHANGED status
       ELSE Finish(ph, "false") /\ UNCHANGED <<reached, done>>
  /\ UNCHANGED <<server, components, runner, pc, complete, splash, process>>

\* The walk is over; post_load and post_unpack set their flag.
End(ph, t) ==
  /\ Running(ph, t)
  /\ reached[ph] = (IF ph = "activate" THEN Len(Registered) ELSE Len(components)) + 1
  /\ Finish(ph, "true")
  /\ complete' = complete \cup ({ph} \cap {"post_load", "post_unpack"})
  /\ UNCHANGED <<server, components, runner, reached, done, pc, splash, process>>

Ended(ph, t) == pc[t] = ph /\ process # "over" /\ status[ph] \in {"true", "false"}
Goto(t, where) == pc' = [pc EXCEPT ![t] = where]

------------------------------------------------------------------------------
(* The callers. *)

\* on_dll_process_attach: a phase that failed ends the attaching, nothing else.
AttachGoesOn ==
  \/ /\ Ended("activate", Attacher)
     /\ Goto(Attacher, IF status["activate"] = "true" THEN "post_load" ELSE "back")
     /\ UNCHANGED <<loader, splash, process>>
  \/ /\ Ended("post_load", Attacher)
     /\ Goto(Attacher, "back")
     /\ UNCHANGED <<loader, splash, process>>

\* The code of the game runs when the library is attached, and runs into the
\* hook if it has been set.
EnterHook(t) ==
  /\ process # "over" /\ pc[t] = "out"
  /\ pc[Attacher] \in {"back", "exit", "pre_destroy"}
  /\ Unpacker \in ToSet(done["post_load"])
  /\ Goto(t, "post_unpack")
  /\ UNCHANGED <<loader, splash, process>>

\* Mutant of HookGoesOn: a flag instead of a static local, so that nobody waits.
HookGoesOnEarly(t) ==
  /\ pc[t] = "post_unpack" /\ process # "over"
  /\ status["post_unpack"] = "true" \/ (status["post_unpack"] = "running" /\ runner["post_unpack"] # t)
  /\ Goto(t, "back")
  /\ UNCHANGED <<loader, splash, process>>

\* Mutant of HookGoesOn: without TerminateProcess, waiting for a retry.
HookGoesOnWhenTrue(t) ==
  /\ Ended("post_unpack", t) /\ status["post_unpack"] = "true"
  /\ Goto(t, "back")
  /\ UNCHANGED <<loader, splash, process>>

\* post_unpack ends the process when it failed.
HookGoesOn(t) ==
  /\ Ended("post_unpack", t)
  /\ IF status["post_unpack"] = "true"
     THEN Goto(t, "back") /\ UNCHANGED process
     ELSE process' = "over" /\ UNCHANGED pc
  /\ UNCHANGED <<loader, splash>>

\* The game loads its splash image, and the hook of LoadImageA waits.
LoadImage ==
  /\ process # "over" /\ splash = "out"
  /\ pc[Attacher] \in {"back", "exit", "pre_destroy"}
  /\ Splasher \in ToSet(done["post_load"])
  /\ splash' = "polling"
  /\ UNCHANGED <<loader, pc, process>>

\* It polls is_post_unpack_phase_complete.
SplashGoesOn ==
  /\ process # "over" /\ splash = "polling"
  /\ "post_unpack" \in complete
  /\ splash' = "shown"
  /\ UNCHANGED <<loader, pc, process>>

\* The main thread leaves the program: the deleter of the components calls
\* pre_destroy, then the process is over.
Exit ==
  /\ process = "runs" /\ pc[Attacher] = "back"
  /\ process' = "exits"
  /\ Goto(Attacher, "pre_destroy")
  /\ UNCHANGED <<loader, splash>>

ExitEnds ==
  /\ Ended("pre_destroy", Attacher)
  /\ process' = "over"
  /\ UNCHANGED <<loader, pc, splash>>

Work(t) ==
  \/ \E ph \in Phases : Begin(ph, t) \/ End(ph, t)
  \/ Activate(t)
  \/ \E ph \in Handlers : Handler(ph, t)

LoaderNext ==
  \/ \E t \in Callers : Work(t)
  \/ AttachGoesOn
  \/ \E t \in Threads : EnterHook(t) \/ HookGoesOn(t)
  \/ LoadImage \/ SplashGoesOn
  \/ Exit \/ ExitEnds

LoaderSpec == LoaderInit /\ [][LoaderNext]_loaderVars

\* Every handler returns or throws, and every thread that is in a call goes on.
LoaderFairness ==
  /\ \A t \in Callers : WF_loaderVars(Work(t))
  /\ WF_loaderVars(AttachGoesOn) /\ WF_loaderVars(ExitEnds)
  /\ \A t \in Threads : WF_loaderVars(HookGoesOn(t))
  /\ WF_loaderVars(SplashGoesOn)

FairLoaderSpec == LoaderSpec /\ LoaderFairness

------------------------------------------------------------------------------
(* Properties. *)

\* c has a higher priority than d, or the same and has registered earlier.
ComesFirst(c, d) ==
  \E k, l \in DOMAIN Registered :
    /\ Registered[k] = c /\ Registered[l] = d
    /\ Priority[c] > Priority[d] \/ (Priority[c] = Priority[d] /\ k < l)

\* Activating the components one by one sorts them by falling priority and keeps
\* equal ones as they registered (component_loader.cpp:31-38); and no phase runs
\* a handler twice, skips one or reorders them, whichever threads run into the
\* hook and whenever the process ends.
PhasesFollowTheOrder ==
  /\ \A i, j \in DOMAIN components : i < j => ComesFirst(components[i], components[j])
  /\ \A ph \in Handlers : IsPrefix(done[ph], components)

\* Unpacking finds every component loaded, unless the loading failed and the
\* game went on all the same (proxy_base.cpp:43).
PhasesFollowEachOther ==
  done["post_unpack"] # <<>> => status["post_load"] = "false" \/ done["post_load"] = components

\* A thread comes out of the hook only when every component has been unpacked,
\* also when it was another thread's call that did it; nor is the splash image
\* loaded earlier by the thread that polls the flag (client-iw8 splash.cpp:14).
NobodyPassesEarly ==
  (splash = "shown" \/ \E t \in Threads : pc[t] = "back") => done["post_unpack"] = components

\* A thread that runs into the hook comes out of it or the process ends; and once
\* one has, the thread that polls the flag is not left waiting.
HookReturns ==
  /\ \A t \in Threads : pc[t] = "post_unpack" ~> (pc[t] = "back" \/ process = "over")
  /\ splash = "polling" /\ status["post_unpack"] # "new" ~> splash = "shown" \/ process = "over"

==============================================================================
