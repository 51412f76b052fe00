------------------------------ MODULE XInputProbe ------------------------------
(***************************************************************************)
(* The controller emulation of client-iw4-store: poll_controllers          *)
(* (component/xinput_probe.cpp) turns the first connected pad into         *)
(* keyboard and mouse events, check_settings (component/settings.cpp)      *)
(* reads the binds again when iw4s.ini has changed.  Both are tasks of     *)
(* the main pipeline, so they never overlap; the user edits the file, and  *)
(* switches windows, at any time.                                          *)
(***************************************************************************)
EXTENDS Naturals, Sequences, SequencesExt

CONSTANTS
  Order,        (* the inputs of a pad, in the order they are applied        *)
  Triggers,     (* the inputs that are mouse buttons, with no bind           *)
  XUSER_MAX_COUNT,
  Keys,         (* the keys an ini file can name                             *)
  Ctrl, C,      (* what the B button sends: VK_CONTROL and 'C'               *)
  Binds,        (* the binds an ini file can hold: functions input -> key    *)
  DefaultBind,  (* settings.hpp and write_default_ini                        *)
  Threshold,    (* hold_threshold, in polls                                  *)
  MaxEdits,     (* bound: how often the user changes or deletes the file     *)
  Missing

Inputs == ToSet(Order)
Pads == 0..XUSER_MAX_COUNT - 1

ASSUME ProbeAssumption ==
  /\ Order \in Seq(Inputs) \ {<<>>} /\ IsInjective(Order) /\ Triggers \subseteq Inputs
  /\ {Ctrl, C} \subseteq Keys /\ Keys \cap Triggers = {}
  /\ DefaultBind \in Binds /\ Binds \subseteq [Inputs \ Triggers -> Keys]
  /\ {XUSER_MAX_COUNT, MaxEdits} \subseteq Nat /\ Threshold \in Nat \ {0}

\* iw4s.ini; valid says whether the two numbers in it parse.
Files == [bind : Binds, valid : BOOLEAN] \cup {Missing}

\* What XInputGetState says of a connected pad.
PadStates == [held : SUBSET Inputs, b : BOOLEAN]

VARIABLES
  down,         (* the inputs whose key_down flag is set                     *)
  button,       (* b_button_down, b_hold_mode and the time since b_pressed_at *)
  active,       (* active_index                                              *)
  bind,         (* current_config                                            *)
  keyboard,     (* the keys and mouse buttons this process holds down        *)
  window,       (* the game's window is in the foreground                    *)
  file,         (* iw4s.ini                                                  *)
  fresh,        (* its write time is not last_write_time                     *)
  loading,      (* load_ini: 0 outside, 1 at the numbers, i + 1 at Order[i]  *)
  edits,
  running,
  tapped,       (* history: flips with every tap of C                        *)
  since,        (* history: the pad on which the B button went down          *)
  strayed,      (* history: keys whose input got another key while held      *)
  mixed         (* history: keys that were bound twice, or while held        *)

probe == <<down, button, active, keyboard, tapped, since>>
config == <<bind, loading, strayed, mixed>>
disk == <<file, fresh, edits>>
vars == <<probe, config, disk, window, running>>

Up == [down |-> FALSE, hold |-> FALSE, age |-> 0]

TypeOK ==
  /\ down \subseteq Inputs
  /\ button \in [down : BOOLEAN, hold : BOOLEAN, age : 0..Threshold]
  /\ button.hold => button.down /\ button.age = Threshold
  /\ active \in Pads \cup {XUSER_MAX_COUNT}
  /\ bind \in [Inputs \ Triggers -> Keys]
  /\ keyboard \subseteq Keys \cup Triggers
  /\ file \in Files /\ {window, fresh, running, tapped} \subseteq BOOLEAN
  /\ loading \in 0..Len(Order) + 1 /\ edits \in 0..MaxEdits
  /\ since \in Pads \cup {XUSER_MAX_COUNT}
  /\ strayed \cup mixed \subseteq Keys

KeyOf(i) == IF i \in Triggers THEN i ELSE bind[i]

\* The keys that more than one source can send, the B button included.
Shared(binds) ==
  ({Ctrl, C} \cap {binds[i] : i \in DOMAIN binds})
    \cup {binds[i] : i \in {j \in DOMAIN binds : \E k \in DOMAIN binds \ {j} : binds[k] = binds[j]}}

Init ==
  /\ down = {} /\ button = Up /\ active = XUSER_MAX_COUNT
  /\ bind = DefaultBind /\ keyboard = {}
  /\ window \in BOOLEAN
  /\ file \in Files /\ fresh = TRUE /\ loading = 0 /\ edits = 0
  /\ running = TRUE /\ tapped = FALSE /\ since = XUSER_MAX_COUNT
  /\ strayed = {} /\ mixed = Shared(DefaultBind)

------------------------------------------------------------------------------
(* poll_controllers. *)

Send(keys, key, press) == IF press THEN keys \cup {key} ELSE keys \ {key}

\* set_key_state and set_button_state over all inputs: an event for each input
\* whose flag changes, in order, with the key that is bound to it now.  A key is
\* down after them if it was or is pressed, and every release is before a press.
SetStates(keys, from, to) ==
  LET sends(inputs, k) == {n \in 1..Len(Order) : Order[n] \in inputs /\ KeyOf(Order[n]) = k}
  IN  {k \in keys \cup {KeyOf(i) : i \in to \ from} :
         \A n \in sends(from \ to, k) : \E m \in sends(to \ from, k) : n < m}

\* release_all_inputs, on the keyboard.
Released(keys) ==
  LET k == SetStates(keys, down, {}) IN IF button.hold THEN Send(k, Ctrl, FALSE) ELSE k

\* update_b_button: the button it leaves.
Pressed(b, elapsed) ==
  LET age == IF ~b.down THEN 0 ELSE IF b.age + elapsed > Threshold THEN Threshold ELSE b.age + elapsed
  IN  [down |-> TRUE, hold |-> b.hold \/ age >= Threshold, age |-> age]

\* update_b_button: the keys it leaves; a tap of C ends with C up.
ButtonKeys(keys, b, pressed, after) ==
  IF pressed THEN IF after.hold /\ ~b.hold THEN Send(keys, Ctrl, TRUE) ELSE keys
  ELSE IF ~b.down THEN keys
  ELSE Send(keys, IF b.hold THEN Ctrl ELSE C, FALSE)

\* The poll found no active window, or no pad: what it does about it.
ReleaseAll ==
  /\ keyboard' = Released(keyboard)
  /\ down' = {} /\ button' = Up
  /\ active' = XUSER_MAX_COUNT
  /\ since' = XUSER_MAX_COUNT
  /\ UNCHANGED tapped

\* Mutant of Apply: the end of a hold is taken for a tap as well.
ApplyTapsAlways(p, pad, elapsed) ==
  LET switch == active # p
      keys == IF switch THEN Released(keyboard) ELSE keyboard
      held == IF switch THEN {} ELSE down
      b == IF switch THEN Up ELSE button
      after == IF pad.b THEN Pressed(b, elapsed) ELSE Up
  IN
  /\ keyboard' = ButtonKeys(SetStates(keys, held, pad.held), b, pad.b, after)
  /\ down' = pad.held /\ button' = after /\ active' = p
  /\ tapped' = (tapped # (~pad.b /\ b.down))
  /\ since' = IF ~pad.b THEN XUSER_MAX_COUNT ELSE IF b.down THEN since ELSE p

\* Mutant of Apply: a key is sent for what is pressed, never for a release.
ApplyPressesOnly(p, pad, elapsed) ==
  /\ keyboard' = keyboard \cup {KeyOf(i) : i \in pad.held}
  /\ down' = pad.held /\ active' = p
  /\ UNCHANGED <<button, tapped, since>>

\* Mutant of Apply: every poll releases the keys, while the flags stay as they are.
ApplyLosesFlags(p, pad, elapsed) ==
  LET after == IF pad.b THEN Pressed(button, elapsed) ELSE Up IN
  /\ keyboard' = Released(keyboard)
  /\ down' = pad.held /\ button' = after /\ active' = p
  /\ UNCHANGED <<tapped, since>>

\* A pad is there: release first if it is another one, then apply_active_controller.
Apply(p, pad, elapsed) ==
  LET switch == active # p
      keys == IF switch THEN Released(keyboard) ELSE keyboard
      held == IF switch THEN {} ELSE down
      b == IF switch THEN Up ELSE button
      after == IF pad.b THEN Pressed(b, elapsed) ELSE Up
  IN
  /\ keyboard' = ButtonKeys(SetStates(keys, held, pad.held), b, pad.b, after)
  /\ down' = pad.held /\ button' = after /\ active' = p
  /\ tapped' = (tapped # (~pad.b /\ b.down /\ ~b.hold))
  /\ since' = IF ~pad.b THEN XUSER_MAX_COUNT ELSE IF b.down THEN since ELSE p

\* Mutant of Poll: in the background only the B button is looked at.
PollWaitsForB ==
  /\ running /\ loading = 0
  /\ IF ~window THEN button.down /\ ReleaseAll
     ELSE \/ ReleaseAll
          \/ \E p \in Pads, pad \in PadStates, elapsed \in 1..Threshold : Apply(p, pad, elapsed)
  /\ UNCHANGED <<config, disk, window, running>>

\* poll_controllers: no pad answers, or p is the first one that does; those after
\* it are read for the log only.
Poll ==
  /\ running /\ loading = 0
  /\ IF ~window THEN ReleaseAll
     ELSE \/ ReleaseAll
          \/ \E p \in Pads, pad \in PadStates, elapsed \in 1..Threshold : Apply(p, pad, elapsed)
  /\ UNCHANGED <<config, disk, window, running>>

------------------------------------------------------------------------------
(* check_settings. *)

\* The file is there, and its time is a new one: the time is taken first.
CheckSettings ==
  /\ running /\ loading = 0 /\ file # Missing /\ fresh
  /\ fresh' = FALSE /\ loading' = 1
  /\ UNCHANGED <<probe, bind, strayed, mixed, file, edits, window, running>>

\* The file is missing and can be written.
WriteDefaultIni ==
  /\ running /\ loading = 0 /\ file = Missing
  /\ file' = [bind |-> DefaultBind, valid |-> TRUE]
  /\ fresh' = FALSE /\ loading' = 1
  /\ UNCHANGED <<probe, bind, strayed, mixed, edits, window, running>>

\* std::stof throws out of the task, of the pipeline and of the frame.
LoadNumbers ==
  /\ running /\ loading = 1
  /\ IF file = Missing \/ file.valid
     THEN loading' = 2 /\ UNCHANGED running
     ELSE running' = FALSE /\ UNCHANGED loading
  /\ UNCHANGED <<probe, bind, strayed, mixed, disk, window>>

Assigned(i, key) ==
  /\ bind' = [bind EXCEPT ![i] = key]
  /\ strayed' = IF i \in down /\ key # bind[i] THEN strayed \cup {bind[i]} ELSE strayed
  /\ mixed' = mixed \cup Shared(bind') \cup (IF i \in down /\ key # bind[i] THEN {key} ELSE {})

\* Mutant of LoadBind: the time is taken when the file has been read.
LoadBindThenTime ==
  /\ running /\ loading > 1
  /\ LET i == Order[loading - 1] IN
     IF i \in Triggers THEN UNCHANGED <<bind, strayed, mixed>>
     ELSE Assigned(i, IF file = Missing THEN DefaultBind[i] ELSE file.bind[i])
  /\ loading' = IF loading = Len(Order) + 1 THEN 0 ELSE loading + 1
  /\ fresh' = FALSE
  /\ UNCHANGED <<probe, file, edits, window, running>>

\* get_bind, one call per input; each reads the file as it is by then.
LoadBind ==
  /\ running /\ loading > 1
  /\ LET i == Order[loading - 1] IN
     IF i \in Triggers THEN UNCHANGED <<bind, strayed, mixed>>
     ELSE Assigned(i, IF file = Missing THEN DefaultBind[i] ELSE file.bind[i])
  /\ loading' = IF loading = Len(Order) + 1 THEN 0 ELSE loading + 1
  /\ UNCHANGED <<probe, disk, window, running>>

------------------------------------------------------------------------------
(* The user. *)

Edit ==
  /\ edits < MaxEdits /\ edits' = edits + 1
  /\ file' \in Files
  /\ fresh' = TRUE
  /\ UNCHANGED <<probe, config, window, running>>

SwitchWindow ==
  /\ window' = ~window
  /\ UNCHANGED <<probe, config, disk, running>>

\* The process ends without a word to the probe, which releases nothing.
Quit ==
  /\ running /\ loading = 0
  /\ running' = FALSE
  /\ UNCHANGED <<probe, config, disk, window>>

Pipeline == Poll \/ CheckSettings \/ WriteDefaultIni \/ LoadNumbers \/ LoadBind

Next == Pipeline \/ Edit \/ SwitchWindow \/ Quit

Spec == Init /\ [][Next]_vars

\* The game runs a frame over and over, and each task when its time has come;
\* a file that cannot be written is as good as a task that finds nothing to do.
Fairness ==
  /\ SF_vars(Poll) /\ SF_vars(CheckSettings)
  /\ WF_vars(LoadNumbers) /\ WF_vars(LoadBind)

FairSpec == Spec /\ Fairness

------------------------------------------------------------------------------
(* Properties. *)

\* A key this process holds down is accounted for by an input that is held or by
\* the hold of the B button: the only keys that can get stuck are those whose
\* input was given another key while it was held (settings.cpp:108-127).
NoStuckKeys ==
  keyboard \subseteq {KeyOf(i) : i \in down} \cup strayed \cup {k \in {Ctrl} : button.hold}

\* And the other way round: a held input has its key down, unless the ini file has
\* bound that key twice or changed the bind while the input was held.
HeldKeysAreDown ==
  /\ \A i \in down : KeyOf(i) \in keyboard \/ KeyOf(i) \in mixed
  /\ button.hold => Ctrl \in keyboard \/ Ctrl \in mixed

\* A press of B means one thing: a tap of C is never the end of a hold, nor what
\* is left of a press on a pad that is not the active one any more.
OnePressOneMeaning ==
  [][tapped' # tapped => /\ button.down /\ ~button.hold
                         /\ since = active /\ active' = active]_vars

\* When the window stays in the background every flag is cleared, and no key but
\* a strayed one is left down.
BackgroundReleases ==
  <>[]~window => <>[](running => /\ down = {} /\ ~button.down
                                 /\ keyboard \subseteq strayed)

\* An edit is never missed: when the time on record is the file's, and no
\* load is under way, the binds are those of the file, even if the file was
\* changed again in the middle of a load.
SettingsAreTheFiles ==
  (running /\ loading = 0 /\ ~fresh /\ file # Missing) => bind = file.bind

==============================================================================
