------------------------------- MODULE IW5Probe -------------------------------
(***************************************************************************)
(* The controller emulation of client-iw5-store: the code of iw4 without   *)
(* its scheduler.  xinput_thread polls every 16 ms, settings_thread checks *)
(* the file every second, and both use current_config without a lock, so   *)
(* that a bind can change between any two keys of one poll, and between    *)
(* the flag of an input and the key that is sent for it.                   *)
(***************************************************************************)
EXTENDS XInputProbe

ASSUME NoneIsNoInput == "none" \notin Inputs

VARIABLES
  mode,         (* xinput_thread: "sleep", "release", "apply"                *)
  at,           (* its position in Order, past the end for the B button      *)
  flight,       (* the input whose flag is set and whose key is not sent, or "none" *)
  seen          (* what the poll found: [p, pad, elapsed], p = XUSER_MAX_COUNT for no pad *)

thread == <<mode, at, flight, seen>>
vars5 == <<vars, thread>>

NoPad == [held |-> {}, b |-> FALSE]
Nothing == [p |-> XUSER_MAX_COUNT, pad |-> NoPad, elapsed |-> 1]

TypeOK5 ==
  /\ TypeOK
  /\ mode \in {"sleep", "release", "apply"} /\ at \in 1..Len(Order) + 1
  /\ flight \in Inputs \cup {"none"}
  /\ seen \in [p : 0..XUSER_MAX_COUNT, pad : PadStates, elapsed : 1..Threshold]

\* settings::init has read the file, if it could write one, before a thread starts.
Init5 ==
  /\ down = {} /\ button = Up /\ active = XUSER_MAX_COUNT /\ keyboard = {}
  /\ window \in BOOLEAN
  /\ file \in {f \in Files : f # Missing => f.valid}
  /\ bind = IF file = Missing THEN DefaultBind ELSE file.bind
  /\ fresh = FALSE /\ loading = 0 /\ edits = 0
  /\ running = TRUE /\ tapped = FALSE /\ since = XUSER_MAX_COUNT
  /\ strayed = {} /\ mixed = {}
  /\ mode = "sleep" /\ at = 1 /\ flight = "none" /\ seen = Nothing

------------------------------------------------------------------------------
(* xinput_thread. *)

SomethingToRelease == active # XUSER_MAX_COUNT \/ down # {} \/ button.down

\* Mutant of PollStarts: another pad is applied over the keys of the last one, and
\* one that goes away takes its keys with it.
PollStartsWithoutRelease ==
  /\ running /\ mode = "sleep"
  /\ window
  /\ \E p \in Pads, pad \in PadStates, elapsed \in 1..Threshold :
       seen' = [p |-> p, pad |-> pad, elapsed |-> elapsed] /\ mode' = "apply"
  /\ at' = 1
  /\ UNCHANGED <<probe, config, disk, window, running, flight>>

\* poll_controllers, up to what it sends: the window, and the first pad that answers.
PollStarts ==
  /\ running /\ mode = "sleep"
  /\ \/ /\ SomethingToRelease
        /\ seen' = Nothing /\ mode' = "release"
     \/ /\ window
        /\ \E p \in Pads, pad \in PadStates, elapsed \in 1..Threshold :
             /\ seen' = [p |-> p, pad |-> pad, elapsed |-> elapsed]
             /\ mode' = IF active # p THEN "release" ELSE "apply"
  /\ at' = 1
  /\ UNCHANGED <<probe, config, disk, window, running, flight>>

WantedKeys == IF mode = "apply" THEN seen.pad.held ELSE {}

\* set_key_state and set_button_state: an input that changes has its flag set.
SetFlag ==
  /\ running /\ mode # "sleep" /\ flight = "none" /\ at <= Len(Order)
  /\ LET i == Order[at] IN
     IF (i \in down) = (i \in WantedKeys)
     THEN at' = at + 1 /\ UNCHANGED <<down, flight>>
     ELSE /\ down' = IF i \in WantedKeys THEN down \cup {i} ELSE down \ {i}
          /\ flight' = i /\ UNCHANGED at
  /\ UNCHANGED <<button, active, keyboard, tapped, since, config, disk, window, running, mode, seen>>

\* Mutant of SendKey: the key goes down whatever the flag says.
SendKeyDown ==
  /\ running /\ flight # "none"
  /\ keyboard' = Send(keyboard, KeyOf(flight), TRUE)
  /\ flight' = "none" /\ at' = at + 1
  /\ UNCHANGED <<down, button, active, tapped, since, config, disk, window, running, mode, seen>>

\* send_key_event, with the bind of this moment.
SendKey ==
  /\ running /\ flight # "none"
  /\ keyboard' = Send(keyboard, KeyOf(flight), flight \in down)
  /\ flight' = "none" /\ at' = at + 1
  /\ UNCHANGED <<down, button, active, tapped, since, config, disk, window, running, mode, seen>>

\* The end of release_all_inputs; the pad that was found is applied next.
ReleaseEnds ==
  /\ running /\ mode = "release" /\ at > Len(Order)
  /\ keyboard' = IF button.hold THEN Send(keyboard, Ctrl, FALSE) ELSE keyboard
  /\ button' = Up /\ since' = XUSER_MAX_COUNT
  /\ at' = 1
  /\ mode' = IF seen.p = XUSER_MAX_COUNT THEN "sleep" ELSE "apply"
  /\ active' = IF seen.p = XUSER_MAX_COUNT THEN seen.p ELSE active
  /\ UNCHANGED <<down, tapped, config, disk, window, running, flight, seen>>

\* update_b_button and the end of apply_active_controller.
ApplyEnds ==
  /\ running /\ mode = "apply" /\ at > Len(Order)
  /\ LET after == IF seen.pad.b THEN Pressed(button, seen.elapsed) ELSE Up IN
     /\ keyboard' = ButtonKeys(keyboard, button, seen.pad.b, after)
     /\ button' = after
  /\ active' = seen.p /\ mode' = "sleep" /\ at' = 1 /\ seen' = Nothing
  /\ UNCHANGED <<down, tapped, since, config, disk, window, running, flight>>

XInputThread == PollStarts \/ SetFlag \/ SendKey \/ ReleaseEnds \/ ApplyEnds

------------------------------------------------------------------------------
(* settings_thread. *)

\* The inputs that have a key down, or are about to send one.
Owing == down \cup ({flight} \ {"none"})

\* get_bind, one call per input, whatever the other thread is doing; an exception
\* before it (LoadNumbers) leaves the thread and ends the process.
ReloadBind ==
  /\ running /\ loading > 1
  /\ LET i == Order[loading - 1]
         key == IF file = Missing THEN DefaultBind[i] ELSE file.bind[i]
     IN IF i \in Triggers THEN UNCHANGED <<bind, strayed>>
        ELSE /\ bind' = [bind EXCEPT ![i] = key]
             /\ strayed' = IF i \in Owing /\ key # bind[i] THEN strayed \cup {bind[i]} ELSE strayed
  /\ loading' = IF loading = Len(Order) + 1 THEN 0 ELSE loading + 1
  /\ UNCHANGED <<probe, mixed, disk, window, running, thread>>

CheckFile == (CheckSettings \/ WriteDefaultIni \/ LoadNumbers) /\ UNCHANGED thread

SettingsThread == CheckFile \/ ReloadBind

User == (Edit \/ SwitchWindow) /\ UNCHANGED thread

Next5 == XInputThread \/ SettingsThread \/ User

Spec5 == Init5 /\ [][Next5]_vars5

\* Both threads run; a poll that begins again and again in the background finds
\* the window there.
Fairness5 ==
  /\ WF_vars5(XInputThread)
  /\ WF_vars5(CheckFile) /\ WF_vars5(ReloadBind)

FairSpec5 == Spec5 /\ Fairness5

------------------------------------------------------------------------------
(* Properties. *)

\* With a load between any two keys, and between a flag and its key: what is held
\* down belongs to an input that is held or is just being sent, to the hold of B,
\* or was taken away from such an input by a bind that changed.
NothingElseIsDown ==
  keyboard \subseteq {KeyOf(i) : i \in Owing} \cup strayed \cup {k \in {Ctrl} : button.hold}

\* When the window stays in the background, the poll that is under way and the
\* loads that overlap it come to an end with every flag cleared, and no key but a
\* strayed one is left down.
BothThreadsSettle ==
  <>[]~window => <>[](running => /\ mode = "sleep" /\ down = {} /\ ~button.down
                                 /\ loading = 0 /\ (file # Missing => bind = file.bind)
                                 /\ keyboard \subseteq strayed)

==============================================================================
