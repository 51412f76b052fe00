------------------------------- MODULE Logger -------------------------------
(* logger::print.  A line goes to ZeroProxy.log beside the client's library,  *)
(* to the file of that name in the temporary folder when the first cannot be  *)
(* opened, and to neither when there is no such folder or the second cannot   *)
(* be opened either.  fopen_s opens a file to be written for itself alone, so *)
(* that any other thread that logs at the same time, of this game or of       *)
(* another one, finds it shut.  The line is then printed to the console above *)
(* the text that the user has typed so far: under a mutex, the text is read   *)
(* from the screen, written over, and printed again.  The user types          *)
(* meanwhile.                                                                 *)
EXTENDS Naturals, Sequences, FiniteSets

CONSTANTS
    Instances,    \* running games
    Threads,      \* the threads that log
    InstanceOf,   \* the instance of a thread
    Home,         \* the file beside the library of an instance
    Temp,         \* the file in the temporary folder, one for all
    MaxLines,     \* lines of one thread
    Typists,      \* the instances at whose console a user types
    MaxKeys,      \* keys pressed for one line of input
    Nobody

ASSUME NobodyIsNoThread == Nobody \notin Threads
ASSUME InstanceOfThread == InstanceOf \in [Threads -> Instances]
ASSUME TypistsSitAtInstances == Typists \subseteq Instances
ASSUME TempIsApart == \A i \in Instances : Home[i] # Temp

Files == {Home[i] : i \in Instances} \cup {Temp}
Same(t) == {u \in Threads : InstanceOf[u] = InstanceOf[t]}

VARIABLES
    shut,      \* the files that cannot be opened whoever tries (a folder of the store)
    module,    \* the instances whose client has set client_module
    bare,      \* those of them whose module has a path without a folder
    noTemp,    \* the instances for which GetTempPathA fails
    dead,      \* the instances that have ended
    pc,        \* where a thread is in print
    line,      \* the number of the line a thread is at
    holder,    \* the thread that has a file open
    file,      \* the lines of a file
    lost,      \* the lines of no file, and whether others were writing to the two
    refused,   \* another thread wrote to the first file when a thread opened it
    mutex,     \* the thread that writes to a console
    row,       \* what is on the row of the cursor
    column,    \* the column of the cursor
    seen,      \* current_input of a thread
    typed,     \* what the user has typed since the last line of input
    disturbed  \* a key was pressed in the middle of a write

surroundings == <<shut, module, bare, noTemp>>
fileVars == <<surroundings, holder, file, lost, refused>>
consoleVars == <<mutex, row, column, seen, typed, disturbed>>
logVars == <<dead, pc, line, fileVars, consoleVars>>

LogInit ==
    /\ shut \in SUBSET Files
    /\ module \in SUBSET Instances /\ bare \in SUBSET module /\ noTemp \in SUBSET Instances
    /\ \A i, j \in Instances :
          Home[i] = Home[j] => (i \in module <=> j \in module) /\ (i \in bare <=> j \in bare)
    /\ dead = {}
    /\ pc = [t \in Threads |-> "idle"]
    /\ line = [t \in Threads |-> 0]
    /\ holder = [f \in Files |-> Nobody]
    /\ file = [f \in Files |-> <<>>]
    /\ lost = {}
    /\ refused = [t \in Threads |-> FALSE]
    /\ mutex = [i \in Instances |-> Nobody]
    /\ row = [i \in Instances |-> <<>>]
    /\ column = [i \in Instances |-> 0]
    /\ seen = [t \in Threads |-> <<>>]
    /\ typed = [i \in Instances |-> <<>>]
    /\ disturbed = [i \in Instances |-> FALSE]

Goto(t, from, to) == pc[t] = from /\ pc' = [pc EXCEPT ![t] = to]

-----------------------------------------------------------------------------
(* The files. *)

(* The instances that try to write to a file. *)
Filing == module \ bare

Begin(t) ==
    /\ line[t] < MaxLines
    /\ Goto(t, "idle", IF InstanceOf[t] \in Filing THEN "open" ELSE "console")
    /\ line' = [line EXCEPT ![t] = @ + 1]
    /\ UNCHANGED <<dead, fileVars, consoleVars>>

CanOpen(f) == holder[f] = Nobody /\ f \notin shut

(* Another thread is between opening and closing the file. *)
BusyFor(f, t) == holder[f] \notin {t, Nobody} /\ pc[holder[f]] \in {"close", "closeTemp"}

(* fopen_s beside the library. *)
Open(t) ==
    LET f == Home[InstanceOf[t]]
    IN  /\ Goto(t, "open", IF CanOpen(f) THEN "close" ELSE "fallback")
        /\ holder' = IF CanOpen(f) THEN [holder EXCEPT ![f] = t] ELSE holder
        /\ refused' = [refused EXCEPT ![t] = BusyFor(f, t)]
        /\ UNCHANGED <<dead, line, surroundings, file, lost, consoleVars>>

(* GetTempPathA, and fopen_s in the temporary folder. *)
TempOpens(t) == InstanceOf[t] \notin noTemp /\ CanOpen(Temp)

OpenTemp(t) ==
    /\ Goto(t, "fallback", IF TempOpens(t) THEN "closeTemp" ELSE "console")
    /\ holder' = IF TempOpens(t) THEN [holder EXCEPT ![Temp] = t] ELSE holder
    /\ lost' = IF TempOpens(t) THEN lost
               ELSE lost \cup {[by |-> t, n |-> line[t], home |-> refused[t], temp |-> BusyFor(Temp, t)]}
    /\ UNCHANGED <<dead, line, surroundings, file, refused, consoleVars>>

(* Mutant of CloseFile: the file of the fallback is not closed. *)
CloseFileBesideOnly(t, f) ==
    /\ file' = [file EXCEPT ![f] = Append(@, <<t, line[t]>>)]
    /\ holder' = IF f = Temp THEN holder ELSE [holder EXCEPT ![f] = Nobody]
    /\ UNCHANGED <<dead, line, surroundings, lost, refused, consoleVars>>

(* fputs, whose line reaches the file with fclose. *)
CloseFile(t, f) ==
    /\ file' = [file EXCEPT ![f] = Append(@, <<t, line[t]>>)]
    /\ holder' = [holder EXCEPT ![f] = Nobody]
    /\ UNCHANGED <<dead, line, surroundings, lost, refused, consoleVars>>

FputsAndClose(t) ==
    \/ Goto(t, "close", "console") /\ CloseFile(t, Home[InstanceOf[t]])
    \/ Goto(t, "closeTemp", "console") /\ CloseFile(t, Temp)

-----------------------------------------------------------------------------
(* The console. *)

(* get_cursor_pos, get_text_at_pos and set_cursor_pos: what stands in front   *)
(* of the cursor is remembered.                                               *)
TakeRow(t) ==
    LET i == InstanceOf[t]
    IN  /\ Goto(t, "console", "print")
        /\ seen' = [seen EXCEPT ![t] = SubSeq(row[i], 1, column[i])]
        /\ column' = [column EXCEPT ![i] = 0]
        /\ UNCHANGED <<dead, line, fileVars, row, typed, disturbed>>

(* Mutant of Look: the lock_guard is missing. *)
LookWithoutLock(t) == TakeRow(t) /\ UNCHANGED mutex

Look(t) ==
    /\ mutex[InstanceOf[t]] = Nobody
    /\ mutex' = [mutex EXCEPT ![InstanceOf[t]] = t]
    /\ TakeRow(t)

(* The line covers the row and ends it. *)
PrintLine(t) ==
    LET i == InstanceOf[t]
    IN  /\ Goto(t, "print", "again")
        /\ row' = [row EXCEPT ![i] = <<>>]
        /\ column' = [column EXCEPT ![i] = 0]
        /\ UNCHANGED <<dead, line, fileVars, mutex, seen, typed, disturbed>>

PrintInput(t) ==
    LET i == InstanceOf[t]
    IN  /\ Goto(t, "again", "idle")
        /\ row' = [row EXCEPT ![i] = SubSeq(@, 1, column[i]) \o seen[t]]
        /\ column' = [column EXCEPT ![i] = @ + Len(seen[t])]
        /\ seen' = [seen EXCEPT ![t] = <<>>]
        /\ mutex' = [mutex EXCEPT ![i] = Nobody]
        /\ UNCHANGED <<dead, line, fileVars, typed, disturbed>>

(* A thread is between the first and the last call of console::write. *)
Writing(i) == \E t \in Threads : InstanceOf[t] = i /\ pc[t] \in {"print", "again"}

(* The console echoes a key at the cursor. *)
Type(i) ==
    /\ Len(typed[i]) < MaxKeys
    /\ typed' = [typed EXCEPT ![i] = Append(@, Len(@) + 1)]
    /\ row' = [row EXCEPT ![i] =
                 SubSeq(@, 1, column[i]) \o <<Len(typed[i]) + 1>> \o SubSeq(@, column[i] + 2, Len(@))]
    /\ column' = [column EXCEPT ![i] = @ + 1]
    /\ disturbed' = [disturbed EXCEPT ![i] = @ \/ Writing(i)]
    /\ UNCHANGED <<dead, pc, line, fileVars, mutex, seen>>

(* The line of input is complete: getline of the input thread has it. *)
Enter(i) ==
    /\ typed[i] # <<>>
    /\ typed' = [typed EXCEPT ![i] = <<>>]
    /\ row' = [row EXCEPT ![i] = <<>>]
    /\ column' = [column EXCEPT ![i] = 0]
    /\ disturbed' = [disturbed EXCEPT ![i] = Writing(i)]
    /\ UNCHANGED <<dead, pc, line, fileVars, mutex, seen>>

(* The game ends in the middle of anything; Windows closes its files. *)
Die(i) ==
    /\ dead' = dead \cup {i}
    /\ holder' = [f \in Files |->
                    IF holder[f] # Nobody /\ InstanceOf[holder[f]] = i THEN Nobody ELSE holder[f]]
    /\ UNCHANGED <<pc, line, surroundings, file, lost, refused, consoleVars>>

ThreadStep(t) ==
    \/ Begin(t) \/ Open(t) \/ OpenTemp(t) \/ FputsAndClose(t)
    \/ Look(t) \/ PrintLine(t) \/ PrintInput(t)

LogNext ==
    \/ \E t \in Threads : InstanceOf[t] \notin dead /\ ThreadStep(t)
    \/ \E i \in Typists \ dead : Type(i) \/ Enter(i)
    \/ \E i \in Instances \ dead : Die(i)

LogSpec == LogInit /\ [][LogNext]_logVars

-----------------------------------------------------------------------------

(* The lines that a thread has brought to an end, as far as the files go. *)
Done(t) == {n \in 1 .. line[t] : n < line[t] \/ pc[t] \notin {"open", "fallback", "close", "closeTemp"}}
InFile(f, t, n) == {k \in DOMAIN file[f] : file[f][k] = <<t, n>>}
Homes(t, n) == UNION {{<<f, k>> : k \in InFile(f, t, n)} : f \in Files}

(* A line of a client whose module lies in a folder ends up in one of the two *)
(* files, once.  It is lost only if neither could be opened, each for a       *)
(* reason from outside of this thread: the one beside the library because     *)
(* another thread was writing to it or because nobody can open it, and the    *)
(* one in the temporary folder because another thread was writing to it,      *)
(* nobody can open it, or the system names no such folder.  No line is lost   *)
(* to a thread that is not logging.                                           *)
LossHasReasons ==
    \A t \in Threads : InstanceOf[t] \in Filing =>
        \A n \in Done(t) :
            \/ Cardinality(Homes(t, n)) = 1
            \/ /\ Homes(t, n) = {}
               /\ \E l \in lost :
                     /\ l.by = t /\ l.n = n
                     /\ l.home \/ Home[InstanceOf[t]] \in shut
                     /\ l.temp \/ Temp \in shut \/ InstanceOf[t] \in noTemp

(* After a write the row of the cursor shows what the user has typed, unless  *)
(* a key was pressed while the write was going on.                            *)
RowIsTheInput ==
    \A i \in Instances : (~Writing(i) /\ ~disturbed[i]) => row[i] = typed[i]
=============================================================================
