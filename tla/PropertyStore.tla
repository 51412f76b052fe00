---------------------------- MODULE PropertyStore ----------------------------
(***************************************************************************)
(* utils::properties (common/utils/properties.cpp) under the named mutex   *)
(* (common/utils/named_mutex.cpp), and its only user, the player name of   *)
(* t6 (client-t6/component/name.cpp): every instance of the game loads the *)
(* name when it starts and, if there is none, makes one up and stores it.  *)
(* A process may die between any two steps; the system then gives up its   *)
(* mutex, and the file stays as far as it was written.                     *)
(***************************************************************************)
EXTENDS Naturals

CONSTANTS
  Procs,       (* instances of the game                                    *)
  OtherKeys,   (* properties an earlier version has left in the file       *)
  Names,       (* what the Steam persona or the user name may be           *)
  Junk,        (* a JSON value that is no string                           *)
  None,        (* no such member; no owner of the mutex                    *)
  Absent,      (* there is no such file                                    *)
  Torn,        (* a file rapidjson cannot parse: empty or cut off          *)
  OldDocs,     (* the documents earlier runs may have left in the files    *)
  MaxDeaths    (* bound on deaths                                          *)

Key == "playerName"
Keys == {Key} \cup OtherKeys
Values == Names \cup {Junk}
Docs == [Keys -> Values \cup {None}]
Empty == [k \in Keys |-> None]

ASSUME StoreAssumption ==
  /\ None \notin Values \cup Procs /\ Junk \notin Names
  /\ Torn \notin Docs /\ Absent \notin Docs /\ Torn # Absent
  /\ Key \notin OtherKeys
  /\ OldDocs \subseteq Docs
  /\ MaxDeaths \in Nat

VARIABLES
  file,        (* {client}_players/properties.json: Absent, Torn or a document *)
  legacy,      (* AppData/{client}/user/properties.json of earlier versions *)
  folder,      (* the folder of the file exists; no code here creates it   *)
  players,     (* the game's own folder "players" exists                   *)
  migrated,    (* the folder t6m_players: "absent", "begun" or "copied"    *)
  mutex,       (* the process that owns the named mutex, or None           *)
  pc,          (* process -> its next step                                 *)
  doc,         (* process -> the document its store has loaded             *)
  name,        (* process -> player_name                                   *)
  found,       (* process -> stored_name, what load has answered           *)
  deaths,      (* bounded: how many processes have died                    *)
  excuse       (* history: two set-ups overlapped, or a write was cut off  *)

disk == <<file, legacy, folder, players, migrated>>
vars == <<disk, mutex, pc, doc, name, found, deaths, excuse>>

InLoad == {"open", "create", "copy", "migrate", "import", "read", "loaded"}
InStore == {"load", "truncate", "write", "stored"}
Steps == {"off", "lock", "choose", "relock", "runs"} \cup InLoad \cup InStore

TypeOK ==
  /\ file \in Docs \cup {Absent, Torn} /\ legacy \in Docs \cup {Absent}
  /\ folder \in BOOLEAN /\ players \in BOOLEAN
  /\ migrated \in {"absent", "begun", "copied"}
  /\ mutex \in Procs \cup {None}
  /\ pc \in [Procs -> Steps]
  /\ doc \in [Procs -> Docs]
  /\ name \in [Procs -> Names \cup {None}]
  /\ found \in [Procs -> Names \cup {None}]
  /\ deaths \in 0..MaxDeaths /\ excuse \in BOOLEAN

\* load_properties: whatever cannot be read is an empty document.
Parse(f) == IF f \in {Absent, Torn} THEN Empty ELSE f

\* load: a member that is no string counts as none.
Lookup(f) == IF Parse(f)[Key] \in Names THEN Parse(f)[Key] ELSE None

\* No file of the client without its folder.
Init ==
  /\ folder \in BOOLEAN /\ players \in BOOLEAN
  /\ file \in IF folder THEN OldDocs \cup {Absent, Torn} ELSE {Absent}
  /\ legacy \in OldDocs \cup {Absent}
  /\ migrated \in {"absent", "copied"}
  /\ mutex = None
  /\ pc = [p \in Procs |-> "off"]
  /\ doc = [p \in Procs |-> Empty]
  /\ name = [p \in Procs |-> None] /\ found = [p \in Procs |-> None]
  /\ deaths = 0 /\ excuse = FALSE

------------------------------------------------------------------------------
(* The calls. *)

Goto(p, from, to) == pc[p] = from /\ pc' = [pc EXCEPT ![p] = to]

\* post_load calls load_player_name, which calls load.
Start(p) ==
  /\ Goto(p, "off", "lock")
  /\ UNCHANGED <<disk, mutex, doc, name, found, deaths, excuse>>

\* Mutant of Lock: a mutex of the process instead of one of the user.
LockOwn(p) ==
  /\ mutex' = p
  /\ Goto(p, "lock", "open") \/ Goto(p, "relock", "load")
  /\ UNCHANGED <<disk, doc, name, found, deaths, excuse>>

\* lock: the result of the wait is not looked at, so that an abandoned mutex
\* is taken like a free one.
Lock(p) ==
  /\ mutex = None /\ mutex' = p
  /\ Goto(p, "lock", "open") \/ Goto(p, "relock", "load")
  /\ UNCHANGED <<disk, doc, name, found, deaths, excuse>>

\* get_properties_file, once per process: migrate_if_needed creates the new
\* folder before it copies the old one into it.
Migrate(p) ==
  /\ \/ /\ players /\ migrated = "absent"
        /\ Goto(p, "open", "migrate")
        /\ migrated' = "begun"
     \/ /\ ~players \/ migrated # "absent"
        /\ Goto(p, "open", "import")
        /\ UNCHANGED migrated
     \/ /\ Goto(p, "migrate", "import")
        /\ migrated' = "copied"
  /\ UNCHANGED <<file, legacy, folder, players, mutex, doc, name, found, deaths, excuse>>

\* The legacy file is copied unless there is a new one, in two steps: a copy
\* that is cut off leaves a new file all the same. Errors are ignored.
Import(p) ==
  /\ \/ /\ legacy # Absent /\ file = Absent /\ folder
        /\ Goto(p, "import", "copy")
        /\ file' = Torn
     \/ /\ legacy = Absent \/ file # Absent \/ ~folder
        /\ Goto(p, "import", "read")
        /\ UNCHANGED file
     \/ /\ Goto(p, "copy", "read")
        /\ file' = legacy
  /\ UNCHANGED <<legacy, folder, players, migrated, mutex, doc, name, found, deaths, excuse>>

Read(p) ==
  /\ Goto(p, "read", "loaded")
  /\ found' = [found EXCEPT ![p] = Lookup(file)]
  /\ UNCHANGED <<disk, mutex, doc, name, deaths, excuse>>

\* The end of load gives the mutex back before the answer is looked at.
Loaded(p) ==
  /\ mutex' = None
  /\ \/ /\ found[p] # None
        /\ Goto(p, "loaded", "runs")
        /\ name' = [name EXCEPT ![p] = found[p]]
     \/ /\ found[p] = None
        /\ Goto(p, "loaded", "choose")
        /\ UNCHANGED name
  /\ UNCHANGED <<disk, doc, found, deaths, excuse>>

\* setup_player_name: the Steam persona, the user name or "Unknown Soldier";
\* the name is active before it is stored.
Choose(p) ==
  /\ Goto(p, "choose", "relock")
  /\ \E n \in Names : name' = [name EXCEPT ![p] = n]
  /\ UNCHANGED <<disk, mutex, doc, found, deaths, excuse>>

\* Mutant of LoadForStore: a store that writes its own member alone.
LoadForStoreAlone(p) ==
  /\ Goto(p, "load", "truncate")
  /\ doc' = [doc EXCEPT ![p] = Empty]
  /\ UNCHANGED <<disk, mutex, name, found, deaths, excuse>>

LoadForStore(p) ==
  /\ Goto(p, "load", "truncate")
  /\ doc' = [doc EXCEPT ![p] = Parse(file)]
  /\ UNCHANGED <<disk, mutex, name, found, deaths, excuse>>

\* "wb" empties the file; without its folder there is nothing to open, and
\* store_properties returns as if it had stored.
Truncate(p) ==
  /\ \/ folder /\ Goto(p, "truncate", "write") /\ file' = Torn
     \/ ~folder /\ Goto(p, "truncate", "stored") /\ UNCHANGED file
  /\ UNCHANGED <<legacy, folder, players, migrated, mutex, doc, name, found, deaths, excuse>>

\* Somebody else has found no name either and has yet to store the own one.
Undecided(q) == pc[q] \in {"choose", "relock"} \/ (pc[q] = "loaded" /\ found[q] = None)

Write(p) ==
  /\ Goto(p, "write", "stored")
  /\ file' = [doc[p] EXCEPT ![Key] = name[p]]
  /\ excuse' = (excuse \/ \E q \in Procs \ {p} : Undecided(q))
  /\ UNCHANGED <<legacy, folder, players, migrated, mutex, doc, name, found, deaths>>

Stored(p) ==
  /\ Goto(p, "stored", "runs")
  /\ mutex' = None
  /\ UNCHANGED <<disk, doc, name, found, deaths, excuse>>

\* Mutant of Die: a lock that nobody takes from the dead.
DieHolding(p) ==
  /\ pc[p] # "off" /\ deaths < MaxDeaths
  /\ pc' = [pc EXCEPT ![p] = "off"]
  /\ UNCHANGED <<mutex, disk>>
  /\ doc' = [doc EXCEPT ![p] = Empty]
  /\ name' = [name EXCEPT ![p] = None] /\ found' = [found EXCEPT ![p] = None]
  /\ deaths' = deaths + 1
  /\ excuse' = (excuse \/ pc[p] \in {"write", "copy"})

\* The end of the process, wanted or not, between any two steps.
Die(p) ==
  /\ pc[p] # "off" /\ deaths < MaxDeaths
  /\ pc' = [pc EXCEPT ![p] = "off"]
  /\ mutex' = IF mutex = p THEN None ELSE mutex
  /\ doc' = [doc EXCEPT ![p] = Empty]
  /\ name' = [name EXCEPT ![p] = None] /\ found' = [found EXCEPT ![p] = None]
  /\ deaths' = deaths + 1
  /\ excuse' = (excuse \/ pc[p] \in {"write", "copy"})
  /\ UNCHANGED disk

Step(p) ==
  \/ Lock(p) \/ Migrate(p) \/ Import(p) \/ Read(p) \/ Loaded(p) \/ Choose(p)
  \/ LoadForStore(p) \/ Truncate(p) \/ Write(p) \/ Stored(p)

Next == \E p \in Procs : Start(p) \/ Step(p) \/ Die(p)

Spec == Init /\ [][Next]_vars

\* Every thread is scheduled, and one that waits for the mutex gets it once
\* nobody else takes it any more; deaths, and with them restarts, are bounded.
FairSpec == Spec /\ \A p \in Procs : WF_vars(Step(p))

------------------------------------------------------------------------------
(* Properties. *)

\* What the next load will find: the file, or the legacy file until the first
\* process has imported it, or what a writer is about to replace.
Contents ==
  IF file = Absent /\ legacy # Absent /\ folder THEN legacy
  ELSE IF file = Torn /\ mutex # None /\ pc[mutex] = "copy" THEN legacy
  ELSE IF file = Torn /\ mutex # None /\ pc[mutex] = "write" THEN doc[mutex]
  ELSE Parse(file)

CallOf(p) ==
  IF pc[p] = "lock" \/ pc[p] \in InLoad THEN "load"
  ELSE IF pc[p] = "relock" \/ pc[p] \in InStore THEN "store" ELSE "out"

Map == INSTANCE PropertyMap WITH
  Texts <- Names, map <- Contents,
  call <- [p \in Procs |-> CallOf(p)], result <- found

\* The file behind the named mutex is one map to all processes: a load answers
\* what the last store left, a store changes its own property and no other,
\* the properties of an earlier version are there from the start, and they are
\* lost only with a process that dies inside a call (properties.cpp:124-158).
ActsAsAMap == Map!Spec

\* Two instances that run show the same name, the stored one, unless they set
\* up their names at the same time, a write was cut off, or the folder is
\* missing: load_player_name looks and stores in two critical sections, and
\* store_properties says nothing when it cannot open the file (name.cpp:48).
NameIsTheStoredOne ==
  ~excuse /\ folder => \A p \in Procs : pc[p] = "runs" => name[p] = Lookup(file)

\* A start comes to an end whatever becomes of the other instances: nobody
\* waits for a mutex whose owner is dead (named_mutex.cpp:15).
EveryStartReturns == \A p \in Procs : pc[p] = "lock" ~> pc[p] \in {"runs", "off"}

\* migrate_if_needed says of a folder that exists: "Already migrated".
AlreadyMigrated ==
  migrated = "begun" => \E p \in Procs : pc[p] = "migrate"
==============================================================================
