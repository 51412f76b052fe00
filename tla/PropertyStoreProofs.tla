------------------------- MODULE PropertyStoreProofs -------------------------
(***************************************************************************)
(* Theorems about PropertyStore, for any instances of the game, names,     *)
(* properties and files of earlier versions, and any number of deaths.     *)
(***************************************************************************)
EXTENDS PropertyStore, TLAPS

------------------------------------------------------------------------------
(* The inductive invariant. *)

Held == InLoad \cup InStore

(* Whoever is inside a call owns the mutex, and nobody else is inside one. *)
Mutual == \A p \in Procs : pc[p] \in Held <=> mutex = p

(* The steps at which the legacy file has not been looked at yet.          *)
Early == {"off", "lock", "open", "migrate", "import"}

(* What a process knows of the disk at each of its steps.                  *)
Knows(p) ==
  /\ pc[p] \in {"relock", "runs"} \cup InStore => name[p] \in Names
  /\ pc[p] = "copy" => file = Torn /\ legacy # Absent
  /\ pc[p] = "truncate" => doc[p] = Parse(file)
  /\ pc[p] = "write" => file = Torn
  /\ pc[p] \notin Early => (file = Absent /\ folder => legacy = Absent)

(* While the legacy file is copied nobody has got beyond waiting.          *)
CopiesAlone ==
  \A p, q \in Procs : pc[p] = "copy" /\ q # p => pc[q] \in {"off", "lock"}

Shape == TypeOK /\ Mutual /\ (\A p \in Procs : Knows(p)) /\ CopiesAlone

(* From looking for a name without finding one to storing one's own.       *)
Nameless(p) ==
  pc[p] \in {"choose", "relock", "load", "truncate", "write"} \/ (pc[p] = "loaded" /\ found[p] = None)

(* Unless an excuse has come up, those who are nameless are right about    *)
(* the file, and so are those who have a name.                             *)
Agrees(p) ==
  /\ Nameless(p) => Lookup(file) = None
  /\ pc[p] \in {"stored", "runs"} => name[p] = Lookup(file)
  /\ pc[p] = "loaded" => found[p] = Lookup(file)

Agreement == ~excuse /\ folder => \A p \in Procs : Agrees(p)

IInv == Shape /\ Agreement

------------------------------------------------------------------------------
(* Types of what the steps compute.                                        *)

LEMMA KeyIsAKey == Key \in Keys
BY DEF Keys

LEMMA ParseGivesADocument ==
  ASSUME NEW f \in Docs \cup {Absent, Torn}
  PROVE  /\ Parse(f) \in Docs
         /\ Lookup(f) \in Names \cup {None}
         /\ f \in Docs => Parse(f) = f
<1>1. Empty \in Docs
  BY DEF Empty, Docs
<1>2. Parse(f) \in Docs
  BY <1>1 DEF Parse
<1>3. f \in Docs => Parse(f) = f
  BY StoreAssumption DEF Parse
<1>4. Lookup(f) \in Names \cup {None}
  BY DEF Lookup
<1> QED BY <1>2, <1>3, <1>4

(* A file that is not there, or cannot be parsed, holds no name.           *)
LEMMA NoNameWithoutAFile == Lookup(Absent) = None /\ Lookup(Torn) = None
<1>1. Empty[Key] = None
  BY KeyIsAKey DEF Empty
<1> QED BY <1>1, StoreAssumption DEF Lookup, Parse, Values

------------------------------------------------------------------------------
(* The steps of one process, each against Shape. *)

LEMMA StartShape ==
  ASSUME NEW p \in Procs, Shape, Start(p)
  PROVE  Shape'
<1> USE StoreAssumption DEF Shape, Start, Goto, disk
<1>1. TypeOK'
  BY ParseGivesADocument, KeyIsAKey DEF TypeOK, Steps, InLoad, InStore, Docs, Values, Empty
<1>2. Mutual'
  BY DEF Mutual, TypeOK, Held, InLoad, InStore
<1>3. ASSUME NEW q \in Procs PROVE Knows(q)'
  <2>1. CASE q = p
    BY <2>1 DEF Knows, TypeOK, Mutual, Held, InLoad, InStore, Early
  <2>2. CASE q # p
    BY <2>2 DEF Knows, TypeOK, Mutual, Held, InLoad, InStore, Early
  <2> QED BY <2>1, <2>2
<1>4. CopiesAlone'
  BY DEF CopiesAlone, Knows, TypeOK, Mutual, Held, InLoad, InStore, Early
<1> QED BY <1>1, <1>2, <1>3, <1>4

LEMMA LockShape ==
  ASSUME NEW p \in Procs, Shape, Lock(p)
  PROVE  Shape'
<1> USE StoreAssumption DEF Shape, Lock, Goto, disk
<1>1. TypeOK'
  BY ParseGivesADocument, KeyIsAKey DEF TypeOK, Steps, InLoad, InStore, Docs, Values, Empty
<1>2. Mutual'
  BY DEF Mutual, TypeOK, Held, InLoad, InStore
<1>3. ASSUME NEW q \in Procs PROVE Knows(q)'
  <2>1. CASE q = p
    BY <2>1 DEF Knows, TypeOK, Mutual, Held, InLoad, InStore, Early
  <2>2. CASE q # p
    BY <2>2 DEF Knows, TypeOK, Mutual, Held, InLoad, InStore, Early
  <2> QED BY <2>1, <2>2
<1>4. CopiesAlone'
  BY DEF CopiesAlone, Knows, TypeOK, Mutual, Held, InLoad, InStore, Early
<1> QED BY <1>1, <1>2, <1>3, <1>4

LEMMA MigrateShape ==
  ASSUME NEW p \in Procs, Shape, Migrate(p)
  PROVE  Shape'
<1> USE StoreAssumption DEF Shape, Migrate, Goto, disk
<1>1. TypeOK'
  BY ParseGivesADocument, KeyIsAKey DEF TypeOK, Steps, InLoad, InStore, Docs, Values, Empty
<1>2. Mutual'
  BY DEF Mutual, TypeOK, Held, InLoad, InStore
<1>3. ASSUME NEW q \in Procs PROVE Knows(q)'
  <2>1. CASE q = p
    BY <2>1 DEF Knows, TypeOK, Mutual, Held, InLoad, InStore, Early
  <2>2. CASE q # p
    BY <2>2 DEF Knows, TypeOK, Mutual, Held, InLoad, InStore, Early
  <2> QED BY <2>1, <2>2
<1>4. CopiesAlone'
  BY DEF CopiesAlone, Knows, TypeOK, Mutual, Held, InLoad, InStore, Early
<1> QED BY <1>1, <1>2, <1>3, <1>4

LEMMA ImportShape ==
  ASSUME NEW p \in Procs, Shape, Import(p)
  PROVE  Shape'
<1> USE StoreAssumption DEF Shape, Import, Goto, disk
<1>1. TypeOK'
  BY ParseGivesADocument, KeyIsAKey DEF TypeOK, Steps, InLoad, InStore, Docs, Values, Empty
<1>2. Mutual'
  BY DEF Mutual, TypeOK, Held, InLoad, InStore
<1>3. ASSUME NEW q \in Procs PROVE Knows(q)'
  <2>1. CASE q = p
    BY <2>1 DEF Knows, TypeOK, Mutual, Held, InLoad, InStore, Early
  <2>2. CASE q # p
    BY <2>2 DEF Knows, TypeOK, Mutual, Held, InLoad, InStore, Early
  <2> QED BY <2>1, <2>2
<1>4. CopiesAlone'
  BY DEF CopiesAlone, Knows, TypeOK, Mutual, Held, InLoad, InStore, Early
<1> QED BY <1>1, <1>2, <1>3, <1>4

LEMMA ReadShape ==
  ASSUME NEW p \in Procs, Shape, Read(p)
  PROVE  Shape'
<1> USE StoreAssumption DEF Shape, Read, Goto, disk
<1>1. TypeOK'
  BY ParseGivesADocument, KeyIsAKey DEF TypeOK, Steps, InLoad, InStore, Docs, Values, Empty
<1>2. Mutual'
  BY DEF Mutual, TypeOK, Held, InLoad, InStore
<1>3. ASSUME NEW q \in Procs PROVE Knows(q)'
  <2>1. CASE q = p
    BY <2>1 DEF Knows, TypeOK, Mutual, Held, InLoad, InStore, Early
  <2>2. CASE q # p
    BY <2>2 DEF Knows, TypeOK, Mutual, Held, InLoad, InStore, Early
  <2> QED BY <2>1, <2>2
<1>4. CopiesAlone'
  BY DEF CopiesAlone, Knows, TypeOK, Mutual, Held, InLoad, InStore, Early
<1> QED BY <1>1, <1>2, <1>3, <1>4

LEMMA LoadedShape ==
  ASSUME NEW p \in Procs, Shape, Loaded(p)
  PROVE  Shape'
<1> USE StoreAssumption DEF Shape, Loaded, Goto, disk
<1>1. TypeOK'
  <2>1. CASE found[p] # None
    BY <2>1 DEF TypeOK, Steps, InLoad
  <2>2. CASE found[p] = None
    BY <2>2 DEF TypeOK, Steps, InLoad
  <2> QED BY <2>1, <2>2
<1>2. Mutual'
  BY DEF Mutual, TypeOK, Held, InLoad, InStore
<1>3. ASSUME NEW q \in Procs PROVE Knows(q)'
  <2>1. CASE q = p
    BY <2>1 DEF Knows, TypeOK, Mutual, Held, InLoad, InStore, Early
  <2>2. CASE q # p
    BY <2>2 DEF Knows, TypeOK, Mutual, Held, InLoad, InStore, Early
  <2> QED BY <2>1, <2>2
<1>4. CopiesAlone'
  BY DEF CopiesAlone, Knows, TypeOK, Mutual, Held, InLoad, InStore, Early
<1> QED BY <1>1, <1>2, <1>3, <1>4

LEMMA ChooseShape ==
  ASSUME NEW p \in Procs, Shape, Choose(p)
  PROVE  Shape'
<1> USE StoreAssumption DEF Shape, Choose, Goto, disk
<1>1. TypeOK'
  BY ParseGivesADocument, KeyIsAKey DEF TypeOK, Steps, InLoad, InStore, Docs, Values, Empty
<1>2. Mutual'
  BY DEF Mutual, TypeOK, Held, InLoad, InStore
<1>3. ASSUME NEW q \in Procs PROVE Knows(q)'
  <2>1. CASE q = p
    BY <2>1 DEF Knows, TypeOK, Mutual, Held, InLoad, InStore, Early
  <2>2. CASE q # p
    BY <2>2 DEF Knows, TypeOK, Mutual, Held, InLoad, InStore, Early
  <2> QED BY <2>1, <2>2
<1>4. CopiesAlone'
  BY DEF CopiesAlone, Knows, TypeOK, Mutual, Held, InLoad, InStore, Early
<1> QED BY <1>1, <1>2, <1>3, <1>4

LEMMA LoadForStoreShape ==
  ASSUME NEW p \in Procs, Shape, LoadForStore(p)
  PROVE  Shape'
<1> USE StoreAssumption DEF Shape, LoadForStore, Goto, disk
<1>1. TypeOK'
  BY ParseGivesADocument, KeyIsAKey DEF TypeOK, Steps, InLoad, InStore, Docs, Values, Empty
<1>2. Mutual'
  BY DEF Mutual, TypeOK, Held, InLoad, InStore
<1>3. ASSUME NEW q \in Procs PROVE Knows(q)'
  <2>1. CASE q = p
    BY <2>1 DEF Knows, TypeOK, Mutual, Held, InLoad, InStore, Early
  <2>2. CASE q # p
    BY <2>2 DEF Knows, TypeOK, Mutual, Held, InLoad, InStore, Early
  <2> QED BY <2>1, <2>2
<1>4. CopiesAlone'
  BY DEF CopiesAlone, Knows, TypeOK, Mutual, Held, InLoad, InStore, Early
<1> QED BY <1>1, <1>2, <1>3, <1>4

LEMMA TruncateShape ==
  ASSUME NEW p \in Procs, Shape, Truncate(p)
  PROVE  Shape'
<1> USE StoreAssumption DEF Shape, Truncate, Goto, disk
<1>1. TypeOK'
  BY ParseGivesADocument, KeyIsAKey DEF TypeOK, Steps, InLoad, InStore, Docs, Values, Empty
<1>2. Mutual'
  BY DEF Mutual, TypeOK, Held, InLoad, InStore
<1>3. ASSUME NEW q \in Procs PROVE Knows(q)'
  <2>1. CASE q = p
    BY <2>1 DEF Knows, TypeOK, Mutual, Held, InLoad, InStore, Early
  <2>2. CASE q # p
    BY <2>2 DEF Knows, TypeOK, Mutual, Held, InLoad, InStore, Early
  <2> QED BY <2>1, <2>2
<1>4. CopiesAlone'
  BY DEF CopiesAlone, Knows, TypeOK, Mutual, Held, InLoad, InStore, Early
<1> QED BY <1>1, <1>2, <1>3, <1>4

LEMMA WriteShape ==
  ASSUME NEW p \in Procs, Shape, Write(p)
  PROVE  Shape'
<1> USE StoreAssumption DEF Shape, Write, Goto, disk
<1>0. file' \in Docs
  <2>1. name[p] \in Values /\ doc[p] \in Docs
    BY DEF TypeOK, Knows, InStore, Values
  <2> QED BY <2>1, KeyIsAKey DEF Docs
<1>1. TypeOK'
  <2>1. excuse' \in BOOLEAN
    BY Zenon DEF TypeOK
  <2>2. pc' \in [Procs -> Steps]
    BY DEF TypeOK, Steps, InStore
  <2> QED BY <1>0, <2>1, <2>2 DEF TypeOK
<1>2. Mutual'
  BY DEF Mutual, TypeOK, Held, InLoad, InStore
<1>3. ASSUME NEW q \in Procs PROVE Knows(q)'
  <2>1. CASE q = p
    BY <1>0, <2>1 DEF Knows, TypeOK, Mutual, Held, InLoad, InStore, Early
  <2>2. CASE q # p
    BY <1>0, <2>2 DEF Knows, TypeOK, Mutual, Held, InLoad, InStore, Early
  <2> QED BY <2>1, <2>2
<1>4. CopiesAlone'
  BY DEF CopiesAlone, Knows, TypeOK, Mutual, Held, InLoad, InStore, Early
<1> QED BY <1>1, <1>2, <1>3, <1>4

LEMMA StoredShape ==
  ASSUME NEW p \in Procs, Shape, Stored(p)
  PROVE  Shape'
<1> USE StoreAssumption DEF Shape, Stored, Goto, disk
<1>1. TypeOK'
  BY ParseGivesADocument, KeyIsAKey DEF TypeOK, Steps, InLoad, InStore, Docs, Values, Empty
<1>2. Mutual'
  BY DEF Mutual, TypeOK, Held, InLoad, InStore
<1>3. ASSUME NEW q \in Procs PROVE Knows(q)'
  <2>1. CASE q = p
    BY <2>1 DEF Knows, TypeOK, Mutual, Held, InLoad, InStore, Early
  <2>2. CASE q # p
    BY <2>2 DEF Knows, TypeOK, Mutual, Held, InLoad, InStore, Early
  <2> QED BY <2>1, <2>2
<1>4. CopiesAlone'
  BY DEF CopiesAlone, Knows, TypeOK, Mutual, Held, InLoad, InStore, Early
<1> QED BY <1>1, <1>2, <1>3, <1>4

LEMMA DieShape ==
  ASSUME NEW p \in Procs, Shape, Die(p)
  PROVE  Shape'
<1> USE StoreAssumption DEF Shape, Die, Goto, disk
<1>1. TypeOK'
  BY ParseGivesADocument, KeyIsAKey DEF TypeOK, Steps, InLoad, InStore, Docs, Values, Empty
<1>2. Mutual'
  BY DEF Mutual, TypeOK, Held, InLoad, InStore
<1>3. ASSUME NEW q \in Procs PROVE Knows(q)'
  <2>1. CASE q = p
    BY <2>1 DEF Knows, TypeOK, Mutual, Held, InLoad, InStore, Early
  <2>2. CASE q # p
    BY <2>2 DEF Knows, TypeOK, Mutual, Held, InLoad, InStore, Early
  <2> QED BY <2>1, <2>2
<1>4. CopiesAlone'
  BY DEF CopiesAlone, Knows, TypeOK, Mutual, Held, InLoad, InStore, Early
<1> QED BY <1>1, <1>2, <1>3, <1>4

LEMMA InitShape == Init => Shape
<1> SUFFICES ASSUME Init PROVE Shape
  OBVIOUS
<1> USE StoreAssumption DEF Init
<1>1. TypeOK
  <2>1. Empty \in Docs
    BY DEF Empty, Docs
  <2>2. file \in Docs \cup {Absent, Torn}
    <3>1. CASE folder
      BY <3>1
    <3>2. CASE ~folder
      BY <3>2
    <3> QED BY <3>1, <3>2
  <2>3. legacy \in Docs \cup {Absent}
    OBVIOUS
  <2>4. name \in [Procs -> Names \cup {None}] /\ found \in [Procs -> Names \cup {None}]
    OBVIOUS
  <2>5. deaths \in 0..MaxDeaths
    OBVIOUS
  <2> QED BY <2>1, <2>2, <2>3, <2>4, <2>5 DEF TypeOK, Steps
<1>2. Mutual
  BY DEF Mutual, Held, InLoad, InStore
<1>3. \A p \in Procs : Knows(p)
  BY DEF Knows, InStore, Early
<1>4. CopiesAlone
  BY DEF CopiesAlone
<1> QED BY <1>1, <1>2, <1>3, <1>4 DEF Shape

LEMMA StutterShape ==
  ASSUME Shape, UNCHANGED vars
  PROVE  Shape'
BY DEF Shape, TypeOK, Mutual, Knows, CopiesAlone, vars, disk, Parse

LEMMA NextShape == Shape /\ [Next]_vars => Shape'
<1> SUFFICES ASSUME Shape, Next PROVE Shape'
  BY StutterShape
<1>1. PICK p \in Procs : Start(p) \/ Step(p) \/ Die(p)
  BY DEF Next
<1>2. CASE Start(p)
  BY <1>2, StartShape
<1>3. CASE Lock(p)
  BY <1>3, LockShape
<1>4. CASE Migrate(p)
  BY <1>4, MigrateShape
<1>5. CASE Import(p)
  BY <1>5, ImportShape
<1>6. CASE Read(p)
  BY <1>6, ReadShape
<1>7. CASE Loaded(p)
  BY <1>7, LoadedShape
<1>8. CASE Choose(p)
  BY <1>8, ChooseShape
<1>9. CASE LoadForStore(p)
  BY <1>9, LoadForStoreShape
<1>10. CASE Truncate(p)
  BY <1>10, TruncateShape
<1>11. CASE Write(p)
  BY <1>11, WriteShape
<1>12. CASE Stored(p)
  BY <1>12, StoredShape
<1>13. CASE Die(p)
  BY <1>13, DieShape
<1> QED BY <1>1, <1>2, <1>3, <1>4, <1>5, <1>6, <1>7, <1>8, <1>9, <1>10, <1>11, <1>12, <1>13 DEF Step

(* One process at a time is inside load or store, whoever dies where, and  *)
(* every variable keeps its type (named_mutex.cpp:13-22).                  *)
THEOREM TypeAndMutex == Spec => [](TypeOK /\ Mutual)
<1>1. Shape => TypeOK /\ Mutual
  BY DEF Shape
<1> QED BY <1>1, InitShape, NextShape, PTL DEF Spec

------------------------------------------------------------------------------
(* The steps of one process, each against Agreement. *)

LEMMA StartAgrees ==
  ASSUME NEW p \in Procs, Shape, Agreement, Start(p)
  PROVE  Agreement'
<1> SUFFICES ASSUME ~excuse', folder', NEW q \in Procs
             PROVE  Agrees(q)'
  BY DEF Agreement
<1> USE StoreAssumption DEF Start, Goto, disk
<1>1. ~excuse /\ folder
  BY Zenon
<1>2. \A r \in Procs : Agrees(r)
  BY <1>1 DEF Agreement
<1>3. CASE q = p
  BY <1>2, <1>3 DEF Agrees, Nameless, Shape, TypeOK, Mutual, Knows, Held, InLoad, InStore, Early
<1>4. CASE q # p
  BY <1>2, <1>4 DEF Agrees, Nameless, Undecided, CopiesAlone, Shape, TypeOK, Mutual, Knows, Held, InLoad, InStore, Early
<1> QED BY <1>3, <1>4

LEMMA LockAgrees ==
  ASSUME NEW p \in Procs, Shape, Agreement, Lock(p)
  PROVE  Agreement'
<1> SUFFICES ASSUME ~excuse', folder', NEW q \in Procs
             PROVE  Agrees(q)'
  BY DEF Agreement
<1> USE StoreAssumption DEF Lock, Goto, disk
<1>1. ~excuse /\ folder
  BY Zenon
<1>2. \A r \in Procs : Agrees(r)
  BY <1>1 DEF Agreement
<1>3. CASE q = p
  BY <1>2, <1>3 DEF Agrees, Nameless, Shape, TypeOK, Mutual, Knows, Held, InLoad, InStore, Early
<1>4. CASE q # p
  BY <1>2, <1>4 DEF Agrees, Nameless, Undecided, CopiesAlone, Shape, TypeOK, Mutual, Knows, Held, InLoad, InStore, Early
<1> QED BY <1>3, <1>4

LEMMA MigrateAgrees ==
  ASSUME NEW p \in Procs, Shape, Agreement, Migrate(p)
  PROVE  Agreement'
<1> SUFFICES ASSUME ~excuse', folder', NEW q \in Procs
             PROVE  Agrees(q)'
  BY DEF Agreement
<1> USE StoreAssumption DEF Migrate, Goto, disk
<1>1. ~excuse /\ folder
  BY Zenon
<1>2. \A r \in Procs : Agrees(r)
  BY <1>1 DEF Agreement
<1>3. CASE q = p
  BY <1>2, <1>3 DEF Agrees, Nameless, Shape, TypeOK, Mutual, Knows, Held, InLoad, InStore, Early
<1>4. CASE q # p
  BY <1>2, <1>4 DEF Agrees, Nameless, Undecided, CopiesAlone, Shape, TypeOK, Mutual, Knows, Held, InLoad, InStore, Early
<1> QED BY <1>3, <1>4

LEMMA ImportAgrees ==
  ASSUME NEW p \in Procs, Shape, Agreement, Import(p)
  PROVE  Agreement'
<1> SUFFICES ASSUME ~excuse', folder', NEW q \in Procs
             PROVE  Agrees(q)'
  BY DEF Agreement
<1> USE StoreAssumption DEF Import, Goto, disk
<1>1. ~excuse /\ folder
  BY Zenon
<1>2. \A r \in Procs : Agrees(r)
  BY <1>1 DEF Agreement
<1>3. CASE q = p
  BY NoNameWithoutAFile, <1>2, <1>3 DEF Agrees, Nameless, Shape, TypeOK, Mutual, Knows, Held, InLoad, InStore, Early
<1>4. CASE q # p
  BY NoNameWithoutAFile, <1>2, <1>4 DEF Agrees, Nameless, Undecided, CopiesAlone, Shape, TypeOK, Mutual, Knows, Held, InLoad, InStore, Early
<1> QED BY <1>3, <1>4

LEMMA ReadAgrees ==
  ASSUME NEW p \in Procs, Shape, Agreement, Read(p)
  PROVE  Agreement'
<1> SUFFICES ASSUME ~excuse', folder', NEW q \in Procs
             PROVE  Agrees(q)'
  BY DEF Agreement
<1> USE StoreAssumption DEF Read, Goto, disk
<1>1. ~excuse /\ folder
  BY Zenon
<1>2. \A r \in Procs : Agrees(r)
  BY <1>1 DEF Agreement
<1>3. CASE q = p
  BY <1>2, <1>3 DEF Agrees, Nameless, Shape, TypeOK, Mutual, Knows, Held, InLoad, InStore, Early
<1>4. CASE q # p
  BY <1>2, <1>4 DEF Agrees, Nameless, Undecided, CopiesAlone, Shape, TypeOK, Mutual, Knows, Held, InLoad, InStore, Early
<1> QED BY <1>3, <1>4

LEMMA LoadedAgrees ==
  ASSUME NEW p \in Procs, Shape, Agreement, Loaded(p)
  PROVE  Agreement'
<1> SUFFICES ASSUME ~excuse', folder', NEW q \in Procs
             PROVE  Agrees(q)'
  BY DEF Agreement
<1> USE StoreAssumption DEF Loaded, Goto, disk
<1>1. ~excuse /\ folder
  BY Zenon
<1>2. \A r \in Procs : Agrees(r)
  BY <1>1 DEF Agreement
<1>3. CASE q = p
  BY <1>2, <1>3 DEF Agrees, Nameless, Shape, TypeOK, Mutual, Knows, Held, InLoad, InStore, Early
<1>4. CASE q # p
  BY <1>2, <1>4 DEF Agrees, Nameless, Undecided, CopiesAlone, Shape, TypeOK, Mutual, Knows, Held, InLoad, InStore, Early
<1> QED BY <1>3, <1>4

LEMMA ChooseAgrees ==
  ASSUME NEW p \in Procs, Shape, Agreement, Choose(p)
  PROVE  Agreement'
<1> SUFFICES ASSUME ~excuse', folder', NEW q \in Procs
             PROVE  Agrees(q)'
  BY DEF Agreement
<1> USE StoreAssumption DEF Choose, Goto, disk
<1>1. ~excuse /\ folder
  BY Zenon
<1>2. \A r \in Procs : Agrees(r)
  BY <1>1 DEF Agreement
<1>3. CASE q = p
  BY <1>2, <1>3 DEF Agrees, Nameless, Shape, TypeOK, Mutual, Knows, Held, InLoad, InStore, Early
<1>4. CASE q # p
  BY <1>2, <1>4 DEF Agrees, Nameless, Undecided, CopiesAlone, Shape, TypeOK, Mutual, Knows, Held, InLoad, InStore, Early
<1> QED BY <1>3, <1>4

LEMMA LoadForStoreAgrees ==
  ASSUME NEW p \in Procs, Shape, Agreement, LoadForStore(p)
  PROVE  Agreement'
<1> SUFFICES ASSUME ~excuse', folder', NEW q \in Procs
             PROVE  Agrees(q)'
  BY DEF Agreement
<1> USE StoreAssumption DEF LoadForStore, Goto, disk
<1>1. ~excuse /\ folder
  BY Zenon
<1>2. \A r \in Procs : Agrees(r)
  BY <1>1 DEF Agreement
<1>3. CASE q = p
  BY <1>2, <1>3 DEF Agrees, Nameless, Shape, TypeOK, Mutual, Knows, Held, InLoad, InStore, Early
<1>4. CASE q # p
  BY <1>2, <1>4 DEF Agrees, Nameless, Undecided, CopiesAlone, Shape, TypeOK, Mutual, Knows, Held, InLoad, InStore, Early
<1> QED BY <1>3, <1>4

LEMMA TruncateAgrees ==
  ASSUME NEW p \in Procs, Shape, Agreement, Truncate(p)
  PROVE  Agreement'
<1> SUFFICES ASSUME ~excuse', folder', NEW q \in Procs
             PROVE  Agrees(q)'
  BY DEF Agreement
<1> USE StoreAssumption DEF Truncate, Goto, disk
<1>1. ~excuse /\ folder
  BY Zenon
<1>2. \A r \in Procs : Agrees(r)
  BY <1>1 DEF Agreement
<1>3. CASE q = p
  BY NoNameWithoutAFile, <1>2, <1>3 DEF Agrees, Nameless, Shape, TypeOK, Mutual, Knows, Held, InLoad, InStore, Early
<1>4. CASE q # p
  BY NoNameWithoutAFile, <1>2, <1>4 DEF Agrees, Nameless, Undecided, CopiesAlone, Shape, TypeOK, Mutual, Knows, Held, InLoad, InStore, Early
<1> QED BY <1>3, <1>4

LEMMA WriteAgrees ==
  ASSUME NEW p \in Procs, Shape, Agreement, Write(p)
  PROVE  Agreement'
<1> SUFFICES ASSUME ~excuse', folder', NEW q \in Procs
             PROVE  Agrees(q)'
  BY DEF Agreement
<1> USE StoreAssumption DEF Write, Goto, disk
<1>1. ~excuse /\ folder
  BY Zenon
<1>2. \A r \in Procs : Agrees(r)
  BY <1>1 DEF Agreement
<1>2a. Lookup(file') = name[p] /\ name[p] # None
  <2>1. name[p] \in Names /\ doc[p] \in Docs
    BY DEF Shape, TypeOK, Knows, InStore
  <2>2. file' \in Docs /\ file'[Key] = name[p]
    BY <2>1, KeyIsAKey DEF Docs, Values
  <2>3. Parse(file') = file'
    BY <2>2, ParseGivesADocument
  <2> QED BY <2>1, <2>2, <2>3 DEF Lookup, Values
<1>3. CASE q = p
  BY <1>2a, <1>2, <1>3 DEF Agrees, Nameless, Shape, TypeOK, Mutual, Knows, Held, InLoad, InStore, Early
<1>4. CASE q # p
  <2>1. ~Undecided(q)
    BY <1>4, Zenon
  <2>2. pc[q] \notin Held /\ pc'[q] = pc[q] /\ name'[q] = name[q] /\ found'[q] = found[q]
    BY <1>4 DEF Shape, TypeOK, Mutual, Held, InStore
  <2>3. pc[q] # "runs"
    <3>1. Lookup(file) = None
      BY <1>2 DEF Agrees, Nameless
    <3>2. pc[q] = "runs" => name[q] \in Names /\ name[q] = Lookup(file)
      BY <1>2 DEF Agrees, Shape, Knows
    <3> QED BY <3>1, <3>2 DEF Values
  <2> QED BY <2>1, <2>2, <2>3 DEF Agrees, Nameless, Undecided, Held, InLoad, InStore
<1> QED BY <1>3, <1>4

LEMMA StoredAgrees ==
  ASSUME NEW p \in Procs, Shape, Agreement, Stored(p)
  PROVE  Agreement'
<1> SUFFICES ASSUME ~excuse', folder', NEW q \in Procs
             PROVE  Agrees(q)'
  BY DEF Agreement
<1> USE StoreAssumption DEF Stored, Goto, disk
<1>1. ~excuse /\ folder
  BY Zenon
<1>2. \A r \in Procs : Agrees(r)
  BY <1>1 DEF Agreement
<1>3. CASE q = p
  BY <1>2, <1>3 DEF Agrees, Nameless, Shape, TypeOK, Mutual, Knows, Held, InLoad, InStore, Early
<1>4. CASE q # p
  BY <1>2, <1>4 DEF Agrees, Nameless, Undecided, CopiesAlone, Shape, TypeOK, Mutual, Knows, Held, InLoad, InStore, Early
<1> QED BY <1>3, <1>4

LEMMA DieAgrees ==
  ASSUME NEW p \in Procs, Shape, Agreement, Die(p)
  PROVE  Agreement'
<1> SUFFICES ASSUME ~excuse', folder', NEW q \in Procs
             PROVE  Agrees(q)'
  BY DEF Agreement
<1> USE StoreAssumption DEF Die, Goto, disk
<1>1. ~excuse /\ folder
  BY Zenon
<1>2. \A r \in Procs : Agrees(r)
  BY <1>1 DEF Agreement
<1>3. CASE q = p
  BY <1>2, <1>3 DEF Agrees, Nameless, Shape, TypeOK, Mutual, Knows, Held, InLoad, InStore, Early
<1>4. CASE q # p
  BY <1>2, <1>4 DEF Agrees, Nameless, Undecided, CopiesAlone, Shape, TypeOK, Mutual, Knows, Held, InLoad, InStore, Early
<1> QED BY <1>3, <1>4

LEMMA InitAgrees == Init => Agreement
BY DEF Init, Agreement, Agrees, Nameless

LEMMA StutterAgrees ==
  ASSUME Agreement, UNCHANGED vars
  PROVE  Agreement'
BY DEF Agreement, Agrees, Nameless, vars, disk, Lookup, Parse

LEMMA NextAgrees == Shape /\ Agreement /\ [Next]_vars => Agreement'
<1> SUFFICES ASSUME Shape, Agreement, Next PROVE Agreement'
  BY StutterAgrees
<1>1. PICK p \in Procs : Start(p) \/ Step(p) \/ Die(p)
  BY DEF Next
<1>2. CASE Start(p)
  BY <1>2, StartAgrees
<1>3. CASE Lock(p)
  BY <1>3, LockAgrees
<1>4. CASE Migrate(p)
  BY <1>4, MigrateAgrees
<1>5. CASE Import(p)
  BY <1>5, ImportAgrees
<1>6. CASE Read(p)
  BY <1>6, ReadAgrees
<1>7. CASE Loaded(p)
  BY <1>7, LoadedAgrees
<1>8. CASE Choose(p)
  BY <1>8, ChooseAgrees
<1>9. CASE LoadForStore(p)
  BY <1>9, LoadForStoreAgrees
<1>10. CASE Truncate(p)
  BY <1>10, TruncateAgrees
<1>11. CASE Write(p)
  BY <1>11, WriteAgrees
<1>12. CASE Stored(p)
  BY <1>12, StoredAgrees
<1>13. CASE Die(p)
  BY <1>13, DieAgrees
<1> QED BY <1>1, <1>2, <1>3, <1>4, <1>5, <1>6, <1>7, <1>8, <1>9, <1>10, <1>11, <1>12, <1>13 DEF Step

(* Two instances that run show one name, the stored one, unless they set up *)
(* their names at the same time, a write was cut off or the folder is       *)
(* missing (name.cpp:48), for any instances, names and files.               *)
THEOREM NameStaysTheStoredOne == Spec => []NameIsTheStoredOne
<1>1. Shape /\ Agreement => NameIsTheStoredOne
  BY DEF Agreement, Agrees, NameIsTheStoredOne
<1> QED BY <1>1, InitShape, NextShape, InitAgrees, NextAgrees, PTL DEF Spec

------------------------------------------------------------------------------
(* The refinement: each step is one of the map's, or none. *)

Calls == [q \in Procs |-> CallOf(q)]

(* A step of p that stays in its call, or takes p to another one.          *)
LEMMA CallsChange ==
  ASSUME NEW p \in Procs, NEW from, NEW to, TypeOK, Goto(p, from, to),
         from \in Steps, to \in Steps
  PROVE  /\ \A q \in Procs \ {p} : CallOf(q)' = CallOf(q)
         /\ Calls' = [Calls EXCEPT ![p] = CallOf(p)']
<1>1. ASSUME NEW q \in Procs, q # p PROVE CallOf(q)' = CallOf(q)
  BY <1>1 DEF CallOf, Goto, TypeOK
<1> QED BY <1>1 DEF Calls

(* Nobody but the owner of the mutex is about to replace the file.         *)
LEMMA ContentsOfTheFile ==
  ASSUME Shape
  PROVE  /\ mutex = None => Contents = IF file = Absent /\ legacy # Absent /\ folder
                                       THEN legacy ELSE Parse(file)
         /\ \A p \in Procs : pc[p] \notin Early \cup {"copy", "write"} /\ mutex = p
              => Contents = Parse(file)
         /\ \A p \in Procs : pc[p] = "copy" => Contents = legacy
         /\ \A p \in Procs : pc[p] = "write" => Contents = doc[p]
<1> USE StoreAssumption DEF Contents, Shape, TypeOK, Mutual, Held, InLoad, InStore, Knows, Early
<1>1. mutex = None => Contents = IF file = Absent /\ legacy # Absent /\ folder
                                 THEN legacy ELSE Parse(file)
  OBVIOUS
<1>2. ASSUME NEW p \in Procs, pc[p] \notin Early \cup {"copy", "write"}, mutex = p
      PROVE  Contents = Parse(file)
  BY <1>2
<1>3. ASSUME NEW p \in Procs, pc[p] = "copy" PROVE Contents = legacy
  BY <1>3
<1>4. ASSUME NEW p \in Procs, pc[p] = "write" PROVE Contents = doc[p]
  BY <1>4
<1> QED BY <1>1, <1>2, <1>3, <1>4

LEMMA SilentRefines ==
  ASSUME NEW p \in Procs, Shape,
         Lock(p) \/ Migrate(p) \/ Import(p) \/ LoadForStore(p) \/ Truncate(p)
  PROVE  UNCHANGED Map!vars
<1> USE StoreAssumption DEF Goto, disk
<1>0. Shape'
  BY LockShape, MigrateShape, ImportShape, LoadForStoreShape, TruncateShape
<1>1. CASE Lock(p)
  <2> USE <1>1 DEF Lock
  <2>1. Calls' = Calls
    BY DEF Shape, TypeOK, Calls, CallOf, InLoad, InStore
  <2>2. Contents' = Contents
    BY ContentsOfTheFile DEF Contents, Shape, TypeOK, Parse
  <2> QED BY <2>1, <2>2 DEF Map!vars, Calls
<1>2. CASE Migrate(p)
  <2> USE <1>2 DEF Migrate
  <2>1. Calls' = Calls
    BY DEF Shape, TypeOK, Calls, CallOf, InLoad, InStore
  <2>2. Contents' = Contents
    BY DEF Contents, Shape, TypeOK, Parse, Mutual, Held, InLoad
  <2> QED BY <2>1, <2>2 DEF Map!vars, Calls
<1>3. CASE Import(p)
  <2> USE <1>3 DEF Import
  <2>1. Calls' = Calls
    BY DEF Shape, TypeOK, Calls, CallOf, InLoad, InStore
  <2>2. Contents' = Contents
    BY DEF Contents, Shape, TypeOK, Parse, Mutual, Held, InLoad, Knows
  <2> QED BY <2>1, <2>2 DEF Map!vars, Calls
<1>4. CASE LoadForStore(p)
  <2> USE <1>4 DEF LoadForStore
  <2>1. Calls' = Calls
    BY DEF Shape, TypeOK, Calls, CallOf, InLoad, InStore
  <2>2. Contents' = Contents
    BY DEF Contents, Shape, TypeOK, Parse, Mutual, Held, InStore
  <2> QED BY <2>1, <2>2 DEF Map!vars, Calls
<1>5. CASE Truncate(p)
  <2> USE <1>5 DEF Truncate
  <2>1. Calls' = Calls
    BY DEF Shape, TypeOK, Calls, CallOf, InLoad, InStore
  <2>2. mutex = p /\ Contents = Parse(file) /\ doc[p] = Parse(file)
    BY ContentsOfTheFile DEF Shape, Mutual, Held, InStore, Early, Knows
  <2>3. Contents' = Contents
    <3>1. CASE folder
      BY <2>2, <3>1, <1>0, ContentsOfTheFile DEF Contents, Shape, TypeOK
    <3>2. CASE ~folder
      BY <2>2, <3>2 DEF Contents, Shape, TypeOK
    <3> QED BY <3>1, <3>2
  <2> QED BY <2>1, <2>3 DEF Map!vars, Calls
<1> QED BY <1>1, <1>2, <1>3, <1>4, <1>5

LEMMA CallRefines ==
  ASSUME NEW p \in Procs, Shape, Start(p) \/ Choose(p)
  PROVE  Map!Next
<1> USE StoreAssumption DEF Goto, disk, Start, Choose
<1>1. Contents' = Contents
  BY DEF Contents, Shape, TypeOK, Parse, Mutual, Held, InLoad, InStore
<1>2. \E c \in {"load", "store"} : Map!Call(p, c)
  <2>1. CASE Start(p)
    <3>1. CallOf(p) = "out" /\ Calls' = [Calls EXCEPT ![p] = "load"]
      BY <2>1 DEF Calls, CallOf, Shape, TypeOK, InLoad, InStore
    <3>2. Map!Call(p, "load")
      BY <1>1, <2>1, <3>1 DEF Map!Call, Calls
    <3> QED BY <3>2
  <2>2. CASE Choose(p)
    <3>1. CallOf(p) = "out" /\ Calls' = [Calls EXCEPT ![p] = "store"]
      BY <2>2 DEF Calls, CallOf, Shape, TypeOK, InLoad, InStore
    <3>2. Map!Call(p, "store")
      BY <1>1, <2>2, <3>1 DEF Map!Call, Calls
    <3> QED BY <3>2
  <2> QED BY <2>1, <2>2
<1> QED BY <1>2 DEF Map!Next

LEMMA ReadRefines ==
  ASSUME NEW p \in Procs, Shape, Read(p)
  PROVE  Map!Load(p)
<1> USE DEF Goto, disk, Read
<1>1. mutex = p /\ Contents = Parse(file)
  BY ContentsOfTheFile DEF Shape, Mutual, Held, InLoad, Early
<1>2. Contents' = Contents
  BY DEF Contents, Shape, TypeOK, Parse, Mutual, Held, InLoad
<1>3. CallOf(p) = "load" /\ Calls' = Calls
  BY DEF Calls, CallOf, Shape, TypeOK, InLoad, InStore
<1>4. Lookup(file) = IF Contents[Key] \in Names THEN Contents[Key] ELSE None
  BY <1>1 DEF Lookup
<1> QED BY <1>2, <1>3, <1>4 DEF Map!Load, Calls

LEMMA WriteRefines ==
  ASSUME NEW p \in Procs, Shape, Write(p)
  PROVE  Map!Store(p)
<1> USE StoreAssumption DEF Goto, disk, Write
<1>1. mutex = p /\ Contents = doc[p] /\ name[p] \in Names /\ doc[p] \in Docs
  BY ContentsOfTheFile DEF Shape, TypeOK, Mutual, Held, InStore, Knows
<1>2. file' \in Docs
  BY <1>1, KeyIsAKey DEF Docs, Values
<1>3. Contents' = Parse(file')
  BY <1>1, <1>2 DEF Contents, Shape, TypeOK
<1>4. Contents' = [Contents EXCEPT ![Key] = name[p]]
  BY <1>1, <1>2, <1>3, ParseGivesADocument
<1>5. CallOf(p) = "store" /\ Calls' = Calls
  BY DEF Calls, CallOf, Shape, TypeOK, InLoad, InStore
<1> QED BY <1>1, <1>4, <1>5 DEF Map!Store, Calls

LEMMA ReturnRefines ==
  ASSUME NEW p \in Procs, Shape, Loaded(p) \/ Stored(p)
  PROVE  Map!Return(p)
<1> USE StoreAssumption DEF Goto, disk
<1>1. mutex = p /\ Contents = Parse(file) /\ (file = Absent /\ folder => legacy = Absent)
  BY ContentsOfTheFile DEF Shape, Mutual, Held, InLoad, InStore, Early, Knows, Loaded, Stored
<1>2. Contents' = Contents
  BY <1>1 DEF Contents, Parse, Loaded, Stored
<1>3. CallOf(p) # "out" /\ Calls' = [Calls EXCEPT ![p] = "out"]
  BY DEF Calls, CallOf, Shape, TypeOK, InLoad, InStore, Loaded, Stored
<1>4. UNCHANGED <<found, deaths>>
  BY DEF Loaded, Stored
<1> QED BY <1>2, <1>3, <1>4 DEF Map!Return, Calls

LEMMA DieRefines ==
  ASSUME NEW p \in Procs, Shape, Die(p)
  PROVE  Map!Die(p)
<1> USE StoreAssumption DEF disk, Die
<1>1. Calls' = [Calls EXCEPT ![p] = "out"]
  BY DEF Calls, CallOf, Shape, TypeOK, InLoad, InStore
<1>2. Contents' = Contents \/ (CallOf(p) # "out" /\ Contents' = Empty)
  <2>1. CASE pc[p] \in {"copy", "write"}
    <3>1. mutex = p /\ mutex' = None /\ file' = Torn
      BY <2>1 DEF Shape, Mutual, Knows, Held, InLoad, InStore
    <3>2. CallOf(p) # "out"
      BY <2>1 DEF CallOf, InLoad, InStore
    <3> QED BY <3>1, <3>2 DEF Contents, Parse
  <2>2. CASE pc[p] \notin {"copy", "write"} /\ mutex = p
    BY <2>2 DEF Contents
  <2>3. CASE mutex # p
    BY <2>3 DEF Contents, Shape, TypeOK, Mutual, Held, InLoad, InStore
  <2> QED BY <2>1, <2>2, <2>3 DEF Shape, Mutual, Held, InLoad, InStore
<1> QED BY <1>1, <1>2 DEF Map!Die, Map!Empty, Empty, Calls

LEMMA InitRefines == Init => Map!Init
<1> SUFFICES ASSUME Init PROVE Map!Init
  OBVIOUS
<1>1. Shape
  BY InitShape
<1>2. Contents \in Docs
  BY <1>1, ParseGivesADocument, StoreAssumption DEF Contents, Shape, TypeOK, Init
<1>3. \A p \in Procs : CallOf(p) = "out"
  BY DEF CallOf, Init, InLoad, InStore
<1> QED BY <1>2, <1>3 DEF Map!Init, Docs, Init

(* The file behind the named mutex is one map to any processes: every load *)
(* and store takes effect at one moment, changes no other property, and    *)
(* only a death inside a call loses the map (properties.cpp:124-158).      *)
THEOREM StoreImplementsMap == Spec => ActsAsAMap
<1>1. Shape /\ [Next]_vars => [Map!Next]_(Map!vars)
  <2> SUFFICES ASSUME Shape, [Next]_vars PROVE [Map!Next]_(Map!vars)
    OBVIOUS
  <2>1. CASE UNCHANGED vars
    BY <2>1 DEF vars, disk, Map!vars, Contents, Parse, CallOf
  <2>2. CASE Next
    <3>1. PICK p \in Procs : Start(p) \/ Step(p) \/ Die(p)
      BY <2>2 DEF Next
    <3>2. Start(p) \/ Choose(p) => Map!Next
      BY CallRefines
    <3>3. Read(p) => Map!Next
      BY ReadRefines DEF Map!Next
    <3>4. Write(p) => Map!Next
      BY WriteRefines DEF Map!Next
    <3>5. Loaded(p) \/ Stored(p) => Map!Next
      BY ReturnRefines DEF Map!Next
    <3>6. Die(p) => Map!Next
      BY DieRefines DEF Map!Next
    <3>7. Lock(p) \/ Migrate(p) \/ Import(p) \/ LoadForStore(p) \/ Truncate(p) => UNCHANGED Map!vars
      BY SilentRefines
    <3> QED BY <3>1, <3>2, <3>3, <3>4, <3>5, <3>6, <3>7 DEF Step
  <2> QED BY <2>1, <2>2
<1> QED BY <1>1, InitShape, NextShape, InitRefines, PTL DEF Spec, ActsAsAMap, Map!Spec

==============================================================================
