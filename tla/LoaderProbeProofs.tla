-------------------------- MODULE LoaderProbeProofs --------------------------
(* Theorems about ComponentLoader, for any components, priorities, threads    *)
(* and failures; and about XInputProbe and IW5Probe, for any inputs, pads,    *)
(* keys, binds and files, and any number of edits.  The components have       *)
(* nothing to do with each other; they share a module of proofs.              *)
EXTENDS ComponentLoader, IW5Probe, FiniteSetTheorems, SequenceTheorems, TLAPS

------------------------------------------------------------------------------
(* ComponentLoader. *)

(* The inductive invariant. *)

Shape ==
  /\ server \in BOOLEAN
  /\ components \in Seq(Components)
  /\ status \in [Phases -> {"new", "running", "true", "false"}]
  /\ runner \in [Phases -> Callers]
  /\ reached \in [Phases -> Nat \ {0}] /\ reached["activate"] <= Len(Registered) + 1
  /\ done \in [Handlers -> Seq(Components)]
  /\ pc[Attacher] \in {"activate", "post_load", "pre_destroy", "back"}
  /\ pc \in [Callers -> {"activate", "post_load", "post_unpack", "pre_destroy", "out", "back"}]
  /\ \A t \in Threads : pc[t] \in {"out", "post_unpack", "back"}

(* Nobody is in a phase, or has been, while the components are activated.   *)
StillActivating ==
  pc[Attacher] = "activate" =>
    /\ \A ph \in Handlers : done[ph] = <<>> /\ reached[ph] = 1 /\ status[ph] = "new"
    /\ \A t \in Threads : pc[t] = "out"

(* q is sorted, and holds only what is among the first n to register.       *)
Ordered(q, n) ==
  /\ \A i \in 1..Len(q) : \E k \in 1..n : q[i] = Registered[k]
  /\ \A i, j \in 1..Len(q) : i < j => ComesFirst(q[i], q[j])

Sorted == Ordered(components, reached["activate"] - 1)

(* The walk of ph has called the handlers in front of its iterator.         *)
Walked(ph) ==
  /\ Len(done[ph]) = reached[ph] - 1 /\ reached[ph] <= Len(components) + 1
  /\ \A i \in 1..Len(done[ph]) : done[ph][i] = components[i]
  /\ status[ph] = "true" => reached[ph] = Len(components) + 1

LoadEnded == status["post_load"] \in {"true", "false"}

(* The game runs only when the attaching is over.                           *)
LoadComesFirst ==
  /\ pc[Attacher] \in {"back", "pre_destroy"} /\ done["post_load"] # <<>> => LoadEnded
  /\ \A t \in Threads : pc[t] # "out" => LoadEnded
  /\ done["post_unpack"] # <<>> => LoadEnded

(* Whoever goes on has seen the end of the unpacking.                       *)
Passed ==
  /\ "post_unpack" \in complete => status["post_unpack"] = "true"
  /\ \A t \in Threads : pc[t] = "back" => status["post_unpack"] = "true"
  /\ splash = "shown" => status["post_unpack"] = "true"

LoaderInv ==
  /\ Shape /\ StillActivating /\ Sorted
  /\ \A ph \in Handlers : Walked(ph)
  /\ LoadComesFirst /\ Passed

------------------------------------------------------------------------------
(* Sequences and sets. *)

LEMMA InsertAtElements ==
  ASSUME NEW S, NEW q \in Seq(S), NEW p \in 0..Len(q), NEW x \in S
  PROVE  /\ InsertAt(q, p + 1, x) \in Seq(S)
         /\ Len(InsertAt(q, p + 1, x)) = Len(q) + 1
         /\ \A i \in 1..Len(q) + 1 :
              InsertAt(q, p + 1, x)[i] = IF i <= p THEN q[i] ELSE IF i = p + 1 THEN x ELSE q[i - 1]
<1> DEFINE a == SubSeq(q, 1, p)
           b == SubSeq(q, p + 1, Len(q))
<1>1. Len(q) \in Nat /\ p \in Nat /\ p <= Len(q) /\ \A i \in 1..Len(q) : q[i] \in S
  OBVIOUS
<1>2. a \in Seq(S) /\ Len(a) = p /\ \A i \in 1..p : a[i] = q[i]
  BY <1>1, SubSeqProperties
<1>3. b \in Seq(S) /\ Len(b) = Len(q) - p /\ \A i \in 1..(Len(q) - p) : b[i] = q[p + i]
  <2>1. b \in Seq(S) /\ Len(b) = Len(q) - p
    BY <1>1, SubSeqProperties
  <2>2. \A i \in 1..(Len(q) - p) : b[i] = q[p + i]
    BY <1>1, SubSeqProperties
  <2> QED BY <2>1, <2>2
<1>4. InsertAt(q, p + 1, x) = a \o <<x>> \o b
  <2>1. (p + 1) - 1 = p
    BY <1>1
  <2> QED BY <2>1, Zenon DEF InsertAt
<1> HIDE DEF a, b
<1>5. /\ a \o <<x>> \in Seq(S) /\ Len(a \o <<x>>) = p + 1
      /\ \A i \in 1..p + 1 : (a \o <<x>>)[i] = IF i <= p THEN q[i] ELSE x
  BY <1>2
<1> DEFINE c == a \o <<x>>
<1>6. /\ c \in Seq(S) /\ Len(c) = p + 1
      /\ \A i \in 1..p + 1 : c[i] = IF i <= p THEN q[i] ELSE x
  BY <1>5
<1> HIDE DEF c
<1>7. /\ c \o b \in Seq(S) /\ Len(c \o b) = Len(q) + 1
      /\ \A i \in 1..Len(q) + 1 : (c \o b)[i] = IF i <= p + 1 THEN c[i] ELSE b[i - (p + 1)]
  <2>1. p + 1 + (Len(q) - p) = Len(q) + 1
    BY <1>1
  <2>2. /\ c \o b \in Seq(S) /\ Len(c \o b) = Len(c) + Len(b)
        /\ \A i \in 1..Len(c) + Len(b) :
             (c \o b)[i] = IF i <= Len(c) THEN c[i] ELSE b[i - Len(c)]
    <3>1. c \in Seq(S) /\ b \in Seq(S)
      BY <1>3, <1>6
    <3> QED BY <3>1, ConcatProperties, Zenon
  <2>3. Len(c) = p + 1 /\ Len(b) = Len(q) - p
    BY <1>3, <1>6
  <2> QED BY <2>1, <2>2, <2>3, Zenon
<1>8. ASSUME NEW i \in 1..Len(q) + 1
      PROVE  (c \o b)[i] = IF i <= p THEN q[i] ELSE IF i = p + 1 THEN x ELSE q[i - 1]
  <2>1. CASE i <= p + 1
    BY <1>1, <1>6, <1>7, <2>1
  <2>2. CASE i > p + 1
    <3>1. i - (p + 1) \in 1..(Len(q) - p) /\ p + (i - (p + 1)) = i - 1
      BY <1>1, <2>2
    <3>2. (c \o b)[i] = b[i - (p + 1)]
      BY <1>1, <1>7, <2>2
    <3>3. b[i - (p + 1)] = q[p + (i - (p + 1))]
      BY <1>3, <3>1
    <3> QED BY <1>1, <2>2, <3>1, <3>2, <3>3
  <2>3. i <= p + 1 \/ i > p + 1
    BY <1>1
  <2> QED BY <2>1, <2>2, <2>3
<1>9. InsertAt(q, p + 1, x) = c \o b
  BY <1>4, Zenon DEF c
<1>10. \A i \in 1..Len(q) + 1 :
         (c \o b)[i] = IF i <= p THEN q[i] ELSE IF i = p + 1 THEN x ELSE q[i - 1]
  BY <1>8
<1>11. InsertAt(q, p + 1, x) \in Seq(S) /\ Len(InsertAt(q, p + 1, x)) = Len(q) + 1
  BY <1>7, <1>9, Zenon
<1>12. \A i \in 1..Len(q) + 1 :
         InsertAt(q, p + 1, x)[i] = IF i <= p THEN q[i] ELSE IF i = p + 1 THEN x ELSE q[i - 1]
  BY <1>9, <1>10, Zenon
<1> QED BY <1>11, <1>12, Zenon

(* A set of positions that goes down to the first one is an interval.       *)
LEMMA DownwardClosed ==
  ASSUME NEW n \in Nat, NEW S \in SUBSET (1..n), \A i \in S : \A j \in 1..n : j < i => j \in S
  PROVE  Cardinality(S) \in 0..n /\ S = 1..Cardinality(S)
<1> DEFINE k == Cardinality(S)
<1>1. IsFiniteSet(1..n) /\ Cardinality(1..n) = n
  BY FS_Interval
<1>2. IsFiniteSet(S) /\ k <= n
  BY <1>1, FS_Subset
<1>3. k \in Nat
  BY <1>2, FS_CardinalityType
<1>4. ASSUME NEW i \in S PROVE i <= k
  <2>1. 1..i \subseteq S
    OBVIOUS
  <2>2. Cardinality(1..i) = i
    BY FS_Interval
  <2>3. Cardinality(1..i) <= Cardinality(S)
    BY <1>2, <2>1, FS_Subset
  <2> QED BY <2>2, <2>3
<1>5. S \in SUBSET (1..k)
  BY <1>3, <1>4
<1>6. IsFiniteSet(1..k) /\ Cardinality(1..k) = k
  BY <1>3, FS_Interval
<1>7. S = 1..k
  BY <1>5, <1>6, FS_Subset
<1> QED BY <1>2, <1>3, <1>7

LEMMA SamePrefix ==
  ASSUME NEW S, NEW q \in Seq(S), NEW r \in Seq(S), Len(q) <= Len(r),
         \A i \in 1..Len(q) : q[i] = r[i]
  PROVE  IsPrefix(q, r) /\ (Len(q) = Len(r) => q = r)
<1>1. Len(q) \in Nat /\ Len(r) \in Nat
  OBVIOUS
<1>2. SubSeq(q, 1, Len(q)) \in Seq(S) /\ Len(SubSeq(q, 1, Len(q))) = Len(q)
      /\ \A i \in 1..Len(q) : SubSeq(q, 1, Len(q))[i] = q[i]
  BY <1>1
<1>3. SubSeq(r, 1, Len(q)) \in Seq(S) /\ Len(SubSeq(r, 1, Len(q))) = Len(q)
      /\ \A i \in 1..Len(q) : SubSeq(r, 1, Len(q))[i] = r[i]
  BY <1>1
<1>4. SubSeq(q, 1, Len(q)) = SubSeq(r, 1, Len(q))
  BY <1>2, <1>3, SeqEqual
<1>5. Len(q) = Len(r) => q = r
  BY SeqEqual
<1> QED BY <1>4, <1>5 DEF IsPrefix

------------------------------------------------------------------------------
(* Activation. *)

LEMMA RegisteredFacts ==
  /\ Len(Registered) \in Nat /\ DOMAIN Registered = 1..Len(Registered)
  /\ \A k \in 1..Len(Registered) : Registered[k] \in Components
  /\ \A c \in Components : Priority[c] \in Int
BY LoaderAssumption

(* What comes first has no lower priority.                                  *)
LEMMA ComesFirstPriority ==
  ASSUME NEW c \in Components, NEW d \in Components, ComesFirst(c, d)
  PROVE  Priority[c] >= Priority[d]
BY RegisteredFacts DEF ComesFirst

(* The components that stay in front of a new one are a prefix.             *)
LEMMA PlaceOfNew ==
  ASSUME NEW q \in Seq(Components), NEW n \in Nat, Ordered(q, n), NEW c \in Components
  PROVE  LET place == Cardinality({ i \in DOMAIN q : Priority[q[i]] >= Priority[c] })
         IN /\ place \in 0..Len(q)
            /\ \A i \in 1..Len(q) : i <= place <=> Priority[q[i]] >= Priority[c]
<1> DEFINE S == { i \in 1..Len(q) : Priority[q[i]] >= Priority[c] }
<1>1. /\ Len(q) \in Nat /\ DOMAIN q = 1..Len(q)
      /\ \A i \in 1..Len(q) : q[i] \in Components
  OBVIOUS
<1>2. \A i \in S : \A j \in 1..Len(q) : j < i => j \in S
  <2> TAKE i \in S
  <2> TAKE j \in 1..Len(q)
  <2> HAVE j < i
  <2>1. ComesFirst(q[j], q[i])
    BY DEF Ordered
  <2>2. Priority[q[j]] >= Priority[q[i]]
    BY <1>1, <2>1, ComesFirstPriority
  <2> QED BY <1>1, <2>2, RegisteredFacts
<1>3. Cardinality(S) \in 0..Len(q) /\ S = 1..Cardinality(S)
  <2>1. S \in SUBSET (1..Len(q))
    OBVIOUS
  <2> HIDE DEF S
  <2> QED BY <1>1, <1>2, <2>1, DownwardClosed
<1>4. \A i \in 1..Len(q) : i \in S <=> i <= Cardinality(S)
  <2> HIDE DEF S
  <2> QED BY <1>1, <1>3
<1> QED BY <1>1, <1>3, <1>4

(* push_back and a stable sort put the new component at its place.          *)
LEMMA InsertionKeepsOrder ==
  ASSUME NEW q \in Seq(Components), NEW n \in Nat, n < Len(Registered), Ordered(q, n),
         NEW c \in Components, c = Registered[n + 1], NEW place \in 0..Len(q),
         \A i \in 1..Len(q) : i <= place <=> Priority[q[i]] >= Priority[c]
  PROVE  InsertAt(q, place + 1, c) \in Seq(Components) /\ Ordered(InsertAt(q, place + 1, c), n + 1)
<1> DEFINE r == InsertAt(q, place + 1, c)
<1>1. /\ r \in Seq(Components) /\ Len(r) = Len(q) + 1
      /\ \A i \in 1..Len(q) + 1 :
           r[i] = IF i <= place THEN q[i] ELSE IF i = place + 1 THEN c ELSE q[i - 1]
  BY ONLY InsertAtElements, q \in Seq(Components), c \in Components, place \in 0..Len(q)
<1> HIDE DEF r
<1>2. /\ Len(q) \in Nat /\ DOMAIN q = 1..Len(q) /\ place \in Nat
      /\ \A i \in 1..Len(q) : q[i] \in Components
  OBVIOUS
<1>3. n + 1 \in 1..Len(Registered)
  BY RegisteredFacts
<1>4. /\ \A i \in 1..place : ComesFirst(q[i], c)
      /\ \A i \in 1..Len(q) : i > place => ComesFirst(c, q[i])
  <2>1. ASSUME NEW i \in 1..place PROVE ComesFirst(q[i], c)
    <3>1. i \in 1..Len(q) /\ Priority[q[i]] >= Priority[c]
      BY <1>2
    <3>2. PICK k \in 1..n : q[i] = Registered[k]
      BY <3>1 DEF Ordered
    <3>3. k \in DOMAIN Registered /\ n + 1 \in DOMAIN Registered /\ k < n + 1
      BY <1>3, RegisteredFacts
    <3>4. Priority[q[i]] > Priority[c] \/ Priority[q[i]] = Priority[c]
      BY <1>2, <1>3, <3>1, RegisteredFacts
    <3> QED BY <3>2, <3>3, <3>4 DEF ComesFirst
  <2>2. ASSUME NEW i \in 1..Len(q), i > place PROVE ComesFirst(c, q[i])
    <3>2. Priority[c] > Priority[q[i]]
      BY <1>2, <2>2, RegisteredFacts
    <3>3. PICK k \in 1..n : q[i] = Registered[k]
      BY DEF Ordered
    <3>4. k \in DOMAIN Registered /\ n + 1 \in DOMAIN Registered
      BY <1>3, RegisteredFacts
    <3> QED BY <3>2, <3>3, <3>4 DEF ComesFirst
  <2> QED BY <2>1, <2>2
<1>5. \A i \in 1..Len(r) : \E k \in 1..n + 1 : r[i] = Registered[k]
  <2> TAKE i \in 1..Len(r)
  <2>0. i \in 1..Len(q) + 1 /\ place \in Nat
    BY <1>2, <1>1
  <2>1. CASE i = place + 1
    <3>1. r[i] = c
      BY <1>1, <2>0, <2>1
    <3>2. n + 1 \in 1..n + 1
      OBVIOUS
    <3> QED BY <3>1, <3>2
  <2>2. CASE i # place + 1
    <3>1. PICK j \in 1..Len(q) : r[i] = q[j]
      <4>1. CASE i <= place
        BY <1>2, <1>1, <2>0, <4>1
      <4>2. CASE i > place + 1
        <5>1. r[i] = q[i - 1] /\ i - 1 \in 1..Len(q)
          BY <1>2, <1>1, <2>0, <4>2
        <5> QED BY <5>1
      <4> QED BY <2>0, <2>2, <4>1, <4>2
    <3>2. PICK k \in 1..n : q[j] = Registered[k]
      BY DEF Ordered
    <3> QED BY <3>1, <3>2
  <2> QED BY <2>1, <2>2
<1>6. ASSUME NEW i \in 1..Len(r), NEW j \in 1..Len(r), i < j
      PROVE  ComesFirst(r[i], r[j])
  <2>0. i \in Nat /\ j \in Nat /\ i <= Len(q) + 1 /\ j <= Len(q) + 1 /\ place \in Nat
    BY <1>2, <1>1
  <2>1. CASE i = place + 1
    <3>1. r[i] = c /\ r[j] = q[j - 1] /\ j - 1 \in 1..Len(q) /\ j - 1 > place
      BY <1>2, <1>1, <1>6, <2>0, <2>1
    <3> QED BY <1>4, <3>1
  <2>2. CASE j = place + 1
    <3>1. r[j] = c /\ r[i] = q[i] /\ i \in 1..place
      BY <1>2, <1>1, <1>6, <2>0, <2>2
    <3> QED BY <1>4, <3>1
  <2>3. CASE i # place + 1 /\ j # place + 1
    <3>1. PICK k \in 1..Len(q), l \in 1..Len(q) : k < l /\ r[i] = q[k] /\ r[j] = q[l]
      <4> DEFINE k == IF i <= place THEN i ELSE i - 1
                 l == IF j <= place THEN j ELSE j - 1
      <4>1. k \in 1..Len(q) /\ l \in 1..Len(q) /\ k < l
        BY <1>2, <1>6, <2>0, <2>3
      <4>2. r[i] = q[k] /\ r[j] = q[l]
        BY <1>1, <2>0, <2>3
      <4> HIDE DEF k, l
      <4> QED BY <4>1, <4>2
    <3> QED BY <3>1 DEF Ordered
  <2> QED BY <2>1, <2>2, <2>3
<1>7. Ordered(r, n + 1)
  BY <1>5, <1>6 DEF Ordered
<1> QED BY <1>1, <1>7 DEF r

------------------------------------------------------------------------------
(* Every step keeps the invariant. *)

(* The attaching thread makes three of the calls, the game's threads one.   *)
LEMMA WhoCalls ==
  ASSUME Shape, NEW t \in Callers, NEW ph \in Phases, pc[t] = ph
  PROVE  \/ t = Attacher /\ ph \in {"activate", "post_load", "pre_destroy"}
         \/ t \in Threads /\ t # Attacher /\ ph = "post_unpack"
BY LoaderAssumption DEF Shape, Callers, Phases, Handlers

LEMMA InitInvariant == LoaderInit => LoaderInv
<1> SUFFICES ASSUME LoaderInit PROVE LoaderInv
  OBVIOUS
<1>1. Len(<<>>) = 0 /\ components = <<>> /\ components \in Seq(Components)
  BY DEF LoaderInit
<1>2. Shape
  BY <1>1, LoaderAssumption, RegisteredFacts DEF LoaderInit, Shape, Callers, Phases, Handlers
<1>3. StillActivating /\ LoadComesFirst /\ Passed
  BY LoaderAssumption DEF LoaderInit, StillActivating, LoadComesFirst, LoadEnded, Passed, Callers, Phases, Handlers
<1>4. Sorted
  BY <1>1 DEF LoaderInit, Sorted, Ordered
<1>5. ASSUME NEW ph \in Handlers PROVE Walked(ph)
  BY <1>1 DEF LoaderInit, Walked, Phases
<1> QED BY <1>2, <1>3, <1>4, <1>5 DEF LoaderInv

LEMMA BeginInvariant ==
  ASSUME LoaderInv, NEW t \in Callers, NEW ph \in Phases, Begin(ph, t)
  PROVE  LoaderInv'
<1> USE DEF LoaderInv
<1>1. Shape'
  BY DEF Begin, Shape
<1>2. StillActivating'
  <2> SUFFICES ASSUME pc[Attacher] = "activate" PROVE StillActivating'
    BY DEF Begin, StillActivating
  <2>1. ph = "activate"
    BY WhoCalls DEF Begin, StillActivating
  <2>2. \A h \in Handlers : status'[h] = status[h]
    BY <2>1 DEF Begin, Shape, Phases, Handlers
  <2> QED BY <2>2 DEF Begin, StillActivating
<1>3. Sorted'
  BY DEF Begin, Sorted, Ordered
<1>4. ASSUME NEW h \in Handlers PROVE Walked(h)'
  BY DEF Begin, Walked, Shape, Phases
<1>5. LoadComesFirst' /\ Passed'
  BY DEF Begin, LoadComesFirst, LoadEnded, Passed, Shape, Phases, Handlers
<1> QED BY <1>1, <1>2, <1>3, <1>4, <1>5

LEMMA EndInvariant ==
  ASSUME LoaderInv, NEW t \in Callers, NEW ph \in Phases, End(ph, t)
  PROVE  LoaderInv'
<1> USE DEF LoaderInv
<1>1. Shape'
  BY DEF End, Finish, Shape
<1>2. StillActivating'
  BY WhoCalls, LoaderAssumption DEF End, Running, Finish, StillActivating, Shape, Phases
<1>3. Sorted'
  BY DEF End, Sorted, Ordered
<1>4. ASSUME NEW h \in Handlers PROVE Walked(h)'
  BY DEF End, Finish, Walked, Shape, Phases, Handlers
<1>5. LoadComesFirst'
  BY DEF End, Running, Finish, LoadComesFirst, LoadEnded, Shape, Phases, Handlers
<1>6. Passed'
  <2>1. "post_unpack" \in complete' => "post_unpack" \in complete \/ ph = "post_unpack"
    BY DEF End
  <2>2. status'[ph] = "true" /\ \A h \in Phases : status[h] = "true" => status'[h] = "true"
    BY DEF End, Finish, Shape
  <2> QED BY <2>1, <2>2 DEF End, Passed, Phases, Handlers
<1> QED BY <1>1, <1>2, <1>3, <1>4, <1>5, <1>6

LEMMA ActivateInvariant ==
  ASSUME LoaderInv, NEW t \in Callers, Activate(t)
  PROVE  LoaderInv'
<1> USE DEF LoaderInv
<1> DEFINE n == reached["activate"] - 1
           c == Registered[reached["activate"]]
           place == Cardinality({ i \in DOMAIN components : Priority[components[i]] >= Priority[c] })
<1>1. n \in Nat /\ n < Len(Registered) /\ c = Registered[n + 1] /\ c \in Components
  BY RegisteredFacts DEF Activate, Shape, Phases
<1>2. t = Attacher /\ pc[t] = "activate" /\ status["activate"] = "running"
  BY WhoCalls DEF Activate, Running, Phases
<1>3. CASE /\ reached' = [reached EXCEPT !["activate"] = @ + 1]
           /\ components' = IF Wanted(c) THEN InsertAt(components, place + 1, c) ELSE components
           /\ UNCHANGED status
  <2>1. components' \in Seq(Components) /\ Ordered(components', n + 1)
    <3>1. Ordered(components, n) /\ components \in Seq(Components)
      BY DEF Sorted, Shape
    <3>2. Ordered(components, n + 1)
      BY <1>1, <3>1 DEF Ordered
    <3>3. /\ place \in 0..Len(components)
          /\ \A i \in 1..Len(components) : i <= place <=> Priority[components[i]] >= Priority[c]
      BY <1>1, <3>1, PlaceOfNew
    <3> HIDE DEF place, n, c
    <3>4. /\ InsertAt(components, place + 1, c) \in Seq(Components)
          /\ Ordered(InsertAt(components, place + 1, c), n + 1)
      BY <1>1, <3>1, <3>3, InsertionKeepsOrder
    <3> QED BY <1>3, <3>1, <3>2, <3>4
  <2>2. reached'["activate"] = n + 2 /\ \A ph \in Handlers : reached'[ph] = reached[ph]
    BY <1>3 DEF Shape, Phases, Handlers
  <2>3. Shape'
    BY <1>1, <1>3, <2>1, <2>2 DEF Activate, Shape, Phases
  <2>4. StillActivating'
    BY <1>3, <2>2 DEF Activate, StillActivating
  <2>5. Sorted'
    BY <1>1, <2>1, <2>2 DEF Sorted
  <2>6. ASSUME NEW h \in Handlers PROVE Walked(h)'
    BY <1>2, <1>3, <2>1, <2>2 DEF Activate, StillActivating, Walked
  <2>7. LoadComesFirst' /\ Passed'
    BY <1>3 DEF Activate, LoadComesFirst, LoadEnded, Passed
  <2> QED BY <2>3, <2>4, <2>5, <2>6, <2>7
<1>4. CASE Finish("activate", "false") /\ UNCHANGED <<reached, components>>
  <2>1. Shape' /\ StillActivating'
    BY <1>4 DEF Activate, Finish, Shape, StillActivating, Phases, Handlers
  <2>2. Sorted'
    BY <1>4 DEF Sorted, Ordered
  <2>3. ASSUME NEW h \in Handlers PROVE Walked(h)'
    BY <1>4 DEF Activate, Finish, Walked, Shape, Phases, Handlers
  <2>4. LoadComesFirst' /\ Passed'
    BY <1>4 DEF Activate, Finish, LoadComesFirst, LoadEnded, Passed, Shape, Phases, Handlers
  <2> QED BY <2>1, <2>2, <2>3, <2>4
<1> QED BY <1>3, <1>4 DEF Activate

LEMMA HandlerInvariant ==
  ASSUME LoaderInv, NEW t \in Callers, NEW ph \in Handlers, Handler(ph, t)
  PROVE  LoaderInv'
<1> USE DEF LoaderInv
<1>1. pc[t] = ph /\ status[ph] = "running" /\ ph \in Phases /\ reached[ph] \in 1..Len(components)
  BY DEF Handler, Running, Phases, Shape
<1>2. pc[Attacher] # "activate"
  BY <1>1 DEF StillActivating
<1>3. CASE /\ reached' = [reached EXCEPT ![ph] = @ + 1]
           /\ done' = [done EXCEPT ![ph] = Append(@, components[reached[ph]])]
           /\ UNCHANGED status
  <2>1. /\ done[ph] \in Seq(Components) /\ components[reached[ph]] \in Components
        /\ Len(done[ph]) = reached[ph] - 1
    BY <1>1 DEF Shape, Walked
  <2>2. /\ done'[ph] \in Seq(Components) /\ Len(done'[ph]) = reached[ph]
        /\ \A i \in 1..reached[ph] : done'[ph][i] = components[i]
    <3>1. done'[ph] = Append(done[ph], components[reached[ph]])
      BY <1>3 DEF Shape
    <3>2. \A i \in 1..Len(done[ph]) : done[ph][i] = components[i]
      BY DEF Walked
    <3> QED BY <1>1, <2>1, <3>1, <3>2, AppendProperties
  <2>3. \A h \in Handlers : h # ph => done'[h] = done[h] /\ reached'[h] = reached[h]
    BY <1>3 DEF Shape, Phases
  <2>4. reached'[ph] = reached[ph] + 1 /\ reached'["activate"] = reached["activate"]
    BY <1>1, <1>3 DEF Shape, Phases, Handlers
  <2>5. Shape'
    BY <1>3, <2>2, <2>3, <2>4 DEF Handler, Shape, Phases
  <2>6. Sorted' /\ StillActivating'
    BY <1>2, <2>4 DEF Handler, Sorted, Ordered, StillActivating
  <2>7. ASSUME NEW h \in Handlers PROVE Walked(h)'
    <3>1. CASE h = ph
      BY <1>1, <1>3, <2>2, <2>4, <3>1 DEF Handler, Walked
    <3>2. CASE h # ph
      BY <1>3, <2>3, <3>2 DEF Handler, Walked
    <3> QED BY <3>1, <3>2
  <2>8. LoadComesFirst' /\ Passed'
    <3>1. \/ t = Attacher /\ ph \in {"post_load", "pre_destroy"}
          \/ t \in Threads /\ ph = "post_unpack"
      BY <1>1, <1>2, WhoCalls DEF Handlers
    <3>2. ph = "post_load" => pc[Attacher] = "post_load"
      BY <1>1, <3>1
    <3>3. ph = "post_unpack" => LoadEnded
      BY <1>1, <3>1 DEF LoadComesFirst
    <3>4. "post_load" \in Handlers /\ "post_unpack" \in Handlers
      BY DEF Handlers
    <3> QED BY <1>3, <2>3, <3>2, <3>3, <3>4 DEF Handler, LoadComesFirst, LoadEnded, Passed
  <2> QED BY <2>5, <2>6, <2>7, <2>8
<1>4. CASE Finish(ph, "false") /\ UNCHANGED <<reached, done>>
  <2>1. Shape' /\ StillActivating'
    BY <1>1, <1>2, <1>4 DEF Handler, Finish, Shape, StillActivating
  <2>2. Sorted'
    BY <1>4 DEF Handler, Sorted, Ordered
  <2>3. ASSUME NEW h \in Handlers PROVE Walked(h)'
    BY <1>1, <1>4 DEF Handler, Finish, Walked, Shape, Phases
  <2>4. LoadComesFirst' /\ Passed'
    BY <1>1, <1>4 DEF Handler, Finish, LoadComesFirst, LoadEnded, Passed, Shape, Phases, Handlers
  <2> QED BY <2>1, <2>2, <2>3, <2>4
<1>5. \/ /\ reached' = [reached EXCEPT ![ph] = @ + 1]
         /\ done' = [done EXCEPT ![ph] = Append(@, components[reached[ph]])]
         /\ UNCHANGED status
      \/ Finish(ph, "false") /\ UNCHANGED <<reached, done>>
  BY DEF Handler
<1> QED BY <1>3, <1>4, <1>5

(* The callers do not touch the loader.                                     *)
LEMMA CallersInvariant ==
  ASSUME LoaderInv,
         \/ AttachGoesOn \/ LoadImage \/ SplashGoesOn \/ Exit \/ ExitEnds
         \/ \E t \in Threads : EnterHook(t) \/ HookGoesOn(t)
  PROVE  LoaderInv'
<1> USE DEF LoaderInv
<1>1. UNCHANGED loader
  BY DEF AttachGoesOn, LoadImage, SplashGoesOn, Exit, ExitEnds, EnterHook, HookGoesOn
<1>2. Sorted' /\ \A h \in Handlers : Walked(h)'
  BY <1>1 DEF loader, Sorted, Ordered, Walked
<1>3. CASE AttachGoesOn
  <2>1. Shape'
    BY <1>1, <1>3, LoaderAssumption DEF AttachGoesOn, Goto, Ended, loader, Shape, Callers
  <2>2. StillActivating' /\ Passed'
    BY <1>1, <1>3, LoaderAssumption DEF AttachGoesOn, Goto, Ended, loader, Shape, StillActivating, Passed, Callers
  <2>3. LoadComesFirst'
    BY <1>1, <1>3, LoaderAssumption
       DEF AttachGoesOn, Goto, Ended, loader, Shape, StillActivating, LoadComesFirst, LoadEnded, Callers, Handlers
  <2> QED BY <1>2, <2>1, <2>2, <2>3
<1>4. CASE LoadImage \/ SplashGoesOn \/ ExitEnds
  BY <1>1, <1>2, <1>4
     DEF LoadImage, SplashGoesOn, ExitEnds, loader, Shape, StillActivating, Passed, LoadComesFirst, LoadEnded
<1>5. CASE Exit
  BY <1>1, <1>2, <1>5, LoaderAssumption
     DEF Exit, Goto, loader, Shape, StillActivating, Passed, LoadComesFirst, LoadEnded, Callers
<1>6. ASSUME NEW t \in Threads, EnterHook(t) PROVE LoaderInv'
  <2>1. t # Attacher /\ t \in Callers /\ pc[Attacher] \in {"back", "pre_destroy"}
    BY <1>6, LoaderAssumption DEF EnterHook, Callers, Shape
  <2>2. done["post_load"] # <<>>
    BY <1>6 DEF EnterHook, ToSet
  <2>3. LoadEnded
    BY <2>1, <2>2 DEF LoadComesFirst
  <2> QED BY <1>1, <1>2, <1>6, <2>1, <2>3
          DEF EnterHook, Goto, loader, Shape, StillActivating, Passed, LoadComesFirst, LoadEnded
<1>7. ASSUME NEW t \in Threads, HookGoesOn(t) PROVE LoaderInv'
  <2>1. t # Attacher /\ t \in Callers /\ pc[Attacher] # "activate" /\ pc[t] = "post_unpack"
    BY <1>7, LoaderAssumption DEF HookGoesOn, Ended, Callers, StillActivating
  <2>2. LoadEnded
    BY <2>1 DEF LoadComesFirst
  <2>3. \/ UNCHANGED pc
        \/ status["post_unpack"] = "true" /\ pc' = [pc EXCEPT ![t] = "back"]
    BY <1>7 DEF HookGoesOn, Goto
  <2>4. splash' = splash
    BY <1>7 DEF HookGoesOn
  <2>5. Shape' /\ StillActivating'
    <3>1. /\ pc' \in [Callers -> {"activate", "post_load", "post_unpack", "pre_destroy", "out", "back"}]
          /\ pc'[Attacher] = pc[Attacher]
      <4> DEFINE Places == {"activate", "post_load", "post_unpack", "pre_destroy", "out", "back"}
      <4>1. pc \in [Callers -> Places] /\ "back" \in Places /\ Attacher \in Callers
        BY DEF Shape, Callers
      <4> HIDE DEF Places, LoaderInv
      <4>2. pc' \in [Callers -> Places] /\ pc'[Attacher] = pc[Attacher]
        BY <2>1, <2>3, <4>1
      <4> QED BY <4>2 DEF Places
    <3>2. \A u \in Threads : pc'[u] \in {"out", "post_unpack", "back"}
      BY <2>1, <2>3 DEF Shape, Callers
    <3>3. Shape'
      BY <1>1, <3>1, <3>2 DEF loader, Shape
    <3> QED BY <1>1, <2>1, <3>1, <3>3 DEF loader, StillActivating
  <2>6. LoadComesFirst'
    BY <1>1, <2>1, <2>2, <2>3 DEF loader, Shape, LoadComesFirst, LoadEnded
  <2>7. Passed'
    BY <1>1, <2>1, <2>3, <2>4 DEF loader, Shape, Passed
  <2> QED BY <1>2, <2>5, <2>6, <2>7
<1> QED BY <1>3, <1>4, <1>5, <1>6, <1>7

THEOREM Invariant == LoaderSpec => []LoaderInv
<1>1. LoaderInv /\ [LoaderNext]_loaderVars => LoaderInv'
  <2> SUFFICES ASSUME LoaderInv, [LoaderNext]_loaderVars PROVE LoaderInv'
    OBVIOUS
  <2>1. CASE UNCHANGED loaderVars
    BY <2>1 DEF loaderVars, loader, LoaderInv, Shape, StillActivating, Sorted, Ordered, Walked, LoadComesFirst, LoadEnded, Passed
  <2>2. ASSUME NEW t \in Callers, Work(t) PROVE LoaderInv'
    BY <2>2, BeginInvariant, EndInvariant, ActivateInvariant, HandlerInvariant DEF Work
  <2> QED BY <2>1, <2>2, CallersInvariant DEF LoaderNext
<1> QED BY InitInvariant, <1>1, PTL DEF LoaderSpec

------------------------------------------------------------------------------
(* The theorems. *)

(* Activating the components one by one sorts them, equal ones as they have *)
(* registered, and the phases call them in that order and each of them once.*)
THEOREM LoaderKeepsOrder == LoaderSpec => []PhasesFollowTheOrder
<1>1. LoaderInv => PhasesFollowTheOrder
  <2> SUFFICES ASSUME LoaderInv PROVE PhasesFollowTheOrder
    OBVIOUS
  <2> USE DEF LoaderInv
  <2>1. \A i, j \in DOMAIN components : i < j => ComesFirst(components[i], components[j])
    <3>1. DOMAIN components = 1..Len(components)
      BY DEF Shape
    <3> QED BY <3>1 DEF Sorted, Ordered
  <2>2. ASSUME NEW ph \in Handlers PROVE IsPrefix(done[ph], components)
    <3>1. /\ done[ph] \in Seq(Components) /\ components \in Seq(Components)
          /\ Len(done[ph]) <= Len(components)
          /\ \A i \in 1..Len(done[ph]) : done[ph][i] = components[i]
      BY DEF Shape, Walked, Phases
    <3> QED BY <3>1, SamePrefix
  <2> QED BY <2>1, <2>2 DEF PhasesFollowTheOrder
<1> QED BY Invariant, <1>1, PTL

(* What a walk has called when it has come to its end.                      *)
LEMMA WalkedAll ==
  ASSUME LoaderInv, NEW ph \in Handlers, status[ph] = "true"
  PROVE  done[ph] = components
<1>1. /\ done[ph] \in Seq(Components) /\ components \in Seq(Components)
      /\ Len(done[ph]) = Len(components)
      /\ \A i \in 1..Len(done[ph]) : done[ph][i] = components[i]
  BY DEF LoaderInv, Shape, Walked, Phases
<1> QED BY <1>1, SamePrefix

(* Unpacking comes after a loading that has called everybody or has failed. *)
THEOREM LoadingComesBeforeUnpacking == LoaderSpec => []PhasesFollowEachOther
<1>1. LoaderInv => PhasesFollowEachOther
  <2> SUFFICES ASSUME LoaderInv, done["post_unpack"] # <<>> PROVE status["post_load"] = "false" \/ done["post_load"] = components
    BY DEF PhasesFollowEachOther
  <2>1. status["post_load"] \in {"true", "false"} /\ "post_load" \in Handlers
    BY DEF LoaderInv, LoadComesFirst, LoadEnded, Handlers
  <2> QED BY <2>1, WalkedAll
<1> QED BY Invariant, <1>1, PTL

(* Nobody passes the hook, or shows the splash image, before the unpacking  *)
(* has called everybody.                                                    *)
THEOREM HookHoldsEverybodyBack == LoaderSpec => []NobodyPassesEarly
<1>1. LoaderInv => NobodyPassesEarly
  <2> SUFFICES ASSUME LoaderInv, splash = "shown" \/ \E t \in Threads : pc[t] = "back"
               PROVE  done["post_unpack"] = components
    BY DEF NobodyPassesEarly
  <2>1. status["post_unpack"] = "true" /\ "post_unpack" \in Handlers
    BY DEF LoaderInv, Passed, Handlers
  <2> QED BY <2>1, WalkedAll
<1> QED BY Invariant, <1>1, PTL

------------------------------------------------------------------------------
(* iw4: the settings and the file. *)

\* The inputs whose bind the load that is under way, or the last one, has read.
ReadSoFar ==
  {Order[n] : n \in {m \in 1..Len(Order) : loading = 0 \/ m < loading - 1}} \ Triggers

(* Unless the user has written the file since its time was taken, what has *)
(* been read of it is what it says.                                        *)
LoadIInv ==
  /\ loading \in 0..Len(Order) + 1
  /\ DOMAIN bind = Inputs \ Triggers /\ bind = [i \in DOMAIN bind |-> bind[i]]
  /\ file \in Files
  /\ ~fresh /\ file # Missing => \A i \in ReadSoFar : bind[i] = file.bind[i]

LEMMA BindsAreFunctions ==
  ASSUME NEW b \in Binds
  PROVE  DOMAIN b = Inputs \ Triggers /\ b = [i \in DOMAIN b |-> b[i]]
BY ProbeAssumption

LEMMA LoadBindReads ==
  ASSUME LoadIInv, LoadBind
  PROVE  LoadIInv'
<1> DEFINE n == loading - 1
           i == Order[n]
<1>1. Len(Order) \in Nat
  BY ProbeAssumption
<1>2. n \in 1..Len(Order) /\ UNCHANGED <<file, fresh>>
  BY <1>1 DEF LoadBind, LoadIInv, disk
<1>3. /\ loading' \in 0..Len(Order) + 1
      /\ \A m \in 1..Len(Order) :
           loading' = 0 \/ m < loading' - 1 => m < loading - 1 \/ m = n
  BY <1>1, <1>2 DEF LoadBind, LoadIInv
<1>4. \A j \in ReadSoFar' : j \in ReadSoFar \/ (j = i /\ j \notin Triggers)
  BY <1>3 DEF ReadSoFar
<1>5. CASE i \in Triggers
  <2>1. bind' = bind
    BY <1>5 DEF LoadBind
  <2> QED BY <1>2, <1>3, <1>4, <1>5, <2>1 DEF LoadIInv
<1>6. CASE i \notin Triggers
  <2>1. bind' = [bind EXCEPT ![i] = IF file = Missing THEN DefaultBind[i] ELSE file.bind[i]]
    BY <1>6 DEF LoadBind, Assigned
  <2>2. i \in DOMAIN bind
    BY <1>2, <1>6, ProbeAssumption DEF LoadIInv, Inputs, ToSet
  <2> HIDE DEF i
  <2>3. DOMAIN bind' = DOMAIN bind /\ bind' = [j \in DOMAIN bind' |-> bind'[j]]
    BY <2>1
  <2>4. ~fresh /\ file # Missing => \A j \in ReadSoFar' : bind'[j] = file.bind[j]
    <3> SUFFICES ASSUME ~fresh, file # Missing, NEW j \in ReadSoFar'
                 PROVE  bind'[j] = file.bind[j]
      OBVIOUS
    <3>1. CASE j = i
      BY <2>1, <2>2, <3>1
    <3>2. CASE j # i
      BY <1>4, <2>1, <3>2 DEF LoadIInv
    <3> QED BY <3>1, <3>2
  <2> QED BY <1>2, <1>3, <2>3, <2>4 DEF LoadIInv
<1> QED BY <1>5, <1>6

LEMMA OthersLoadNothing ==
  ASSUME LoadIInv,
         Poll \/ CheckSettings \/ WriteDefaultIni \/ LoadNumbers \/ Edit \/ SwitchWindow \/ Quit
           \/ UNCHANGED vars
  PROVE  LoadIInv'
<1>1. CASE Poll \/ SwitchWindow \/ Quit \/ UNCHANGED vars
  BY <1>1 DEF Poll, SwitchWindow, Quit, vars, config, disk, LoadIInv, ReadSoFar
<1>2. CASE CheckSettings \/ WriteDefaultIni
  <2>1. bind' = bind /\ loading' = 1 /\ file' \in Files
    <3>1. [bind |-> DefaultBind, valid |-> TRUE] \in Files
      BY ProbeAssumption DEF Files
    <3>2. file' = file \/ file' = [bind |-> DefaultBind, valid |-> TRUE]
      BY <1>2 DEF CheckSettings, WriteDefaultIni
    <3>3. bind' = bind /\ loading' = 1
      BY <1>2 DEF CheckSettings, WriteDefaultIni
    <3> QED BY <3>1, <3>2, <3>3 DEF LoadIInv
  <2>2. ReadSoFar' = {}
    <3>1. \A m \in 1..Len(Order) : ~(m < 1 - 1)
      BY ProbeAssumption
    <3> QED BY <2>1, <3>1 DEF ReadSoFar
  <2>3. Len(Order) \in Nat \ {0}
    BY ProbeAssumption
  <2> QED BY <2>1, <2>2, <2>3 DEF LoadIInv
<1>3. CASE LoadNumbers
  <2>1. UNCHANGED <<bind, file, fresh>> /\ loading = 1 /\ loading' \in {1, 2}
    BY <1>3 DEF LoadNumbers, disk
  <2>2. ReadSoFar' = {}
    <3>1. \A m \in 1..Len(Order) : ~(m < 1 - 1) /\ ~(m < 2 - 1)
      BY ProbeAssumption
    <3>2. CASE loading' = 1
      BY <3>1, <3>2 DEF ReadSoFar
    <3>3. CASE loading' = 2
      BY <3>1, <3>3 DEF ReadSoFar
    <3> QED BY <2>1, <3>2, <3>3
  <2>3. Len(Order) \in Nat \ {0}
    BY ProbeAssumption
  <2> QED BY <2>1, <2>2, <2>3 DEF LoadIInv
<1>4. CASE Edit
  BY <1>4 DEF Edit, config, LoadIInv, ReadSoFar
<1> QED BY <1>1, <1>2, <1>3, <1>4

(* An edit in the middle of a load, or of the writing of the default file,  *)
(* is read by the next check: no load leaves a mixture of two files behind  *)
(* that would be taken for up to date (settings.cpp:130-145).               *)
THEOREM EveryEditIsRead == Spec => []SettingsAreTheFiles
<1>1. Init => LoadIInv
  <2> SUFFICES ASSUME Init PROVE LoadIInv
    OBVIOUS
  <2>1. DOMAIN bind = Inputs \ Triggers /\ bind = [i \in DOMAIN bind |-> bind[i]]
    BY BindsAreFunctions, ProbeAssumption DEF Init
  <2> QED BY <2>1, ProbeAssumption DEF Init, LoadIInv
<1>2. LoadIInv /\ [Next]_vars => LoadIInv'
  BY LoadBindReads, OthersLoadNothing DEF Next, Pipeline
<1>3. LoadIInv => SettingsAreTheFiles
  <2> SUFFICES ASSUME LoadIInv, loading = 0, ~fresh, file # Missing
               PROVE  bind = file.bind
    BY DEF SettingsAreTheFiles
  <2>1. file.bind \in Binds
    BY DEF LoadIInv, Files
  <2>2. DOMAIN file.bind = Inputs \ Triggers /\ file.bind = [i \in DOMAIN file.bind |-> file.bind[i]]
    BY <2>1, BindsAreFunctions
  <2>3. ReadSoFar = Inputs \ Triggers
    BY ProbeAssumption DEF ReadSoFar, Inputs, ToSet
  <2> QED BY <2>2, <2>3 DEF LoadIInv
<1> QED BY <1>1, <1>2, <1>3, PTL DEF Spec

------------------------------------------------------------------------------
(* iw4: the B button. *)

(* A press that is going on began on the active pad.                       *)
PressIInv == tapped \in BOOLEAN /\ (button.down => since = active)

LEMMA ApplyMeansOneThing ==
  ASSUME PressIInv, NEW p, NEW pad, NEW elapsed, Apply(p, pad, elapsed)
  PROVE  /\ PressIInv'
         /\ tapped' # tapped => /\ button.down /\ ~button.hold
                               /\ since = active /\ active' = active
<1> DEFINE b == IF active # p THEN Up ELSE button
           tap == ~pad.b /\ b.down /\ ~b.hold
<1>1. /\ button' = IF pad.b THEN Pressed(b, elapsed) ELSE Up
      /\ active' = p
      /\ tapped' = (tapped # tap)
      /\ since' = IF ~pad.b THEN XUSER_MAX_COUNT ELSE IF b.down THEN since ELSE p
  BY DEF Apply
<1>2. b.down => active = p /\ b = button
  BY DEF Up
<1>3. tapped' \in BOOLEAN /\ (tapped' # tapped => tap)
  BY <1>1 DEF PressIInv
<1>4. button'.down => since' = active'
  BY <1>1, <1>2 DEF PressIInv, Up
<1> QED BY <1>1, <1>2, <1>3, <1>4 DEF PressIInv

(* What ends as a tap of C was a press on the pad that is active and has    *)
(* not been a hold, whatever pads come and go (xinput_probe.cpp:307-339).   *)
THEOREM EveryPressMeansOneThing == Spec => OnePressOneMeaning
<1> DEFINE Meaning == tapped' # tapped => /\ button.down /\ ~button.hold
                                        /\ since = active /\ active' = active
<1>1. Init => PressIInv
  BY DEF Init, PressIInv, Up
<1>2. PressIInv /\ [Next]_vars => PressIInv' /\ Meaning
  <2> SUFFICES ASSUME PressIInv, [Next]_vars PROVE PressIInv' /\ Meaning
    OBVIOUS
  <2>1. CASE Poll
    <3>1. CASE ReleaseAll
      BY <3>1 DEF ReleaseAll, PressIInv, Up
    <3>2. ASSUME NEW p \in Pads, NEW pad \in PadStates, NEW elapsed \in 1..Threshold,
                 Apply(p, pad, elapsed)
          PROVE  PressIInv' /\ Meaning
      BY <3>2, ApplyMeansOneThing
    <3> QED BY <2>1, <3>1, <3>2 DEF Poll
  <2>2. CASE UNCHANGED probe
    BY <2>2 DEF probe, PressIInv
  <2>3. CASE CheckSettings \/ WriteDefaultIni \/ LoadNumbers \/ LoadBind \/ Edit \/ SwitchWindow
               \/ Quit \/ UNCHANGED vars
    BY <2>2, <2>3 DEF CheckSettings, WriteDefaultIni, LoadNumbers, LoadBind, Edit, SwitchWindow,
                      Quit, vars
  <2> QED BY <2>1, <2>3 DEF Next, Pipeline
<1> QED BY <1>1, <1>2, PTL DEF Spec, OnePressOneMeaning

------------------------------------------------------------------------------
(* iw4: the keys. *)

(* What accounts for a key that is down, and what a held input asks for.   *)
Owed(inputs, hold) == {KeyOf(i) : i \in inputs} \cup strayed \cup {k \in {Ctrl} : hold}
Good(keys, inputs, hold) ==
  /\ \A i \in inputs : KeyOf(i) \in keys \cup mixed
  /\ hold => Ctrl \in keys \cup mixed

KeyTypes ==
  /\ button.hold => button.down
  /\ down \subseteq Inputs
  /\ bind \in [Inputs \ Triggers -> Keys]
  /\ loading \in 0..Len(Order) + 1
  /\ file \in Files

KeysIInv ==
  /\ KeyTypes
  /\ Shared(bind) \subseteq mixed
  /\ keyboard \subseteq Owed(down, button.hold)
  /\ Good(keyboard, down, button.hold)

LEMMA InputsOfOrder ==
  /\ \A n \in 1..Len(Order) : Order[n] \in Inputs
  /\ \A i \in Inputs : \E n \in 1..Len(Order) : Order[n] = i
BY ProbeAssumption DEF Inputs, ToSet

(* A key that is down after the events of a poll was pressed by one of them, *)
(* or was down and has not been released.                                  *)
LEMMA DownAfterEvents ==
  ASSUME NEW keys, NEW from, from \subseteq Inputs, NEW to, NEW k \in SetStates(keys, from, to)
  PROVE  \/ \E i \in to \ from : KeyOf(i) = k
         \/ k \in keys /\ \A i \in from \ to : KeyOf(i) # k
<1> DEFINE sends(inputs) == {n \in 1..Len(Order) : Order[n] \in inputs /\ KeyOf(Order[n]) = k}
<1>1. /\ k \in keys \/ \E i \in to \ from : KeyOf(i) = k
      /\ \A n \in sends(from \ to) : \E m \in sends(to \ from) : n < m
  BY DEF SetStates
<1>2. SUFFICES ASSUME NEW i \in from \ to, KeyOf(i) = k
               PROVE  \E j \in to \ from : KeyOf(j) = k
  BY <1>1
<1>3. PICK n \in 1..Len(Order) : Order[n] = i
  BY InputsOfOrder
<1>4. PICK m \in sends(to \ from) : n < m
  BY <1>1, <1>2, <1>3
<1> QED BY <1>4

(* And a key that none of them releases is down if it was or is pressed.   *)
LEMMA DownWithoutRelease ==
  ASSUME NEW keys, NEW from, NEW to, NEW k,
         \A i \in from \ to : i \in Inputs => KeyOf(i) # k,
         k \in keys \/ \E i \in to \ from : KeyOf(i) = k
  PROVE  k \in SetStates(keys, from, to)
BY InputsOfOrder DEF SetStates

(* Only what is on record as mixed has two sources.                        *)
LEMMA OneSource ==
  ASSUME KeyTypes, Shared(bind) \subseteq mixed, NEW k, k \notin mixed
  PROVE  /\ \A i, j \in Inputs : KeyOf(i) = k /\ KeyOf(j) = k => i = j
         /\ k \in {Ctrl, C} => \A i \in Inputs : KeyOf(i) # k
<1>1. \A i \in Inputs \ Triggers : bind[i] \in Keys /\ bind[i] \notin Triggers
  BY ProbeAssumption DEF KeyTypes
<1>2. DOMAIN bind = Inputs \ Triggers
  BY DEF KeyTypes
<1>3. \A i, j \in Inputs \ Triggers : bind[i] = k /\ bind[j] = k => i = j
  BY <1>2 DEF Shared
<1>4. k \in {Ctrl, C} => \A i \in Inputs \ Triggers : bind[i] # k
  BY <1>2 DEF Shared
<1>5. Ctrl \notin Triggers /\ C \notin Triggers
  BY ProbeAssumption
<1> QED BY <1>1, <1>3, <1>4, <1>5 DEF KeyOf

LEMMA EventsAreOwed ==
  ASSUME NEW keys, NEW from, from \subseteq Inputs, NEW to, NEW hold,
         keys \subseteq Owed(from, hold)
  PROVE  SetStates(keys, from, to) \subseteq Owed(to, hold)
<1> SUFFICES ASSUME NEW k \in SetStates(keys, from, to) PROVE k \in Owed(to, hold)
  OBVIOUS
<1>1. CASE \E i \in to \ from : KeyOf(i) = k
  BY <1>1 DEF Owed
<1>2. CASE k \in keys /\ \A i \in from \ to : KeyOf(i) # k
  <2>1. k \in Owed(from, hold)
    BY <1>2
  <2>2. CASE \E i \in from : KeyOf(i) = k
    BY <1>2, <2>2 DEF Owed
  <2>3. CASE ~\E i \in from : KeyOf(i) = k
    BY <2>1, <2>3 DEF Owed
  <2> QED BY <2>2, <2>3
<1> QED BY <1>1, <1>2, DownAfterEvents

LEMMA EventsAreGood ==
  ASSUME KeyTypes, Shared(bind) \subseteq mixed,
         NEW keys, NEW from, from \subseteq Inputs, NEW to, to \subseteq Inputs, NEW hold,
         Good(keys, from, hold)
  PROVE  Good(SetStates(keys, from, to), to, hold)
<1>1. ASSUME NEW i \in to PROVE KeyOf(i) \in SetStates(keys, from, to) \cup mixed
  <2> SUFFICES ASSUME KeyOf(i) \notin mixed PROVE KeyOf(i) \in SetStates(keys, from, to)
    OBVIOUS
  <2>1. \A j \in from \ to : KeyOf(j) # KeyOf(i)
    BY OneSource
  <2>2. KeyOf(i) \in keys \/ i \in to \ from
    BY DEF Good
  <2> QED BY <2>1, <2>2, DownWithoutRelease
<1>2. ASSUME hold PROVE Ctrl \in SetStates(keys, from, to) \cup mixed
  <2> SUFFICES ASSUME Ctrl \notin mixed PROVE Ctrl \in SetStates(keys, from, to)
    OBVIOUS
  <2>1. \A j \in Inputs : KeyOf(j) # Ctrl
    BY OneSource
  <2>2. Ctrl \in keys
    BY <1>2 DEF Good
  <2> QED BY <2>1, <2>2, DownWithoutRelease
<1> QED BY <1>1, <1>2 DEF Good

LEMMA ReleaseIsOwed ==
  ASSUME KeysIInv
  PROVE  Released(keyboard) \subseteq Owed({}, FALSE)
<1>1. SetStates(keyboard, down, {}) \subseteq Owed({}, button.hold)
  BY EventsAreOwed DEF KeysIInv, KeyTypes
<1> QED BY <1>1 DEF Released, Send, Owed

(* What the B button adds and takes away.                                  *)
LEMMA ButtonIsOwed ==
  ASSUME NEW keys, NEW b, b.hold => b.down, NEW pressed \in BOOLEAN, NEW elapsed, NEW inputs,
         NEW after, after = (IF pressed THEN Pressed(b, elapsed) ELSE Up),
         keys \subseteq Owed(inputs, b.hold)
  PROVE  ButtonKeys(keys, b, pressed, after) \subseteq Owed(inputs, after.hold)
<1>1. CASE pressed
  <2>1. b.hold => after.hold
    BY <1>1 DEF Pressed
  <2> QED BY <1>1, <2>1 DEF ButtonKeys, Send, Owed
<1>2. CASE ~pressed
  <2>1. ~after.hold
    BY <1>2 DEF Up
  <2>2. /\ ButtonKeys(keys, b, pressed, after) \subseteq keys
        /\ b.hold => Ctrl \notin ButtonKeys(keys, b, pressed, after)
    BY <1>2 DEF ButtonKeys, Send
  <2> QED BY <2>1, <2>2 DEF Owed
<1> QED BY <1>1, <1>2

LEMMA ButtonIsGood ==
  ASSUME KeyTypes, Shared(bind) \subseteq mixed,
         NEW keys, NEW b, NEW pressed \in BOOLEAN, NEW elapsed, NEW inputs, inputs \subseteq Inputs,
         NEW after, after = (IF pressed THEN Pressed(b, elapsed) ELSE Up),
         Good(keys, inputs, b.hold)
  PROVE  Good(ButtonKeys(keys, b, pressed, after), inputs, after.hold)
<1>1. CASE pressed
  <2>1. /\ keys \subseteq ButtonKeys(keys, b, pressed, after)
        /\ after.hold /\ ~b.hold => Ctrl \in ButtonKeys(keys, b, pressed, after)
    BY <1>1 DEF ButtonKeys, Send
  <2> QED BY <2>1 DEF Good
<1>2. CASE ~pressed
  <2>1. ~after.hold
    BY <1>2 DEF Up
  <2>2. \A k \in keys : k \in ButtonKeys(keys, b, pressed, after) \/ k \in {Ctrl, C}
    BY <1>2 DEF ButtonKeys, Send
  <2>3. ASSUME NEW i \in inputs
        PROVE  KeyOf(i) \in ButtonKeys(keys, b, pressed, after) \cup mixed
    <3>1. KeyOf(i) \in {Ctrl, C} => KeyOf(i) \in mixed
      BY OneSource
    <3> QED BY <2>2, <3>1 DEF Good
  <2> QED BY <2>1, <2>3 DEF Good
<1> QED BY <1>1, <1>2

(* A poll that finds a pad, the one of before or another one.              *)
LEMMA ApplyKeepsKeys ==
  ASSUME KeysIInv, NEW p, NEW pad \in PadStates, NEW elapsed, Apply(p, pad, elapsed),
         UNCHANGED <<bind, strayed, mixed, loading, file>>
  PROVE  KeysIInv'
<1> DEFINE switch == active # p
           keys == IF switch THEN Released(keyboard) ELSE keyboard
           held == IF switch THEN {} ELSE down
           b == IF switch THEN Up ELSE button
           after == IF pad.b THEN Pressed(b, elapsed) ELSE Up
           sent == SetStates(keys, held, pad.held)
<1>1. /\ keyboard' = ButtonKeys(sent, b, pad.b, after)
      /\ down' = pad.held /\ button' = after
  BY DEF Apply
<1>2. pad.held \subseteq Inputs /\ pad.b \in BOOLEAN
  BY DEF PadStates
<1>3. KeyTypes /\ Shared(bind) \subseteq mixed
  BY DEF KeysIInv
<1>4. /\ held \subseteq Inputs /\ (b.hold => b.down)
      /\ keys \subseteq Owed(held, b.hold) /\ Good(keys, held, b.hold)
  <2>1. CASE switch
    <3>1. keys = Released(keyboard) /\ held = {} /\ b = Up /\ ~Up.hold
      BY <2>1 DEF Up
    <3>2. Released(keyboard) \subseteq Owed({}, FALSE)
      BY ReleaseIsOwed
    <3>3. Owed({}, FALSE) \subseteq Owed({}, Up.hold)
      BY <3>1 DEF Owed
    <3>4. Good(Released(keyboard), {}, Up.hold)
      BY <3>1 DEF Good
    <3> QED BY <3>1, <3>2, <3>3, <3>4
  <2>2. CASE ~switch
    BY <2>2 DEF KeysIInv, KeyTypes
  <2> QED BY <2>1, <2>2
<1> HIDE DEF keys, held, b
<1>5. sent \subseteq Owed(pad.held, b.hold) /\ Good(sent, pad.held, b.hold)
  BY <1>2, <1>3, <1>4, EventsAreOwed, EventsAreGood
<1> HIDE DEF sent
<1>6. after = IF pad.b THEN Pressed(b, elapsed) ELSE Up
  OBVIOUS
<1>7. after.hold => after.down
  BY DEF Pressed, Up
<1> HIDE DEF after
<1>8. /\ ButtonKeys(sent, b, pad.b, after) \subseteq Owed(pad.held, after.hold)
      /\ Good(ButtonKeys(sent, b, pad.b, after), pad.held, after.hold)
  BY <1>2, <1>3, <1>4, <1>5, <1>6, ButtonIsOwed, ButtonIsGood
<1>9. \A i : KeyOf(i)' = KeyOf(i)
  BY DEF KeyOf
<1>10. KeyTypes'
  BY <1>1, <1>2, <1>3, <1>7 DEF KeyTypes
<1>11. keyboard' \subseteq Owed(down, button.hold)' /\ Good(keyboard, down, button.hold)'
  BY <1>1, <1>8, <1>9 DEF Owed, Good
<1> QED BY <1>3, <1>10, <1>11 DEF KeysIInv

LEMMA PollKeepsKeys ==
  ASSUME KeysIInv, Poll
  PROVE  KeysIInv'
<1>1. UNCHANGED <<bind, strayed, mixed, loading, file>>
  BY DEF Poll, config, disk
<1>2. CASE ReleaseAll
  <2>1. keyboard' = Released(keyboard) /\ down' = {} /\ button' = Up /\ ~Up.hold
    BY <1>2 DEF ReleaseAll, Up
  <2>2. keyboard' \subseteq strayed
    BY <2>1, ReleaseIsOwed DEF Owed
  <2>3. KeyTypes'
    BY <1>1, <2>1 DEF KeysIInv, KeyTypes
  <2> QED BY <1>1, <2>1, <2>2, <2>3 DEF KeysIInv, Owed, Good
<1>3. ASSUME NEW p \in Pads, NEW pad \in PadStates, NEW elapsed \in 1..Threshold,
             Apply(p, pad, elapsed)
      PROVE  KeysIInv'
  BY <1>1, <1>3, ApplyKeepsKeys
<1> QED BY <1>2, <1>3 DEF Poll

(* A bind that changes under a held input leaves a stray key and a mixed one. *)
LEMMA LoadBindKeepsKeys ==
  ASSUME KeysIInv, LoadBind
  PROVE  KeysIInv'
<1>1. /\ UNCHANGED <<down, button, keyboard, file>> /\ loading' \in 0..Len(Order) + 1
      /\ loading - 1 \in 1..Len(Order)
  BY ProbeAssumption DEF LoadBind, KeysIInv, KeyTypes, probe, disk
<1>2. PICK i \in Inputs : i = Order[loading - 1]
  BY <1>1, InputsOfOrder
<1>3. PICK key : key = IF file = Missing THEN DefaultBind[i] ELSE file.bind[i]
  OBVIOUS
<1>4. CASE i \in Triggers
  <2>1. UNCHANGED <<bind, strayed, mixed>>
    BY <1>2, <1>4 DEF LoadBind
  <2> QED BY <1>1, <2>1 DEF KeysIInv, KeyTypes, Owed, Good, KeyOf
<1>5. CASE i \notin Triggers
  <2>1. /\ bind' = [bind EXCEPT ![i] = key]
        /\ strayed' = IF i \in down /\ key # bind[i] THEN strayed \cup {bind[i]} ELSE strayed
        /\ mixed' = mixed \cup Shared(bind') \cup (IF i \in down /\ key # bind[i] THEN {key} ELSE {})
    BY <1>2, <1>3, <1>5 DEF LoadBind, Assigned
  <2>2. key \in Keys
    <3>1. file # Missing => file.bind \in Binds
      BY DEF KeysIInv, KeyTypes, Files
    <3> QED BY <1>2, <1>3, <1>5, <3>1, ProbeAssumption
  <2>3. bind \in [Inputs \ Triggers -> Keys]
    BY DEF KeysIInv, KeyTypes
  <2>4. bind' \in [Inputs \ Triggers -> Keys]
    BY <2>1, <2>2, <2>3
  <2>5. KeyTypes'
    BY <1>1, <2>4 DEF KeysIInv, KeyTypes
  <2>6. /\ \A j \in Inputs : j # i => KeyOf(j)' = KeyOf(j)
        /\ KeyOf(i)' = key /\ KeyOf(i) = bind[i]
    <3>1. bind'[i] = key /\ \A j \in Inputs \ Triggers : j # i => bind'[j] = bind[j]
      BY <1>2, <1>5, <2>1, <2>3
    <3> QED BY <1>2, <1>5, <3>1 DEF KeyOf
  <2>7. strayed \subseteq strayed' /\ mixed \subseteq mixed' /\ Shared(bind') \subseteq mixed'
    BY <2>1
  <2>8. ASSUME NEW j \in down
        PROVE  /\ KeyOf(j) \in strayed' \/ KeyOf(j) = KeyOf(j)'
               /\ KeyOf(j)' \in mixed' \/ KeyOf(j) = KeyOf(j)'
    <3>1. j \in Inputs
      BY DEF KeysIInv, KeyTypes
    <3>2. CASE j # i
      BY <2>6, <3>1, <3>2
    <3>3. CASE j = i /\ key # bind[i]
      <4>1. bind[i] \in strayed' /\ key \in mixed'
        BY <2>1, <3>3
      <4> QED BY <2>6, <3>3, <4>1
    <3>4. CASE j = i /\ key = bind[i]
      BY <2>6, <3>4
    <3> QED BY <3>2, <3>3, <3>4
  <2>9. keyboard' \subseteq Owed(down, button.hold)'
    <3> SUFFICES ASSUME NEW k \in keyboard PROVE k \in Owed(down, button.hold)'
      BY <1>1
    <3>1. k \in Owed(down, button.hold)
      BY DEF KeysIInv
    <3>2. CASE \E j \in down : k = KeyOf(j)
      BY <1>1, <2>8, <3>2 DEF Owed
    <3>3. CASE ~\E j \in down : k = KeyOf(j)
      BY <1>1, <2>7, <3>1, <3>3 DEF Owed
    <3> QED BY <3>2, <3>3
  <2>10. Good(keyboard, down, button.hold)'
    BY <1>1, <2>7, <2>8 DEF KeysIInv, Good
  <2> QED BY <2>5, <2>7, <2>9, <2>10 DEF KeysIInv
<1> QED BY <1>4, <1>5

LEMMA OthersKeepKeys ==
  ASSUME KeysIInv,
         CheckSettings \/ WriteDefaultIni \/ LoadNumbers \/ Edit \/ SwitchWindow \/ Quit
           \/ UNCHANGED vars
  PROVE  KeysIInv'
<1>1. UNCHANGED <<down, button, keyboard, bind, strayed, mixed>>
  BY DEF CheckSettings, WriteDefaultIni, LoadNumbers, Edit, SwitchWindow, Quit, vars, probe, config
<1>2. file' \in Files
  <2>1. [bind |-> DefaultBind, valid |-> TRUE] \in Files
    BY ProbeAssumption DEF Files
  <2> QED BY <2>1 DEF CheckSettings, WriteDefaultIni, LoadNumbers, Edit, SwitchWindow, Quit, vars,
                      disk, KeysIInv, KeyTypes
<1>3. loading' \in 0..Len(Order) + 1
  <2>1. Len(Order) \in Nat \ {0} /\ loading \in 0..Len(Order) + 1
    BY ProbeAssumption DEF KeysIInv, KeyTypes
  <2>2. loading' = loading \/ loading' = 1 \/ loading' = 2
    BY DEF CheckSettings, WriteDefaultIni, LoadNumbers, Edit, SwitchWindow, Quit, vars, config
  <2> QED BY <2>1, <2>2
<1> QED BY <1>1, <1>2, <1>3 DEF KeysIInv, KeyTypes, Owed, Good, KeyOf

LEMMA KeysAreInvariant == Spec => []KeysIInv
<1>1. Init => KeysIInv
  <2> SUFFICES ASSUME Init PROVE KeysIInv
    OBVIOUS
  <2>1. Len(Order) \in Nat
    BY ProbeAssumption
  <2>2. DefaultBind \in [Inputs \ Triggers -> Keys]
    BY ProbeAssumption
  <2>3. KeyTypes
    BY <2>1, <2>2 DEF Init, KeyTypes, Up
  <2> QED BY <2>3 DEF Init, KeysIInv, Owed, Good, Up
<1>2. KeysIInv /\ [Next]_vars => KeysIInv'
  BY PollKeepsKeys, LoadBindKeepsKeys, OthersKeepKeys DEF Next, Pipeline
<1> QED BY <1>1, <1>2, PTL DEF Spec

(* Whatever pads come and go, windows change and ini files are read while   *)
(* inputs are held: a key is left down only for a held input, for the hold  *)
(* of B, or by a bind that changed under a held input                       *)
(* (xinput_probe.cpp:156-220, settings.cpp:108-127).                        *)
THEOREM NoKeyIsStuck == Spec => []NoStuckKeys
<1>1. KeysIInv => NoStuckKeys
  BY DEF KeysIInv, Owed, NoStuckKeys
<1> QED BY <1>1, KeysAreInvariant, PTL

(* And a held input has its key down, if no other input or button has sent  *)
(* that key and its bind has not changed meanwhile.                         *)
THEOREM NoKeyIsMissing == Spec => []HeldKeysAreDown
<1>1. KeysIInv => HeldKeysAreDown
  BY DEF KeysIInv, Good, HeldKeysAreDown
<1> QED BY <1>1, KeysAreInvariant, PTL

------------------------------------------------------------------------------
(* iw5: the keys. *)

(* The hold of the B button belongs to a press of it; what is in flight is *)
(* an input; the binds and the places in Order stay in range.              *)
Bookkeeping ==
  /\ button.hold => button.down
  /\ at \in Nat \ {0} /\ loading \in 0..Len(Order) + 1
  /\ flight \in Inputs \cup {"none"}
  /\ DOMAIN bind = Inputs \ Triggers

IInv == Bookkeeping /\ NothingElseIsDown

(* The keys that something accounts for.                                   *)
Accounted == {KeyOf(i) : i \in Owing} \cup strayed \cup {k \in {Ctrl} : button.hold}

LEMMA OrderHoldsInputs ==
  ASSUME NEW n \in Nat \ {0}, n <= Len(Order)
  PROVE  Order[n] \in Inputs
BY ProbeAssumption DEF Inputs, ToSet

(* Without a change of binds, keys and button, it is enough that no input  *)
(* leaves Owing.                                                           *)
LEMMA OwingGrows ==
  ASSUME NothingElseIsDown, Owing \subseteq Owing',
         UNCHANGED <<keyboard, bind, strayed, button>>
  PROVE  NothingElseIsDown'
<1>1. \A i : KeyOf(i)' = KeyOf(i)
  BY DEF KeyOf
<1> QED BY <1>1 DEF NothingElseIsDown

------------------------------------------------------------------------------
(* xinput_thread. *)

LEMMA ThreadBookkeeping ==
  ASSUME Bookkeeping, XInputThread
  PROVE  Bookkeeping'
<1> USE DEF Bookkeeping
<1>1. CASE PollStarts
  BY <1>1 DEF PollStarts, probe, config
<1>2. CASE SetFlag
  <2>1. Order[at] \in Inputs
    BY <1>2, OrderHoldsInputs DEF SetFlag
  <2> QED BY <1>2, <2>1 DEF SetFlag, config
<1>3. CASE SendKey
  BY <1>3 DEF SendKey, config
<1>4. CASE ReleaseEnds
  BY <1>4 DEF ReleaseEnds, config, Up
<1>5. CASE ApplyEnds
  <2>1. button' = IF seen.pad.b THEN Pressed(button, seen.elapsed) ELSE Up
    BY <1>5 DEF ApplyEnds
  <2>2. UNCHANGED <<config, flight>> /\ at' = 1
    BY <1>5 DEF ApplyEnds
  <2> QED BY <2>1, <2>2 DEF config, Up, Pressed
<1> QED BY <1>1, <1>2, <1>3, <1>4, <1>5 DEF XInputThread

LEMMA ThreadAccounts ==
  ASSUME IInv, XInputThread
  PROVE  NothingElseIsDown'
<1> USE DEF IInv
<1>1. CASE PollStarts
  <2>1. UNCHANGED <<down, flight, keyboard, bind, strayed, button>>
    BY <1>1 DEF PollStarts, probe, config
  <2> QED BY <2>1, OwingGrows DEF Owing
<1>2. CASE SetFlag
  <2>1. UNCHANGED <<keyboard, bind, strayed, button>>
    BY <1>2 DEF SetFlag, config
  <2>2. Order[at] # "none"
    BY <1>2, OrderHoldsInputs, NoneIsNoInput DEF SetFlag, Bookkeeping
  <2>3. Owing \subseteq Owing'
    BY <1>2, <2>2 DEF SetFlag, Owing
  <2> QED BY <2>1, <2>3, OwingGrows
<1>3. CASE SendKey
  <2>1. UNCHANGED <<down, bind, strayed, button>> /\ flight' = "none" /\ flight # "none"
    BY <1>3 DEF SendKey, config
  <2>2. Owing' = down /\ Owing = down \cup {flight} /\ \A i : KeyOf(i)' = KeyOf(i)
    BY <2>1 DEF Owing, KeyOf
  <2>3. CASE flight \in down
    <3>1. keyboard' = keyboard \cup {KeyOf(flight)} /\ Owing' = Owing
      BY <1>3, <2>2, <2>3 DEF SendKey, Send
    <3> QED BY <2>1, <2>2, <2>3, <3>1 DEF NothingElseIsDown
  <2>4. CASE flight \notin down
    <3>1. keyboard' = keyboard \ {KeyOf(flight)}
      BY <1>3, <2>4 DEF SendKey, Send
    <3> QED BY <2>1, <2>2, <3>1 DEF NothingElseIsDown
  <2> QED BY <2>3, <2>4
<1>4. CASE ReleaseEnds
  <2>1. UNCHANGED <<down, flight, bind, strayed>> /\ button' = Up
    BY <1>4 DEF ReleaseEnds, config
  <2>2. keyboard' = IF button.hold THEN keyboard \ {Ctrl} ELSE keyboard
    BY <1>4 DEF ReleaseEnds, Send
  <2>3. Owing' = Owing /\ \A i : KeyOf(i)' = KeyOf(i)
    BY <2>1 DEF Owing, KeyOf
  <2> QED BY <2>1, <2>2, <2>3 DEF NothingElseIsDown, Up
<1>5. CASE ApplyEnds
  <2> DEFINE after == IF seen.pad.b THEN Pressed(button, seen.elapsed) ELSE Up
  <2>1. /\ UNCHANGED <<down, flight, bind, strayed>> /\ button' = after
        /\ keyboard' = ButtonKeys(keyboard, button, seen.pad.b, after)
    BY <1>5 DEF ApplyEnds, config
  <2>2. Owing' = Owing /\ \A i : KeyOf(i)' = KeyOf(i)
    BY <2>1 DEF Owing, KeyOf
  <2>3. CASE seen.pad.b
    <3>1. button.hold => after.hold
      BY <2>3 DEF Pressed
    <3>2. keyboard' = IF after.hold /\ ~button.hold THEN keyboard \cup {Ctrl} ELSE keyboard
      BY <2>1, <2>3 DEF ButtonKeys, Send
    <3> QED BY <2>1, <2>2, <3>1, <3>2 DEF NothingElseIsDown
  <2>4. CASE ~seen.pad.b
    <3>1. ~after.hold
      BY <2>4 DEF Up
    <3>2. button.hold => keyboard' = keyboard \ {Ctrl}
      BY <2>1, <2>4 DEF ButtonKeys, Send, Bookkeeping
    <3>3. keyboard' \subseteq keyboard
      BY <2>1, <2>4 DEF ButtonKeys, Send
    <3> QED BY <2>1, <2>2, <3>1, <3>2, <3>3 DEF NothingElseIsDown
  <2> QED BY <2>3, <2>4
<1> QED BY <1>1, <1>2, <1>3, <1>4, <1>5 DEF XInputThread

------------------------------------------------------------------------------
(* settings_thread and the user. *)

LEMMA OthersKeep ==
  ASSUME IInv, CheckFile \/ User
  PROVE  IInv'
<1>1. UNCHANGED <<probe, bind, strayed, at, flight>> /\ loading' \in 0..Len(Order) + 1
  BY ProbeAssumption DEF IInv, Bookkeeping, CheckFile, User, CheckSettings, WriteDefaultIni, LoadNumbers, Edit,
         SwitchWindow, thread, config, disk
<1>2. NothingElseIsDown'
  BY <1>1, OwingGrows DEF IInv, Owing, probe
<1> QED BY <1>1, <1>2 DEF IInv, Bookkeeping, probe

(* A bind that changes under an input with a key down makes its key stray. *)
LEMMA ReloadKeeps ==
  ASSUME IInv, ReloadBind
  PROVE  IInv'
<1> USE DEF IInv
<1> DEFINE i == Order[loading - 1]
           key == IF file = Missing THEN DefaultBind[i] ELSE file.bind[i]
<1>1. UNCHANGED <<probe, thread>> /\ loading' \in 0..Len(Order) + 1
  BY ProbeAssumption DEF ReloadBind, Bookkeeping
<1>2. Owing' = Owing /\ UNCHANGED <<keyboard, button>>
  BY <1>1 DEF Owing, probe, thread
<1>3. CASE i \in Triggers
  <2>1. UNCHANGED <<bind, strayed>>
    BY <1>3 DEF ReloadBind
  <2> QED BY <1>1, <1>2, <2>1, OwingGrows DEF Bookkeeping, thread, probe
<1>4. CASE i \notin Triggers
  <2>1. /\ bind' = [bind EXCEPT ![i] = key]
        /\ strayed' = IF i \in Owing /\ key # bind[i] THEN strayed \cup {bind[i]} ELSE strayed
    BY <1>4 DEF ReloadBind
  <2>2. i \in DOMAIN bind
    <3>1. loading - 1 \in Nat \ {0}
      BY ProbeAssumption DEF ReloadBind, Bookkeeping
    <3>2. loading - 1 <= Len(Order)
      BY ProbeAssumption DEF ReloadBind, Bookkeeping
    <3> QED BY <1>4, <3>1, <3>2, OrderHoldsInputs DEF Bookkeeping
  <2> HIDE DEF i, key
  <2>3. \A j \in Owing : KeyOf(j) \in {KeyOf(k)' : k \in Owing} \cup strayed'
    <3> SUFFICES ASSUME NEW j \in Owing
                 PROVE  KeyOf(j) \in {KeyOf(k)' : k \in Owing} \cup strayed'
      OBVIOUS
    <3>1. CASE j # i
      <4>1. KeyOf(j)' = KeyOf(j)
        BY <2>1, <3>1 DEF KeyOf
      <4> QED BY <4>1
    <3>2. CASE j = i /\ key = bind[i]
      <4>1. KeyOf(j)' = KeyOf(j)
        BY <2>1, <2>2, <3>2 DEF KeyOf
      <4> QED BY <4>1
    <3>3. CASE j = i /\ key # bind[i]
      BY <1>4, <2>1, <3>3 DEF KeyOf, i
    <3> QED BY <3>1, <3>2, <3>3
  <2>4. strayed \subseteq strayed'
    BY <2>1
  <2>5. NothingElseIsDown'
    BY <1>2, <2>3, <2>4 DEF NothingElseIsDown
  <2>6. Bookkeeping'
    BY <1>1, <2>1 DEF Bookkeeping, thread, probe
  <2> QED BY <2>5, <2>6
<1> QED BY <1>3, <1>4

(* With the two threads of iw5 in any order, between any two keys of a poll *)
(* and between a flag and its key: a key is left down only for an input     *)
(* that is held, for the hold of B, or by a bind that changed under an      *)
(* input that was held (xinput_probe.cpp:152-186, settings.cpp:102-106).    *)
THEOREM WhatIsDownIsOwed == Spec5 => []NothingElseIsDown
<1>1. Init5 => IInv
  <2> SUFFICES ASSUME Init5 PROVE IInv
    OBVIOUS
  <2>1. DOMAIN bind = Inputs \ Triggers
    <3>1. bind \in Binds
      BY ProbeAssumption DEF Init5, Files
    <3> QED BY <3>1, ProbeAssumption
  <2> QED BY <2>1, ProbeAssumption DEF Init5, IInv, Bookkeeping, NothingElseIsDown, Up
<1>2. IInv /\ [Next5]_vars5 => IInv'
  <2>1. IInv /\ UNCHANGED vars5 => IInv'
    BY DEF IInv, Bookkeeping, NothingElseIsDown, Owing, KeyOf, vars5, vars, thread, probe, config
  <2>2. IInv /\ XInputThread => IInv'
    BY ThreadBookkeeping, ThreadAccounts DEF IInv
  <2>3. IInv /\ SettingsThread => IInv'
    BY OthersKeep, ReloadKeeps DEF SettingsThread
  <2> QED BY <2>1, <2>2, <2>3, OthersKeep DEF Next5
<1>3. IInv => NothingElseIsDown
  BY DEF IInv
<1> QED BY <1>1, <1>2, <1>3, PTL DEF Spec5
==============================================================================
