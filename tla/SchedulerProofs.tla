--------------------------- MODULE SchedulerProofs ---------------------------
(***************************************************************************)
(* Theorems about Scheduler, for any tasks, pipelines, drivers, intervals  *)
(* and verdicts.                                                           *)
(***************************************************************************)
EXTENDS Scheduler, FiniteSetsExt, SequenceTheorems, TLAPS

------------------------------------------------------------------------------
(* What append, concatenation and erase do to a std::vector, seen as a     *)
(* sequence. *)

\* erase shortens the vector by one and moves everything behind i forward.
LEMMA RemoveAtElements ==
  ASSUME NEW S, NEW s \in Seq(S), NEW i \in 1..Len(s)
  PROVE  /\ RemoveAt(s, i) \in Seq(S)
         /\ Len(RemoveAt(s, i)) = Len(s) - 1
         /\ \A j \in 1..(Len(s) - 1) :
              RemoveAt(s, i)[j] = IF j < i THEN s[j] ELSE s[j + 1]
<1> DEFINE a == SubSeq(s, 1, i - 1)
           b == SubSeq(s, i + 1, Len(s))
<1>1. \A j \in 1..Len(s) : s[j] \in S
  OBVIOUS
<1>2. a \in Seq(S) /\ Len(a) = i - 1
  BY <1>1, SubSeqProperties
<1>3. \A j \in 1..(i - 1) : a[j] = s[j]
  BY <1>1, SubSeqProperties
<1>4. b \in Seq(S) /\ Len(b) = Len(s) - i
  BY <1>1, SubSeqProperties
<1>5. \A j \in 1..(Len(s) - i) : b[j] = s[i + j]
  BY <1>1, SubSeqProperties
<1> HIDE DEF a, b
<1>6. a \o b \in Seq(S) /\ Len(a \o b) = Len(s) - 1
  BY <1>2, <1>4
<1>7. ASSUME NEW j \in 1..(Len(s) - 1)
      PROVE  (a \o b)[j] = IF j < i THEN s[j] ELSE s[j + 1]
  <2>1. (a \o b)[j] = IF j < i THEN a[j] ELSE b[j - (i - 1)]
    BY <1>2, <1>4
  <2>2. j < i => a[j] = s[j]
    BY <1>3
  <2>3. j >= i => b[j - (i - 1)] = s[j + 1]
    <3> SUFFICES ASSUME j >= i
                 PROVE  b[j - (i - 1)] = s[j + 1]
      OBVIOUS
    <3>1. j - (i - 1) \in 1..(Len(s) - i) /\ i + (j - (i - 1)) = j + 1
      OBVIOUS
    <3> QED BY <1>5, <3>1
  <2> QED BY <2>1, <2>2, <2>3
<1>8. RemoveAt(s, i) = a \o b
  BY DEF RemoveAt, a, b
<1> QED BY <1>6, <1>7, <1>8

\* Erasing from a vector without duplicates takes one element away from it.
LEMMA RemoveAtInjective ==
  ASSUME NEW S, NEW s \in Seq(S), NEW i \in 1..Len(s), IsInjective(s)
  PROVE  /\ IsInjective(RemoveAt(s, i))
         /\ ToSet(RemoveAt(s, i)) = ToSet(s) \ {s[i]}
<1> DEFINE r == RemoveAt(s, i)
<1>1. /\ r \in Seq(S) /\ Len(r) = Len(s) - 1
      /\ \A j \in 1..(Len(s) - 1) : r[j] = IF j < i THEN s[j] ELSE s[j + 1]
  BY RemoveAtElements
<1> HIDE DEF r
<1>2. \A a, b \in 1..Len(s) : s[a] = s[b] => a = b
  BY DEF IsInjective
<1>3. IsInjective(r)
  <2>1. \A a, b \in 1..Len(r) : r[a] = r[b] => a = b
    BY <1>1, <1>2
  <2> QED BY <2>1, <1>1 DEF IsInjective
<1>4. \A x \in ToSet(r) : x \in ToSet(s) \ {s[i]}
  <2> TAKE x \in ToSet(r)
  <2>1. PICK j \in 1..Len(r) : x = r[j]
    BY <1>1 DEF ToSet
  <2>2. PICK k \in 1..Len(s) : k # i /\ x = s[k]
    BY <1>1, <2>1
  <2> QED BY <1>2, <2>2 DEF ToSet
<1>5. \A x \in ToSet(s) \ {s[i]} : x \in ToSet(r)
  <2> TAKE x \in ToSet(s) \ {s[i]}
  <2>1. PICK k \in 1..Len(s) : x = s[k] /\ k # i
    BY DEF ToSet
  <2>2. CASE k < i
    <3>1. k \in 1..Len(r) /\ r[k] = x
      BY <1>1, <2>1, <2>2
    <3> QED BY <3>1, <1>1 DEF ToSet
  <2>3. CASE k > i
    <3>1. k - 1 \in 1..Len(r) /\ r[k - 1] = x
      BY <1>1, <2>1, <2>3
    <3> QED BY <3>1, <1>1 DEF ToSet
  <2> QED BY <2>1, <2>2, <2>3
<1> QED BY <1>3, <1>4, <1>5 DEF r

\* Without duplicates, erasing at a place is erasing the element that stands there.
LEMMA RemoveFirstIsRemoveAt ==
  ASSUME NEW S, NEW s \in Seq(S), NEW i \in 1..Len(s), IsInjective(s)
  PROVE  RemoveFirst(s, s[i]) = RemoveAt(s, i)
<1> DEFINE I == {j \in 1..Len(s) : s[j] = s[i]}
<1>1. I = {i}
  BY DEF IsInjective
<1>2. SelectInSeq(s, LAMBDA v : v = s[i]) = i
  <2>1. SelectInSeq(s, LAMBDA v : v = s[i]) = IF I # {} THEN Min(I) ELSE 0
    BY DEF SelectInSeq
  <2>2. Min({i}) = i
    BY DEF Min
  <2> QED BY <1>1, <2>1, <2>2
<1>3. \E j \in 1..Len(s) : s[j] = s[i]
  OBVIOUS
<1> QED BY <1>2, <1>3 DEF RemoveFirst

\* Erasing inside the first of two vectors erases from their concatenation.
LEMMA RemoveAtConcat ==
  ASSUME NEW S, NEW s \in Seq(S), NEW u \in Seq(S), NEW i \in 1..Len(s)
  PROVE  RemoveAt(s, i) \o u = RemoveAt(s \o u, i)
<1> DEFINE l == RemoveAt(s, i)
           r == RemoveAt(s \o u, i)
<1>1. /\ l \in Seq(S) /\ Len(l) = Len(s) - 1
      /\ \A j \in 1..(Len(s) - 1) : l[j] = IF j < i THEN s[j] ELSE s[j + 1]
  BY RemoveAtElements
<1>2. /\ s \o u \in Seq(S) /\ Len(s \o u) = Len(s) + Len(u)
      /\ i \in 1..Len(s \o u)
      /\ \A j \in 1..(Len(s) + Len(u)) :
           (s \o u)[j] = IF j <= Len(s) THEN s[j] ELSE u[j - Len(s)]
  BY ConcatProperties
<1>3. /\ r \in Seq(S) /\ Len(r) = Len(s \o u) - 1
      /\ \A j \in 1..(Len(s \o u) - 1) :
           r[j] = IF j < i THEN (s \o u)[j] ELSE (s \o u)[j + 1]
  BY <1>2, RemoveAtElements
<1>4. Len(l) = Len(s) - 1 /\ Len(r) = (Len(s) + Len(u)) - 1
  BY <1>1, <1>2, <1>3
<1>5. l \in Seq(S) /\ r \in Seq(S)
  BY <1>1, <1>3
<1> HIDE DEF l, r
<1>6. l \o u \in Seq(S) /\ Len(l \o u) = Len(r)
  BY <1>4, <1>5
<1>7. ASSUME NEW j \in 1..Len(r)
      PROVE  (l \o u)[j] = r[j]
  <2>1. (l \o u)[j] = IF j < Len(s) THEN l[j] ELSE u[j - (Len(s) - 1)]
    BY <1>4, <1>5
  <2>2. CASE j < Len(s)
    <3>1. l[j] = IF j < i THEN s[j] ELSE s[j + 1]
      BY <1>1, <1>4, <2>2
    <3>2. r[j] = IF j < i THEN (s \o u)[j] ELSE (s \o u)[j + 1]
      BY <1>2, <1>3, <1>4
    <3>3. (s \o u)[j] = s[j] /\ (s \o u)[j + 1] = s[j + 1]
      BY <1>4, <2>2
    <3> QED BY <2>1, <2>2, <3>1, <3>2, <3>3
  <2>3. CASE j >= Len(s)
    <3>1. r[j] = (s \o u)[j + 1]
      <4>1. j >= i /\ j \in 1..(Len(s \o u) - 1)
        BY <1>2, <1>4, <2>3
      <4> QED BY <1>3, <4>1
    <3>2. (s \o u)[j + 1] = u[(j + 1) - Len(s)]
      BY <1>4, <2>3
    <3>3. (j + 1) - Len(s) = j - (Len(s) - 1) /\ ~(j < Len(s))
      BY <1>4, <2>3
    <3> QED BY <2>1, <3>1, <3>2, <3>3
  <2> QED BY <1>4, <2>2, <2>3
<1>8. \A j \in 1..Len(l \o u) : (l \o u)[j] = r[j]
  BY <1>6, <1>7
<1>9. l \o u = r
  BY <1>5, <1>6, <1>8, SeqEqual
<1> QED BY <1>9 DEF l, r

\* add puts one new element behind the two vectors.
LEMMA AppendNew ==
  ASSUME NEW S, NEW s \in Seq(S), NEW t \in S, IsInjective(s), t \notin ToSet(s)
  PROVE  /\ IsInjective(Append(s, t))
         /\ ToSet(Append(s, t)) = ToSet(s) \cup {t}
<1> DEFINE r == Append(s, t)
<1>1. r \in Seq(S) /\ Len(r) = Len(s) + 1 /\ r[Len(s) + 1] = t
  OBVIOUS
<1>2. \A j \in 1..Len(s) : r[j] = s[j]
  OBVIOUS
<1> HIDE DEF r
<1>3. \A a, b \in 1..Len(s) : s[a] = s[b] => a = b
  BY DEF IsInjective
<1>4. \A a \in 1..Len(s) : s[a] # t
  BY DEF ToSet
<1>5. \A a, b \in 1..Len(r) : r[a] = r[b] => a = b
  BY <1>1, <1>2, <1>3, <1>4
<1>6. ToSet(r) = ToSet(s) \cup {t}
  <2>1. \A a \in 1..Len(r) : a \in 1..Len(s) \/ a = Len(s) + 1
    BY <1>1
  <2>2. \A x : x \in ToSet(r) => x \in ToSet(s) \cup {t}
    BY <1>1, <1>2, <2>1 DEF ToSet
  <2>3. \A x : x \in ToSet(s) \cup {t} => x \in ToSet(r)
    BY <1>1, <1>2 DEF ToSet
  <2> QED BY <2>2, <2>3
<1> QED BY <1>1, <1>5, <1>6 DEF r, IsInjective

\* The first of two vectors is the front of their concatenation.
LEMMA ConcatFront ==
  ASSUME NEW S, NEW s \in Seq(S), NEW u \in Seq(S), NEW i \in 1..Len(s)
  PROVE  s \o u \in Seq(S) /\ i \in 1..Len(s \o u) /\ (s \o u)[i] = s[i]
OBVIOUS

\* Appending to the second of two vectors appends to their concatenation.
LEMMA ConcatAppend ==
  ASSUME NEW S, NEW s \in Seq(S), NEW u \in Seq(S), NEW t \in S
  PROVE  s \o Append(u, t) = Append(s \o u, t)
<1> DEFINE l == s \o Append(u, t)
           r == Append(s \o u, t)
<1>1. l \in Seq(S) /\ r \in Seq(S) /\ Len(l) = Len(r)
  OBVIOUS
<1>2. \A i \in 1..Len(l) : l[i] = r[i]
  OBVIOUS
<1> HIDE DEF l, r
<1>3. l = r
  BY <1>1, <1>2, SeqEqual
<1> QED BY <1>3 DEF l, r

------------------------------------------------------------------------------
(* Types, the mutex and the iterators. *)

(* Before post_load nobody is in execute.                                  *)
LoadingIsOff == phase = "loading" => \A d \in Drivers : pc[d] = "off"

(* The inductive part about types, the mutex and the iterators.  The three *)
(* hold each other up: what erase removes is a task only if the iterator   *)
(* is inside the vector, and it stays inside only because the mutex keeps  *)
(* every other driver of the pipeline out.                                 *)
Shape == TypeOK /\ LoadingIsOff /\ IteratorValid

------------------------------------------------------------------------------
(* The steps of one driver, each against Shape. *)

LEMMA AcquireShape ==
  ASSUME NEW d \in Drivers, Shape, Acquire(d)
  PROVE  Shape'
<1> USE DriversAssumption DEF Shape, Acquire
<1>1. TypeOK'
  BY DEF TypeOK, Places
<1>2. LoadingIsOff'
  BY DEF LoadingIsOff
<1>3. IteratorValid'
  <2> SUFFICES ASSUME NEW e \in Drivers
               PROVE  /\ pc'[e] \in InPass <=> owner'[Feeds[e]] = e
                      /\ pc'[e] = "scan" => at'[e] <= Len(callbacks'[Feeds[e]]) + 1
                      /\ pc'[e] = "handler" => at'[e] <= Len(callbacks'[Feeds[e]])
    BY DEF IteratorValid
  <2>1. CASE e = d
    BY <2>1 DEF IteratorValid, TypeOK, InPass
  <2>2. CASE e # d
    <3>1. pc'[e] = pc[e] /\ at'[e] = at[e] /\ callbacks' = callbacks
      BY <2>2 DEF TypeOK
    <3>2. owner'[Feeds[e]] = e <=> owner[Feeds[e]] = e
      BY <2>2 DEF TypeOK
    <3> QED BY <3>1, <3>2 DEF IteratorValid
  <2> QED BY <2>1, <2>2
<1> QED BY <1>1, <1>2, <1>3

LEMMA MergeShape ==
  ASSUME NEW d \in Drivers, Shape, Merge(d)
  PROVE  Shape'
<1> USE DriversAssumption DEF Shape, Merge
<1>0. 1 \in Nat \ {0} /\ <<>> \in Seq(Tasks)
  OBVIOUS
<1>1. TypeOK'
  <2>1. callbacks[Feeds[d]] \o newCallbacks[Feeds[d]] \in Seq(Tasks)
    <3>1. callbacks[Feeds[d]] \in Seq(Tasks) /\ newCallbacks[Feeds[d]] \in Seq(Tasks)
      BY DEF TypeOK
    <3> QED BY ONLY <3>1
  <2>2. callbacks' \in [Pipelines -> Seq(Tasks)]
    BY <2>1 DEF TypeOK
  <2>3. newCallbacks' \in [Pipelines -> Seq(Tasks)]
    BY <1>0 DEF TypeOK
  <2>4. pc' \in [Drivers -> Places] /\ at' \in [Drivers -> Nat \ {0}]
    BY <1>0 DEF TypeOK, Places
  <2> QED BY <2>2, <2>3, <2>4 DEF TypeOK
<1>2. LoadingIsOff'
  BY DEF LoadingIsOff
<1>3. IteratorValid'
  <2> SUFFICES ASSUME NEW e \in Drivers
               PROVE  /\ pc'[e] \in InPass <=> owner'[Feeds[e]] = e
                      /\ pc'[e] = "scan" => at'[e] <= Len(callbacks'[Feeds[e]]) + 1
                      /\ pc'[e] = "handler" => at'[e] <= Len(callbacks'[Feeds[e]])
    BY DEF IteratorValid
  <2>1. CASE e = d
    <3>1. pc'[e] = "scan" /\ at'[e] = 1 /\ owner'[Feeds[e]] = e
      BY <2>1 DEF IteratorValid, TypeOK, InPass
    <3>2. callbacks'[Feeds[e]] \in Seq(Tasks)
      BY <1>1 DEF TypeOK
    <3>3. 1 <= Len(callbacks'[Feeds[e]]) + 1
      BY ONLY <3>2
    <3> QED BY <3>1, <3>3 DEF InPass
  <2>2. CASE e # d
    <3>1. pc[e] \in InPass => Feeds[e] # Feeds[d]
      BY <2>2 DEF IteratorValid, InPass
    <3> QED BY <2>2, <3>1 DEF IteratorValid, TypeOK, InPass
  <2> QED BY <2>1, <2>2
<1> QED BY <1>1, <1>2, <1>3

LEMMA SkipShape ==
  ASSUME NEW d \in Drivers, Shape, SkipTask(d)
  PROVE  Shape'
<1> USE DriversAssumption DEF Shape, SkipTask
<1>1. TypeOK'
  BY DEF TypeOK
<1>2. LoadingIsOff'
  BY DEF LoadingIsOff
<1>3. IteratorValid'
  BY SMTT(30) DEF IteratorValid, TypeOK, InPass
<1> QED BY <1>1, <1>2, <1>3

LEMMA CallShape ==
  ASSUME NEW d \in Drivers, Shape, CallHandler(d)
  PROVE  Shape'
<1> USE DriversAssumption DEF Shape, CallHandler
<1>1. TypeOK'
  BY DEF TypeOK, Places
<1>2. LoadingIsOff'
  BY DEF LoadingIsOff
<1>3. IteratorValid'
  BY DEF IteratorValid, TypeOK, InPass
<1> QED BY <1>1, <1>2, <1>3

LEMMA ContinueShape ==
  ASSUME NEW d \in Drivers, Shape, HandlerContinues(d)
  PROVE  Shape'
<1> USE DriversAssumption DEF Shape, HandlerContinues
<1>1. TypeOK'
  BY DEF TypeOK, Places
<1>2. LoadingIsOff'
  BY DEF LoadingIsOff
<1>3. IteratorValid'
  BY DEF IteratorValid, TypeOK, InPass
<1> QED BY <1>1, <1>2, <1>3

\* erase keeps the iterator where it was, and the vector is one shorter.
LEMMA EndShape ==
  ASSUME NEW d \in Drivers, Shape, HandlerEnds(d)
  PROVE  Shape'
<1> USE DriversAssumption DEF Shape, HandlerEnds
<1> DEFINE p == Feeds[d]
<1>0. p \in Pipelines /\ callbacks[p] \in Seq(Tasks)
  BY DEF TypeOK
<1>1. at[d] \in 1..Len(callbacks[p])
  <2>1. at[d] \in Nat \ {0}
    BY DEF TypeOK
  <2>2. at[d] <= Len(callbacks[p])
    BY DEF IteratorValid
  <2> QED BY <1>0, <2>1, <2>2
<1>2. /\ RemoveAt(callbacks[p], at[d]) \in Seq(Tasks)
      /\ Len(RemoveAt(callbacks[p], at[d])) = Len(callbacks[p]) - 1
  BY <1>0, <1>1, RemoveAtElements
<1>3. Current(d) \in Tasks
  BY <1>0, <1>1 DEF Current
<1>4. TypeOK'
  BY <1>0, <1>2, <1>3 DEF TypeOK, Places
<1>5. LoadingIsOff'
  BY DEF LoadingIsOff
<1>6. IteratorValid'
  <2> SUFFICES ASSUME NEW e \in Drivers
               PROVE  /\ pc'[e] \in InPass <=> owner'[Feeds[e]] = e
                      /\ pc'[e] = "scan" => at'[e] <= Len(callbacks'[Feeds[e]]) + 1
                      /\ pc'[e] = "handler" => at'[e] <= Len(callbacks'[Feeds[e]])
    BY DEF IteratorValid
  <2>1. CASE e = d
    BY <2>1, <1>0, <1>1, <1>2 DEF IteratorValid, TypeOK, InPass
  <2>2. CASE e # d
    <3>1. pc[e] \in InPass => Feeds[e] # Feeds[d]
      BY <2>2 DEF IteratorValid, InPass
    <3> QED BY <2>2, <3>1 DEF IteratorValid, TypeOK, InPass
  <2> QED BY <2>1, <2>2
<1> QED BY <1>4, <1>5, <1>6

LEMMA ReleaseShape ==
  ASSUME NEW d \in Drivers, Shape, Release(d)
  PROVE  Shape'
<1> USE DriversAssumption DEF Shape, Release
<1>0. 1 \in Nat \ {0}
  OBVIOUS
<1>1. TypeOK'
  BY <1>0 DEF TypeOK, Places
<1>2. LoadingIsOff'
  BY DEF LoadingIsOff
<1>3. IteratorValid'
  <2> SUFFICES ASSUME NEW e \in Drivers
               PROVE  /\ pc'[e] \in InPass <=> owner'[Feeds[e]] = e
                      /\ pc'[e] = "scan" => at'[e] <= Len(callbacks'[Feeds[e]]) + 1
                      /\ pc'[e] = "handler" => at'[e] <= Len(callbacks'[Feeds[e]])
    BY DEF IteratorValid
  <2>1. CASE e = d
    <3>1. pc'[e] = "idle" /\ owner'[Feeds[e]] = NoDriver
      BY <2>1 DEF TypeOK
    <3> QED BY <3>1 DEF InPass
  <2>2. CASE e # d
    <3>1. pc'[e] = pc[e] /\ at'[e] = at[e] /\ callbacks' = callbacks
      BY <2>2 DEF TypeOK
    <3>2. owner[Feeds[d]] = d
      BY DEF IteratorValid, InPass
    <3>3. owner'[Feeds[e]] = e <=> owner[Feeds[e]] = e
      BY <2>2, <3>2 DEF TypeOK
    <3> QED BY <3>1, <3>3 DEF IteratorValid
  <2> QED BY <2>1, <2>2
<1> QED BY <1>1, <1>2, <1>3

\* Everything outside execute, and stuttering.
LEMMA OtherShape ==
  ASSUME Shape,
         \/ \E t \in Tasks : Schedule(t)
         \/ PostLoad \/ PreDestroy \/ AsyncThreadEnds \/ Join \/ Tick
         \/ UNCHANGED vars
  PROVE  Shape'
<1> USE DriversAssumption, TasksAssumption DEF Shape
<1>1. ASSUME NEW t \in Tasks, Schedule(t)
      PROVE  Shape'
  <2>1. Append(newCallbacks[PipelineOf[t]], t) \in Seq(Tasks)
    <3>1. newCallbacks[PipelineOf[t]] \in Seq(Tasks)
      BY DEF TypeOK
    <3> QED BY ONLY <1>1, <3>1
  <2>2. TypeOK'
    BY <1>1, <2>1 DEF Schedule, TypeOK
  <2> QED BY <1>1, <2>2 DEF Schedule, LoadingIsOff, IteratorValid
<1>2. CASE PostLoad
  BY <1>2 DEF PostLoad, TypeOK, Places, LoadingIsOff, IteratorValid, InPass
<1>3. CASE PreDestroy
  BY <1>3 DEF PreDestroy, TypeOK, LoadingIsOff, IteratorValid
<1>4. CASE AsyncThreadEnds
  BY <1>4 DEF AsyncThreadEnds, TypeOK, Places, LoadingIsOff, IteratorValid, InPass
<1>5. CASE Join
  BY <1>5 DEF Join, TypeOK, LoadingIsOff, IteratorValid
<1>6. CASE Tick
  <2>1. elapsed' \in [Tasks -> Nat]
    <3>1. \A t \in Tasks : elapsed[t] \in Nat /\ elapsed[t] + 1 \in Nat
      BY DEF TypeOK
    <3> QED BY <1>6, <3>1 DEF Tick
  <2>2. LoadingIsOff' /\ IteratorValid'
    BY <1>6 DEF Tick, LoadingIsOff, IteratorValid
  <2> QED BY <1>6, <2>1, <2>2 DEF Tick, TypeOK
<1>7. CASE UNCHANGED vars
  BY <1>7 DEF vars, TypeOK, LoadingIsOff, IteratorValid
<1> QED BY <1>1, <1>2, <1>3, <1>4, <1>5, <1>6, <1>7

LEMMA InitShape == Init => Shape
<1> SUFFICES ASSUME Init PROVE Shape
  OBVIOUS
<1>1. Interval \in [Tasks -> Nat] /\ <<>> \in Seq(Tasks) /\ 1 \in Nat \ {0}
  BY TasksAssumption
<1>2. TypeOK
  BY <1>1 DEF Init, TypeOK, Places
<1>3. LoadingIsOff /\ IteratorValid
  BY DriversAssumption DEF Init, LoadingIsOff, IteratorValid, InPass
<1> QED BY <1>2, <1>3 DEF Shape

LEMMA StepShape == Shape /\ [Next]_vars => Shape'
<1> SUFFICES ASSUME Shape, [Next]_vars PROVE Shape'
  OBVIOUS
<1>1. ASSUME NEW d \in Drivers, Execute(d)
      PROVE  Shape'
  BY <1>1, AcquireShape, MergeShape, SkipShape, CallShape, ContinueShape,
     EndShape, ReleaseShape DEF Execute
<1> QED BY <1>1, OtherShape DEF Next, NeverLoaded

\* The only values that reach the vectors are tasks, whatever is scheduled,
\* ended and merged by whomever.
THEOREM TypeCorrect == Spec => []TypeOK
<1>1. Shape => TypeOK
  BY DEF Shape
<1> QED BY <1>1, InitShape, StepShape, PTL DEF Spec

\* No pass ever dereferences an iterator outside its vector or one that another
\* driver has moved the vector under.
THEOREM IteratorAlwaysValid == Spec => []IteratorValid
<1>1. Shape => IteratorValid
  BY DEF Shape
<1> QED BY <1>1, InitShape, StepShape, PTL DEF Spec

------------------------------------------------------------------------------
(* Nothing is lost or doubled. *)

Pending(p) == callbacks[p] \o newCallbacks[p]

\* NothingLostOrDoubled, one pipeline at a time.
Kept(p) ==
  /\ IsInjective(Pending(p))
  /\ ToSet(Pending(p)) = {t \in scheduled \ ended : PipelineOf[t] = p}

LEMMA KeptEverywhere == NothingLostOrDoubled <=> \A p \in Pipelines : Kept(p)
BY DEF NothingLostOrDoubled, Kept, Pending

\* add: one new element behind the queue of its own pipeline.
LEMMA ScheduleKeeps ==
  ASSUME Shape, NEW t \in Tasks, Schedule(t), ended \subseteq scheduled,
         NEW p \in Pipelines, Kept(p)
  PROVE  Kept(p)'
<1>1. /\ callbacks[p] \in Seq(Tasks) /\ newCallbacks[p] \in Seq(Tasks)
      /\ scheduled' = scheduled \cup {t} /\ ended' = ended
      /\ t \notin scheduled /\ callbacks'[p] = callbacks[p]
  BY DEF Shape, TypeOK, Schedule
<1>2. CASE PipelineOf[t] # p
  <2>1. newCallbacks'[p] = newCallbacks[p]
    BY <1>2 DEF Shape, TypeOK, Schedule
  <2>2. Pending(p)' = Pending(p)
    BY <1>1, <2>1 DEF Pending
  <2> QED BY <1>1, <1>2, <2>2 DEF Kept
<1>3. CASE PipelineOf[t] = p
  <2>1. newCallbacks'[p] = Append(newCallbacks[p], t)
    BY <1>3 DEF Shape, TypeOK, Schedule
  <2>2. callbacks[p] \o Append(newCallbacks[p], t)
          = Append(callbacks[p] \o newCallbacks[p], t)
    <3> DEFINE c == callbacks[p]
               n == newCallbacks[p]
    <3>1. c \in Seq(Tasks) /\ n \in Seq(Tasks)
      BY <1>1
    <3> HIDE DEF c, n
    <3>2. c \o Append(n, t) = Append(c \o n, t)
      BY <3>1, ConcatAppend
    <3> QED BY <3>2 DEF c, n
  <2>3. Pending(p)' = Append(Pending(p), t)
    BY <1>1, <2>1, <2>2 DEF Pending
  <2>4. Pending(p) \in Seq(Tasks)
    BY ONLY <1>1 DEF Pending
  <2>5. t \notin ToSet(Pending(p))
    BY <1>1 DEF Kept
  <2>6. /\ IsInjective(Append(Pending(p), t))
        /\ ToSet(Append(Pending(p), t)) = ToSet(Pending(p)) \cup {t}
    BY <2>4, <2>5, AppendNew DEF Kept
  <2>7. {u \in scheduled' \ ended' : PipelineOf[u] = p}
          = {u \in scheduled \ ended : PipelineOf[u] = p} \cup {t}
    BY <1>1, <1>3
  <2> QED BY <2>3, <2>6, <2>7 DEF Kept
<1> QED BY <1>2, <1>3

\* merge_callbacks: the same queue, cut at another place.
LEMMA MergeMovesTheCut ==
  ASSUME Shape, NEW d \in Drivers, Merge(d), NEW p \in Pipelines
  PROVE  Pending(p)' = Pending(p)
<1>1. callbacks[p] \in Seq(Tasks) /\ newCallbacks[p] \in Seq(Tasks)
  BY DEF Shape, TypeOK
<1>2. CASE Feeds[d] = p
  <2>1. callbacks'[p] = callbacks[p] \o newCallbacks[p] /\ newCallbacks'[p] = <<>>
    BY <1>2 DEF Shape, TypeOK, Merge
  <2>2. (callbacks[p] \o newCallbacks[p]) \o <<>> = callbacks[p] \o newCallbacks[p]
    BY ONLY <1>1
  <2> QED BY <2>1, <2>2 DEF Pending
<1>3. CASE Feeds[d] # p
  <2>1. callbacks'[p] = callbacks[p] /\ newCallbacks'[p] = newCallbacks[p]
    BY <1>3 DEF Shape, TypeOK, Merge
  <2> QED BY <2>1 DEF Pending
<1> QED BY <1>2, <1>3

LEMMA MergeKeeps ==
  ASSUME Shape, NEW d \in Drivers, Merge(d), NEW p \in Pipelines, Kept(p)
  PROVE  Kept(p)'
<1>1. scheduled' = scheduled /\ ended' = ended
  BY DEF Merge
<1> QED BY <1>1, MergeMovesTheCut DEF Kept

\* The task an iterator stands at is in the queue of its pipeline.
LEMMA CurrentIsPending ==
  ASSUME Shape, NEW d \in Drivers, at[d] <= Len(callbacks[Feeds[d]])
  PROVE  /\ at[d] \in 1..Len(callbacks[Feeds[d]])
         /\ Pending(Feeds[d]) \in Seq(Tasks)
         /\ at[d] \in 1..Len(Pending(Feeds[d]))
         /\ Pending(Feeds[d])[at[d]] = Current(d)
         /\ Current(d) \in ToSet(Pending(Feeds[d]))
         /\ Current(d) \in Tasks
<1> DEFINE c == callbacks[Feeds[d]]
           n == newCallbacks[Feeds[d]]
           i == at[d]
<1>1. c \in Seq(Tasks) /\ n \in Seq(Tasks) /\ i \in Nat \ {0}
  BY DriversAssumption DEF Shape, TypeOK
<1>2. i <= Len(c)
  OBVIOUS
<1> HIDE DEF c, n, i
<1>3. i \in 1..Len(c) /\ c[i] \in Tasks
  BY <1>1, <1>2
<1>4. c \o n \in Seq(Tasks) /\ i \in 1..Len(c \o n) /\ (c \o n)[i] = c[i]
  BY <1>1, <1>3, ConcatFront
<1>5. c[i] \in ToSet(c \o n)
  BY <1>4 DEF ToSet
<1> QED BY <1>3, <1>4, <1>5 DEF c, n, i, Pending, Current

\* erase: the task that ended and no other leaves the queue.
LEMMA EndErases ==
  ASSUME Shape, NEW d \in Drivers, HandlerEnds(d)
  PROVE  /\ at[d] <= Len(callbacks[Feeds[d]])
         /\ Pending(Feeds[d])' = RemoveAt(Pending(Feeds[d]), at[d])
         /\ \A p \in Pipelines \ {Feeds[d]} : Pending(p)' = Pending(p)
<1> DEFINE c == callbacks[Feeds[d]]
           n == newCallbacks[Feeds[d]]
           i == at[d]
<1>1. /\ c \in Seq(Tasks) /\ n \in Seq(Tasks) /\ Feeds[d] \in Pipelines
      /\ newCallbacks' = newCallbacks
  BY DriversAssumption DEF Shape, TypeOK, HandlerEnds
<1>2. i <= Len(c)
  BY DEF Shape, IteratorValid, HandlerEnds
<1>3. callbacks'[Feeds[d]] = RemoveAt(c, i)
  BY <1>1 DEF Shape, TypeOK, HandlerEnds
<1>4. \A p \in Pipelines \ {Feeds[d]} : Pending(p)' = Pending(p)
  <2> TAKE p \in Pipelines \ {Feeds[d]}
  <2>1. callbacks'[p] = callbacks[p]
    BY DEF Shape, TypeOK, HandlerEnds
  <2> QED BY <1>1, <2>1 DEF Pending
<1>5. i \in 1..Len(c)
  BY <1>2, CurrentIsPending
<1>6. Pending(Feeds[d])' = RemoveAt(c, i) \o n
  BY <1>1, <1>3 DEF Pending
<1>7. RemoveAt(c, i) \o n = RemoveAt(c \o n, i)
  <2> HIDE DEF c, n, i
  <2> QED BY <1>1, <1>5, RemoveAtConcat
<1> QED BY <1>2, <1>4, <1>6, <1>7 DEF Pending

LEMMA EndKeeps ==
  ASSUME Shape, NEW d \in Drivers, HandlerEnds(d),
         \A q \in Pipelines : Kept(q), NEW p \in Pipelines
  PROVE  Kept(p)'
<1> DEFINE t == Current(d)
<1>1. /\ Feeds[d] \in Pipelines
      /\ scheduled' = scheduled /\ ended' = ended \cup {t}
  BY DriversAssumption DEF HandlerEnds
<1>2. /\ Pending(Feeds[d]) \in Seq(Tasks)
      /\ at[d] \in 1..Len(Pending(Feeds[d]))
      /\ Pending(Feeds[d])[at[d]] = t
      /\ t \in ToSet(Pending(Feeds[d]))
  BY CurrentIsPending, EndErases
<1>3. PipelineOf[t] = Feeds[d]
  BY <1>1, <1>2 DEF Kept
<1>4. CASE Feeds[d] # p
  <2>1. Pending(p)' = Pending(p)
    BY <1>4, EndErases
  <2>2. {u \in scheduled' \ ended' : PipelineOf[u] = p}
          = {u \in scheduled \ ended : PipelineOf[u] = p}
    BY <1>1, <1>3, <1>4
  <2> QED BY <2>1, <2>2 DEF Kept
<1>5. CASE Feeds[d] = p
  <2>1. Pending(p)' = RemoveAt(Pending(p), at[d])
    BY <1>5, EndErases
  <2>2. /\ IsInjective(RemoveAt(Pending(p), at[d]))
        /\ ToSet(RemoveAt(Pending(p), at[d])) = ToSet(Pending(p)) \ {t}
    BY <1>2, <1>5, RemoveAtInjective DEF Kept
  <2>3. {u \in scheduled' \ ended' : PipelineOf[u] = p}
          = {u \in scheduled \ ended : PipelineOf[u] = p} \ {t}
    BY <1>1
  <2> QED BY <2>1, <2>2, <2>3 DEF Kept
<1> QED BY <1>4, <1>5

(* The inductive invariant of the theorem below.                           *)
IInv == Shape /\ ended \subseteq scheduled /\ NothingLostOrDoubled

LEMMA StepIInv == IInv /\ [Next]_vars => IInv'
<1> SUFFICES ASSUME IInv, [Next]_vars PROVE IInv'
  OBVIOUS
<1>1. Shape /\ Shape' /\ ended \subseteq scheduled /\ \A p \in Pipelines : Kept(p)
  BY StepShape, KeptEverywhere DEF IInv
<1>2. ASSUME UNCHANGED <<newCallbacks, callbacks, scheduled, ended>>
      PROVE  (\A p \in Pipelines : Kept(p)') /\ ended' \subseteq scheduled'
  BY <1>1, <1>2 DEF Kept, Pending
<1>3. (\A p \in Pipelines : Kept(p)') /\ ended' \subseteq scheduled'
  <2>1. ASSUME NEW t \in Tasks, Schedule(t)
        PROVE  (\A p \in Pipelines : Kept(p)') /\ ended' \subseteq scheduled'
    <3>1. \A p \in Pipelines : Kept(p)'
      BY <1>1, <2>1, ScheduleKeeps
    <3> QED BY <1>1, <2>1, <3>1 DEF Schedule
  <2>2. ASSUME NEW d \in Drivers, Execute(d)
        PROVE  (\A p \in Pipelines : Kept(p)') /\ ended' \subseteq scheduled'
    <3>1. CASE Merge(d)
      <4>1. \A p \in Pipelines : Kept(p)'
        BY <1>1, <3>1, MergeKeeps
      <4> QED BY <1>1, <3>1, <4>1 DEF Merge
    <3>2. CASE HandlerEnds(d)
      <4>1. \A p \in Pipelines : Kept(p)'
        BY <1>1, <3>2, EndKeeps
      <4>2. Current(d) \in scheduled
        <5>1. Current(d) \in ToSet(Pending(Feeds[d]))
          BY <1>1, <3>2, CurrentIsPending, EndErases
        <5> QED BY <1>1, <5>1, DriversAssumption DEF Kept
      <4> QED BY <1>1, <3>2, <4>1, <4>2 DEF HandlerEnds
    <3>3. CASE Acquire(d) \/ SkipTask(d) \/ CallHandler(d) \/ HandlerContinues(d) \/ Release(d)
      BY <1>2, <3>3 DEF Acquire, SkipTask, CallHandler, HandlerContinues, Release
    <3> QED BY <2>2, <3>1, <3>2, <3>3 DEF Execute
  <2>3. CASE PostLoad \/ PreDestroy \/ AsyncThreadEnds \/ Join \/ Tick \/ UNCHANGED vars
    BY <1>2, <2>3 DEF PostLoad, PreDestroy, AsyncThreadEnds, Join, Tick, vars
  <2> QED BY <2>1, <2>2, <2>3 DEF Next, NeverLoaded
<1>4. NothingLostOrDoubled' <=> \A p \in Pipelines : Kept(p)'
  BY DEF NothingLostOrDoubled, Kept, Pending
<1> QED BY <1>1, <1>3, <1>4 DEF IInv

LEMMA InitIInv == Init => IInv
<1> SUFFICES ASSUME Init PROVE IInv
  OBVIOUS
<1>1. Shape
  BY InitShape
<1>2. ASSUME NEW p \in Pipelines PROVE Kept(p)
  <2>1. Pending(p) = <<>>
    BY DEF Init, Pending
  <2>2. IsInjective(<<>>) /\ ToSet(<<>>) = {}
    BY DEF IsInjective, ToSet
  <2> QED BY <2>1, <2>2 DEF Kept, Init
<1>3. NothingLostOrDoubled
  BY <1>2, KeptEverywhere
<1> QED BY <1>1, <1>3 DEF IInv, Init

\* schedule, merge_callbacks and erase together neither lose nor double a
\* callback, for any number of tasks, drivers and pipelines.
THEOREM NothingIsLostOrDoubled == Spec => []NothingLostOrDoubled
<1>1. IInv => NothingLostOrDoubled
  BY DEF IInv
<1> QED BY <1>1, InitIInv, StepIInv, PTL DEF Spec

------------------------------------------------------------------------------
(* The iterator against the other threads. *)

\* The tasks a pass walks are those it merged, less the ones that ended.
THEOREM PassAlwaysWalksASnapshot == Spec => PassWalksASnapshot
<1> DEFINE Kept1(d) ==
      pc[d] \in {"scan", "handler"} =>
        \/ callbacks'[Feeds[d]] = callbacks[Feeds[d]]
        \/ /\ pc[d] = "handler" /\ pc'[d] = "scan"
           /\ callbacks'[Feeds[d]] = RemoveAt(callbacks[Feeds[d]], at[d])
<1>1. Shape /\ [Next]_vars => [\A d \in Drivers : Kept1(d)]_vars
  <2> SUFFICES ASSUME Shape, Next, NEW d \in Drivers PROVE Kept1(d)
    OBVIOUS
  <2>0. /\ callbacks \in [Pipelines -> Seq(Tasks)] /\ pc \in [Drivers -> Places]
        /\ Feeds \in [Drivers -> Pipelines]
        /\ \A e \in Drivers : pc[e] \in InPass <=> owner[Feeds[e]] = e
    BY DriversAssumption DEF Shape, TypeOK, IteratorValid
  <2>1. CASE UNCHANGED callbacks
    BY <2>1
  <2>2. ASSUME NEW e \in Drivers, Merge(e) \/ HandlerEnds(e) PROVE Kept1(d)
    <3>1. CASE Feeds[e] # Feeds[d]
      BY <2>0, <2>2, <3>1 DEF Merge, HandlerEnds
    <3>2. CASE Feeds[e] = Feeds[d] /\ e # d
      BY <2>0, <2>2, <3>2 DEF Merge, HandlerEnds, InPass
    <3>3. CASE e = d
      BY <2>0, <2>2, <3>3 DEF Merge, HandlerEnds
    <3> QED BY <3>1, <3>2, <3>3
  <2>3. ASSUME NEW e \in Drivers, Execute(e) PROVE Kept1(d)
    BY <2>1, <2>2, <2>3 DEF Execute, Acquire, SkipTask, CallHandler, HandlerContinues, Release
  <2>4. CASE \E t \in Tasks : Schedule(t)
    BY <2>1, <2>4 DEF Schedule
  <2>5. CASE PostLoad \/ PreDestroy \/ AsyncThreadEnds \/ Join \/ Tick \/ NeverLoaded
    BY <2>1, <2>5 DEF PostLoad, PreDestroy, AsyncThreadEnds, Join, Tick, NeverLoaded, vars
  <2> QED BY <2>3, <2>4, <2>5 DEF Next
<1> QED BY <1>1, InitShape, StepShape, PTL DEF Spec, PassWalksASnapshot

------------------------------------------------------------------------------
(* The two vectors are one queue. *)

(* The mutex of a pipeline is held by a driver of that pipeline.           *)
OwnerFeeds == \A p \in Pipelines : owner[p] # NoDriver => Feeds[owner[p]] = p

(* The state of TaskQueue.                                                 *)
Queues == [p \in Pipelines |-> Pending(p)]
RunsAt(p) ==
  IF owner[p] # NoDriver /\ pc[owner[p]] = "handler" THEN Current(owner[p]) ELSE NoTask
Runs == [p \in Pipelines |-> RunsAt(p)]

\* What TaskQueue takes from the community modules is what Scheduler does.
LEMMA SameToSet == \A s : Promise!ToSet(s) = ToSet(s)
BY DEF Promise!ToSet, ToSet

LEMMA SameRemoveFirst == \A s, e : Promise!RemoveFirst(s, e) = RemoveFirst(s, e)
BY DEF Promise!RemoveFirst, RemoveFirst, Promise!SelectInSeq, SelectInSeq,
       Promise!RemoveAt, RemoveAt, Promise!Min, Min

LEMMA StepOwnerFeeds == OwnerFeeds /\ TypeOK /\ [Next]_vars => OwnerFeeds'
<1> SUFFICES ASSUME OwnerFeeds, TypeOK, [Next]_vars PROVE OwnerFeeds'
  OBVIOUS
<1> USE DriversAssumption DEF OwnerFeeds, TypeOK
<1>1. ASSUME NEW d \in Drivers, Execute(d) PROVE OwnerFeeds'
  <2>1. CASE UNCHANGED owner
    BY <2>1
  <2>2. CASE owner' = [owner EXCEPT ![Feeds[d]] = d]
    BY <2>2
  <2>3. CASE owner' = [owner EXCEPT ![Feeds[d]] = NoDriver]
    BY <2>3
  <2> QED BY ONLY <1>1, <2>1, <2>2, <2>3
      DEF Execute, Acquire, Merge, SkipTask, CallHandler, HandlerContinues, HandlerEnds, Release
<1>2. CASE \E t \in Tasks : Schedule(t)
  BY <1>2 DEF Schedule
<1>3. CASE PostLoad \/ PreDestroy \/ AsyncThreadEnds \/ Join \/ Tick \/ UNCHANGED vars
  BY <1>3 DEF PostLoad, PreDestroy, AsyncThreadEnds, Join, Tick, vars
<1> QED BY <1>1, <1>2, <1>3 DEF Next, NeverLoaded

\* What one driver does is not seen in the other pipelines.
LEMMA OthersRunOn ==
  ASSUME Shape, OwnerFeeds, NEW d \in Drivers, NEW p \in Pipelines \ {Feeds[d]},
         owner'[p] = owner[p], callbacks'[p] = callbacks[p],
         \A e \in Drivers \ {d} : pc'[e] = pc[e] /\ at'[e] = at[e]
  PROVE  RunsAt(p)' = RunsAt(p)
<1>1. CASE owner[p] = NoDriver
  BY <1>1 DEF RunsAt
<1>2. CASE owner[p] # NoDriver
  <2>1. owner[p] \in Drivers \ {d} /\ Feeds[owner[p]] = p
    BY <1>2 DEF OwnerFeeds, Shape, TypeOK
  <2>2. Current(owner[p])' = Current(owner[p])
    BY <2>1 DEF Current
  <2> QED BY <2>1, <2>2 DEF RunsAt
<1> QED BY <1>1, <1>2

\* Taking and giving back the mutex, moving the new tasks, passing a task that
\* is not due: no handler runs before or after.
LEMMA PassIsSilent ==
  ASSUME Shape, OwnerFeeds, NEW d \in Drivers,
         Acquire(d) \/ Merge(d) \/ SkipTask(d) \/ Release(d)
  PROVE  Queues' = Queues /\ Runs' = Runs
<1>1. Queues' = Queues
  <2>1. CASE Merge(d)
    BY <2>1, MergeMovesTheCut DEF Queues
  <2>2. CASE Acquire(d) \/ SkipTask(d) \/ Release(d)
    BY <2>2 DEF Acquire, SkipTask, Release, Queues, Pending
  <2> QED BY <2>1, <2>2
<1>2. ASSUME NEW p \in Pipelines PROVE RunsAt(p)' = RunsAt(p)
  <2>0. Feeds[d] \in Pipelines
    BY DriversAssumption
  <2>1. CASE p = Feeds[d]
    <3>1. RunsAt(p) = NoTask
      BY <2>1, <2>0 DEF Acquire, Merge, SkipTask, Release, RunsAt, Shape, TypeOK, IteratorValid, InPass
    <3>2. owner'[p] = NoDriver \/ (owner'[p] = d /\ pc'[d] # "handler")
      BY <2>1, <2>0 DEF Acquire, Merge, SkipTask, Release, Shape, TypeOK, IteratorValid, InPass
    <3>3. RunsAt(p)' = NoTask
      BY <3>2 DEF RunsAt
    <3> QED BY <3>1, <3>3
  <2>2. CASE p # Feeds[d]
    <3>1. /\ owner'[p] = owner[p] /\ callbacks'[p] = callbacks[p]
          /\ \A e \in Drivers \ {d} : pc'[e] = pc[e] /\ at'[e] = at[e]
      BY <2>2, <2>0 DEF Acquire, Merge, SkipTask, Release, Shape, TypeOK
    <3> QED BY <2>2, <3>1, OthersRunOn
  <2> QED BY <2>1, <2>2
<1> QED BY <1>1, <1>2 DEF Runs

LEMMA OutsideIsSilent ==
  ASSUME Shape, PostLoad \/ PreDestroy \/ AsyncThreadEnds \/ Join \/ Tick \/ UNCHANGED vars
  PROVE  Queues' = Queues /\ Runs' = Runs
<1>1. UNCHANGED <<callbacks, newCallbacks, owner, at>>
  BY DEF PostLoad, PreDestroy, AsyncThreadEnds, Join, Tick, vars
<1>2. \A d \in Drivers : pc'[d] = "handler" <=> pc[d] = "handler"
  BY DriversAssumption DEF PostLoad, PreDestroy, AsyncThreadEnds, Join, Tick, vars, Shape, TypeOK, LoadingIsOff
<1>3. \A d : Current(d)' = Current(d)
  BY <1>1 DEF Current
<1>4. \A p \in Pipelines : RunsAt(p)' = RunsAt(p)
  BY <1>1, <1>2, <1>3 DEF RunsAt, Shape, TypeOK
<1> QED BY <1>1, <1>4 DEF Queues, Pending, Runs

LEMMA ScheduleSubmits ==
  ASSUME IInv, NEW t \in Tasks, Schedule(t)
  PROVE  Promise!Submit(t)
<1>1. /\ UNCHANGED <<callbacks, owner, at, pc>> /\ PipelineOf[t] \in Pipelines
      /\ newCallbacks' = [newCallbacks EXCEPT ![PipelineOf[t]] = Append(@, t)]
      /\ t \notin scheduled
  BY TasksAssumption DEF Schedule
<1>2. \A p \in Pipelines : t \notin ToSet(Pending(p))
  BY <1>1, KeptEverywhere DEF IInv, Kept
<1>3. ASSUME NEW p \in Pipelines
      PROVE  Pending(p)' = IF p = PipelineOf[t] THEN Append(Pending(p), t) ELSE Pending(p)
  <2>1. callbacks[p] \in Seq(Tasks) /\ newCallbacks[p] \in Seq(Tasks)
    BY DEF IInv, Shape, TypeOK
  <2>2. newCallbacks'[p] = IF p = PipelineOf[t] THEN Append(newCallbacks[p], t) ELSE newCallbacks[p]
    BY <1>1 DEF IInv, Shape, TypeOK
  <2>3. callbacks[p] \o Append(newCallbacks[p], t) = Append(callbacks[p] \o newCallbacks[p], t)
    <3> DEFINE c == callbacks[p]
               n == newCallbacks[p]
    <3> HIDE DEF c, n
    <3>1. c \in Seq(Tasks) /\ n \in Seq(Tasks)
      BY <2>1 DEF c, n
    <3>2. c \o Append(n, t) = Append(c \o n, t)
      BY <3>1, ConcatAppend
    <3> QED BY <3>2 DEF c, n
  <2>4. Pending(p)' = callbacks[p] \o newCallbacks'[p]
    BY <1>1 DEF Pending
  <2>5. CASE p = PipelineOf[t]
    <3>1. newCallbacks'[p] = Append(newCallbacks[p], t)
      BY <2>2, <2>5
    <3> QED BY <2>3, <2>4, <2>5, <3>1 DEF Pending
  <2>6. CASE p # PipelineOf[t]
    BY <2>2, <2>4, <2>6 DEF Pending
  <2> QED BY <2>5, <2>6
<1>4. Queues' = [Queues EXCEPT ![PipelineOf[t]] = Append(@, t)]
  BY <1>1, <1>3 DEF Queues
<1>5. Runs' = Runs
  BY <1>1 DEF Runs, RunsAt, Current
<1>6. t \notin UNION {ToSet(Queues[p]) : p \in Pipelines}
  BY <1>2 DEF Queues
<1> QED BY <1>4, <1>5, <1>6, SameToSet DEF Promise!Submit, Promise!Waiting, Queues, Pending, Runs, RunsAt

\* Who is in a handler holds the mutex of the pipeline.
LEMMA CallHandlerStarts ==
  ASSUME IInv, OwnerFeeds, NEW d \in Drivers, CallHandler(d)
  PROVE  Promise!Start(Feeds[d])
<1> DEFINE q == Feeds[d]
<1>1. /\ UNCHANGED <<callbacks, newCallbacks, owner, at>> /\ q \in Pipelines
      /\ owner[q] = d /\ d # NoDriver /\ pc[d] = "scan" /\ pc' = [pc EXCEPT ![d] = "handler"]
      /\ pc'[d] = "handler"
  BY DriversAssumption DEF CallHandler, IInv, Shape, TypeOK, IteratorValid, InPass
<1>2. Queues' = Queues
  BY <1>1 DEF Queues, Pending
<1>3. Current(d) \in ToSet(Pending(q)) /\ Current(d)' = Current(d)
  BY <1>1, CurrentIsPending DEF CallHandler, IInv, Current
<1>4. ASSUME NEW p \in Pipelines
      PROVE  RunsAt(p)' = IF p = q THEN Current(d) ELSE RunsAt(p)
  <2>1. CASE p = q
    BY <1>1, <1>3, <2>1 DEF RunsAt
  <2>2. CASE p # q
    <3>1. \A e \in Drivers \ {d} : pc'[e] = pc[e] /\ at'[e] = at[e]
      BY <1>1 DEF IInv, Shape, TypeOK
    <3> QED BY <1>1, <2>2, <3>1, OthersRunOn DEF IInv
  <2> QED BY <2>1, <2>2
<1>5. Runs' = [Runs EXCEPT ![q] = Current(d)]
  BY <1>4 DEF Runs
<1>6. Runs[q] = NoTask
  BY <1>1 DEF Runs, RunsAt
<1>7. Current(d) \in ToSet(Queues[q])
  BY <1>1, <1>3 DEF Queues
<1> QED BY <1>2, <1>5, <1>6, <1>7, SameToSet DEF Promise!Start, Queues, Pending, Runs, RunsAt

LEMMA HandlerReturns ==
  ASSUME IInv, OwnerFeeds, NEW d \in Drivers, HandlerContinues(d) \/ HandlerEnds(d)
  PROVE  Promise!Return(Feeds[d])
<1> DEFINE q == Feeds[d]
<1>1. /\ UNCHANGED <<newCallbacks, owner>> /\ q \in Pipelines
      /\ owner[q] = d /\ d # NoDriver /\ pc[d] = "handler" /\ pc'[d] = "scan"
      /\ at[d] <= Len(callbacks[q])
      /\ \A e \in Drivers \ {d} : pc'[e] = pc[e] /\ at'[e] = at[e]
      /\ \A p \in Pipelines \ {q} : callbacks'[p] = callbacks[p]
  <2> USE DEF IInv, Shape
  <2>1. q \in Pipelines /\ pc[d] = "handler" /\ d # NoDriver
    BY DriversAssumption DEF HandlerContinues, HandlerEnds
  <2>2. owner[q] = d /\ at[d] <= Len(callbacks[q])
    BY <2>1 DEF IteratorValid, InPass
  <2>3. CASE HandlerContinues(d)
    BY <2>1, <2>2, <2>3 DEF HandlerContinues, TypeOK
  <2>4. CASE HandlerEnds(d)
    BY <2>1, <2>2, <2>4 DEF HandlerEnds, TypeOK
  <2> QED BY <2>3, <2>4
<1>2. /\ Pending(q) \in Seq(Tasks) /\ at[d] \in 1..Len(Pending(q))
      /\ Pending(q)[at[d]] = Current(d) /\ Current(d) \in Tasks
  BY <1>1, CurrentIsPending DEF IInv
<1>3. Runs[q] = Current(d) /\ Runs[q] # NoTask
  BY <1>1, <1>2, TasksAssumption DEF Runs, RunsAt
<1>4. ASSUME NEW p \in Pipelines
      PROVE  RunsAt(p)' = IF p = q THEN NoTask ELSE RunsAt(p)
  <2>1. CASE p = q
    BY <1>1, <2>1 DEF RunsAt
  <2>2. CASE p # q
    BY <1>1, <2>2, OthersRunOn DEF IInv
  <2> QED BY <2>1, <2>2
<1>5. Runs' = [Runs EXCEPT ![q] = NoTask]
  BY <1>4 DEF Runs
<1>6. CASE HandlerContinues(d)
  <2>1. Queues' = Queues /\ FALSE \in Verdicts[Runs[q]]
    BY <1>3, <1>6 DEF HandlerContinues, Queues, Pending
  <2> QED BY <1>3, <1>5, <2>1 DEF Promise!Return, Queues, Pending, Runs, RunsAt
<1>7. CASE HandlerEnds(d)
  <2>1. IsInjective(Pending(q))
    BY <1>1, KeptEverywhere DEF IInv, Kept
  <2>2. Pending(q)' = RemoveFirst(Pending(q), Current(d))
    BY <1>2, <1>7, <2>1, EndErases, RemoveFirstIsRemoveAt DEF IInv
  <2>3. \A p \in Pipelines \ {q} : Pending(p)' = Pending(p)
    BY <1>7, EndErases DEF IInv
  <2>4. Queues' = [Queues EXCEPT ![q] = RemoveFirst(@, Runs[q])]
    BY <1>3, <2>2, <2>3 DEF Queues
  <2>5. TRUE \in Verdicts[Runs[q]]
    BY <1>3, <1>7 DEF HandlerEnds
  <2> QED BY <1>3, <1>5, <2>4, <2>5, SameRemoveFirst DEF Promise!Return, Queues, Pending, Runs, RunsAt
<1> QED BY <1>6, <1>7

\* Callers of schedule see one queue per pipeline and one handler of it at a
\* time, whatever the drivers, the two mutexes, the intervals and unloading do
\* (scheduler.cpp:36-82).
THEOREM SchedulerKeepsItsPromise == Spec => KeepsPromise
<1>1. Init => Promise!Init /\ OwnerFeeds /\ IInv
  <2> SUFFICES ASSUME Init PROVE Promise!Init /\ OwnerFeeds /\ IInv
    OBVIOUS
  <2>1. Queues = [p \in Pipelines |-> <<>>] /\ Runs = [p \in Pipelines |-> NoTask]
    BY DEF Init, Queues, Pending, Runs, RunsAt
  <2>2. OwnerFeeds /\ IInv
    BY InitIInv DEF Init, OwnerFeeds
  <2> QED BY <2>1, <2>2 DEF Promise!Init, Queues, Pending, Runs, RunsAt
<1>2. IInv /\ OwnerFeeds /\ [Next]_vars => IInv' /\ OwnerFeeds'
  BY StepIInv, StepOwnerFeeds DEF IInv, Shape
<1>3. IInv /\ OwnerFeeds /\ [Next]_vars => [Promise!Next]_(Promise!vars)
  <2> SUFFICES ASSUME IInv, OwnerFeeds, [Next]_vars
               PROVE  Promise!Next \/ UNCHANGED Promise!vars
    OBVIOUS
  <2>0. ASSUME Queues' = Queues /\ Runs' = Runs PROVE UNCHANGED Promise!vars
    BY <2>0 DEF Promise!vars, Queues, Pending, Runs, RunsAt
  <2>1. ASSUME NEW t \in Tasks, Schedule(t) PROVE Promise!Next
    BY <2>1, ScheduleSubmits DEF Promise!Next
  <2>2. ASSUME NEW d \in Drivers, Execute(d) PROVE Promise!Next \/ UNCHANGED Promise!vars
    <3>1. Feeds[d] \in Pipelines
      BY DriversAssumption
    <3>2. CASE CallHandler(d)
      BY <3>1, <3>2, CallHandlerStarts DEF Promise!Next
    <3>3. CASE HandlerContinues(d) \/ HandlerEnds(d)
      BY <3>1, <3>3, HandlerReturns DEF Promise!Next
    <3>4. CASE Acquire(d) \/ Merge(d) \/ SkipTask(d) \/ Release(d)
      BY <2>0, <3>4, PassIsSilent DEF IInv
    <3> QED BY <2>2, <3>2, <3>3, <3>4 DEF Execute
  <2>3. CASE PostLoad \/ PreDestroy \/ AsyncThreadEnds \/ Join \/ Tick \/ UNCHANGED vars
    BY <2>0, <2>3, OutsideIsSilent DEF IInv
  <2> QED BY <2>1, <2>2, <2>3 DEF Next, NeverLoaded
<1> QED BY <1>1, <1>2, <1>3, PTL DEF Spec, KeepsPromise, Promise!Spec

==============================================================================
