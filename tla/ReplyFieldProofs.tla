-------------------------- MODULE ReplyFieldProofs ---------------------------
(* Lemmas about the fields of ReplyFormat: for every field that fits its      *)
(* kind, and any buffer, what a read at the place where the field was written *)
(* returns, in the whole buffer and in the beginning of it; and that the      *)
(* fields of every record fit the reads of its deserialize.                   *)
EXTENDS ReplyFormat, SequenceTheorems, TLAPS

(* The byte_buffer: q is what it holds, m its cursor.                         *)

At(q, m) == [bytes |-> q, at |-> m, types |-> TRUE]
Bare(q, m) == [bytes |-> q, at |-> m, types |-> FALSE]
Done(val, b) == Result(TRUE, val, b)
Fails(b) == Result(FALSE, <<>>, b)

(* What there is of w at place m: all of it, or what q has room for.          *)
Begins(q, m, w) == \A i \in 1 .. Len(w) : m + i <= Len(q) => q[m + i] = w[i]

LEMMA AtIs ==
    \A q, m : /\ At(q, m).bytes = q /\ At(q, m).at = m /\ At(q, m).types
              /\ Bare(q, m).bytes = q /\ Bare(q, m).at = m /\ ~Bare(q, m).types
BY DEF At, Bare

LEMMA Changed ==
    ASSUME NEW q, NEW m, NEW n, NEW g \in BOOLEAN, NEW h \in BOOLEAN, NEW b,
           b = [bytes |-> q, at |-> m, types |-> g]
    PROVE  /\ [b EXCEPT !.at = n] = [bytes |-> q, at |-> n, types |-> g]
           /\ [b EXCEPT !.types = h] = [bytes |-> q, at |-> m, types |-> h]
OBVIOUS

LEMMA AtMoves ==
    ASSUME NEW q, NEW m, NEW n
    PROVE  [At(q, m) EXCEPT !.at = n] = At(q, n) /\ [Bare(q, m) EXCEPT !.at = n] = Bare(q, n)
<1>1. PICK on \in BOOLEAN : on = TRUE
    OBVIOUS
<1>2. PICK off \in BOOLEAN : off = FALSE
    OBVIOUS
<1>3. /\ At(q, m) = [bytes |-> q, at |-> m, types |-> on] /\ At(q, n) = [bytes |-> q, at |-> n, types |-> on]
      /\ Bare(q, m) = [bytes |-> q, at |-> m, types |-> off] /\ Bare(q, n) = [bytes |-> q, at |-> n, types |-> off]
    BY <1>1, <1>2 DEF At, Bare
<1> QED BY <1>3, Changed

LEMMA TypesChange ==
    ASSUME NEW q, NEW m
    PROVE  /\ [At(q, m) EXCEPT !.types = FALSE] = Bare(q, m)
           /\ [At(q, m) EXCEPT !.types = TRUE] = At(q, m)
           /\ [Bare(q, m) EXCEPT !.types = TRUE] = At(q, m)
           /\ [Bare(q, m) EXCEPT !.types = FALSE] = Bare(q, m)
<1>1. PICK on \in BOOLEAN : on = TRUE
    OBVIOUS
<1>2. PICK off \in BOOLEAN : off = FALSE
    OBVIOUS
<1>3. /\ At(q, m) = [bytes |-> q, at |-> m, types |-> on]
      /\ Bare(q, m) = [bytes |-> q, at |-> m, types |-> off]
    BY <1>1, <1>2 DEF At, Bare
<1>4. /\ [At(q, m) EXCEPT !.types = off] = Bare(q, m) /\ [At(q, m) EXCEPT !.types = on] = At(q, m)
      /\ [Bare(q, m) EXCEPT !.types = off] = Bare(q, m) /\ [Bare(q, m) EXCEPT !.types = on] = At(q, m)
    BY <1>3, Changed
<1> QED BY <1>1, <1>2, <1>4

LEMMA ResultIs ==
    \A val, b :
       /\ Done(val, b).ok /\ Done(val, b).val = val /\ Done(val, b).b = b /\ Done(val, b).inside
       /\ ~Fails(b).ok /\ Fails(b).val = <<>> /\ Fails(b).b = b /\ Fails(b).inside
BY DEF Result, Done, Fails

LEMMA ReadInside ==
    \A b, n : Read(b, n).inside
<1>1. \A ok, val, b : Result(ok, val, b).inside
    BY DEF Result
<1> QED BY <1>1, Zenon DEF Read

LEMMA OutsideIs ==
    \A b : Outside(b).ok /\ Outside(b).val = <<>> /\ Outside(b).b = b /\ ~Outside(b).inside
BY DEF Outside

LEMMA KindNumbers ==
    ASSUME NEW kind \in Fixed
    PROVE  Tag[kind] \in Nat /\ Width[kind] \in Nat \ {0}
BY DEF Fixed, Tag, Width

LEMMA Joined ==
    ASSUME NEW u \in Seq(Nat), NEW v \in Seq(Nat)
    PROVE  u \o v \in Seq(Nat) /\ Len(u \o v) = Len(u) + Len(v)
BY ConcatProperties

LEMMA SameSequence ==
    ASSUME NEW u \in Seq(Nat), NEW v \in Seq(Nat), Len(u) = Len(v),
           \A i \in 1 .. Len(u) : u[i] = v[i]
    PROVE  u = v
BY SeqEqual

LEMMA WordNumber ==
    ASSUME NEW n \in Nat
    PROVE  Number(Word(n)) = n /\ Word(n) \in Seq(Nat) /\ Len(Word(n)) = 4
BY DEF Word, Number

LEMMA BeginsParts ==
    ASSUME NEW q \in Seq(Nat), NEW m \in Nat, NEW u \in Seq(Nat), NEW v \in Seq(Nat),
           Begins(q, m, u \o v)
    PROVE  Begins(q, m, u) /\ Begins(q, m + Len(u), v)
<1>1. u \o v \in Seq(Nat) /\ Len(u \o v) = Len(u) + Len(v)
    BY Joined
<1>2. ASSUME NEW i \in 1 .. Len(u), m + i <= Len(q) PROVE q[m + i] = u[i]
    <2>1. i \in 1 .. Len(u \o v) /\ (u \o v)[i] = u[i]
        BY <1>1, ConcatProperties
    <2> QED BY <2>1, <1>2 DEF Begins
<1>3. ASSUME NEW i \in 1 .. Len(v), m + Len(u) + i <= Len(q) PROVE q[m + Len(u) + i] = v[i]
    <2>1. Len(u) + i \in 1 .. Len(u \o v) /\ (u \o v)[Len(u) + i] = v[i]
        BY <1>1, ConcatProperties
    <2>2. m + (Len(u) + i) = m + Len(u) + i
        OBVIOUS
    <2> QED BY <2>1, <2>2, <1>3 DEF Begins
<1> QED BY <1>2, <1>3 DEF Begins

LEMMA BeginsTagged ==
    ASSUME NEW q \in Seq(Nat), NEW m \in Nat, NEW tag \in Nat, NEW v \in Seq(Nat),
           Begins(q, m, <<tag>> \o v)
    PROVE  Begins(q, m + 1, v) /\ (m + 1 <= Len(q) => q[m + 1] = tag)
<1>1. <<tag>> \in Seq(Nat) /\ Len(<<tag>>) = 1
    OBVIOUS
<1>2. Begins(q, m, <<tag>>) /\ Begins(q, m + 1, v)
    BY <1>1, BeginsParts
<1>3. m + 1 <= Len(q) => q[m + 1] = <<tag>>[1]
    BY <1>1, <1>2 DEF Begins
<1> QED BY <1>2, <1>3

LEMMA PartIs ==
    ASSUME NEW q \in Seq(Nat), NEW m \in Nat, NEW w \in Seq(Nat), m + Len(w) <= Len(q), Begins(q, m, w)
    PROVE  SubSeq(q, m + 1, m + Len(w)) = w
<1> DEFINE u == SubSeq(q, m + 1, m + Len(w))
<1>1. Len(u) = Len(w) /\ u \in Seq(Nat)
    OBVIOUS
<1>2. \A i \in 1 .. (m + Len(w)) - (m + 1) + 1 : u[i] = q[(m + 1) + i - 1]
    BY SubSeqProperties
<1> HIDE DEF u
<1>3. ASSUME NEW i \in 1 .. Len(w) PROVE u[i] = w[i]
    <2>1. i \in 1 .. (m + Len(w)) - (m + 1) + 1 /\ (m + 1) + i - 1 = m + i /\ m + i <= Len(q)
        OBVIOUS
    <2>2. u[i] = q[m + i]
        BY <1>2, <2>1
    <2>3. q[m + i] = w[i]
        BY <2>1 DEF Begins
    <2> QED BY <2>2, <2>3
<1>4. u = w
    BY <1>1, <1>3, SameSequence
<1> QED BY <1>4 DEF u

LEMMA ReadIs ==
    ASSUME NEW q \in Seq(Nat), NEW m \in Nat, NEW n \in Nat
    PROVE  /\ m + n <= Len(q) =>
                 /\ Read(At(q, m), n) = Done(SubSeq(q, m + 1, m + n), At(q, m + n))
                 /\ Read(Bare(q, m), n) = Done(SubSeq(q, m + 1, m + n), Bare(q, m + n))
           /\ m + n > Len(q) =>
                 Read(At(q, m), n) = Fails(At(q, m)) /\ Read(Bare(q, m), n) = Fails(Bare(q, m))
<1>1. ASSUME NEW b, NEW c, b.bytes = q, b.at = m, [b EXCEPT !.at = b.at + n] = c
      PROVE  /\ m + n <= Len(q) => Read(b, n) = Done(SubSeq(q, m + 1, m + n), c)
             /\ m + n > Len(q) => Read(b, n) = Fails(b)
    <2>1. m + n <= Len(q) <=> ~(m + n > Len(q))
        OBVIOUS
    <2> QED BY <1>1, <2>1 DEF Read, Done, Fails
<1>2. /\ At(q, m).bytes = q /\ At(q, m).at = m
      /\ Bare(q, m).bytes = q /\ Bare(q, m).at = m
    BY AtIs
<1>3. /\ [At(q, m) EXCEPT !.at = At(q, m).at + n] = At(q, m + n)
      /\ [Bare(q, m) EXCEPT !.at = Bare(q, m).at + n] = Bare(q, m + n)
    <2>1. [At(q, m) EXCEPT !.at = m + n] = At(q, m + n) /\ [Bare(q, m) EXCEPT !.at = m + n] = Bare(q, m + n)
        BY AtMoves
    <2> QED BY <1>2, <2>1
<1> QED BY <1>1, <1>2, <1>3

(* What is asked for is there, or the read fails.                             *)
LEMMA ReadBack ==
    ASSUME NEW q \in Seq(Nat), NEW m \in Nat, NEW w \in Seq(Nat)
    PROVE  /\ m + Len(w) <= Len(q) /\ Begins(q, m, w) =>
                 /\ Read(At(q, m), Len(w)) = Done(w, At(q, m + Len(w)))
                 /\ Read(Bare(q, m), Len(w)) = Done(w, Bare(q, m + Len(w)))
           /\ m + Len(w) > Len(q) =>
                 Read(At(q, m), Len(w)) = Fails(At(q, m)) /\ Read(Bare(q, m), Len(w)) = Fails(Bare(q, m))
<1>1. Len(w) \in Nat
    OBVIOUS
<1>2. m + Len(w) <= Len(q) /\ Begins(q, m, w) => SubSeq(q, m + 1, m + Len(w)) = w
    BY PartIs
<1>3. CASE m + Len(w) <= Len(q)
    <2>1. /\ Read(At(q, m), Len(w)) = Done(SubSeq(q, m + 1, m + Len(w)), At(q, m + Len(w)))
          /\ Read(Bare(q, m), Len(w)) = Done(SubSeq(q, m + 1, m + Len(w)), Bare(q, m + Len(w)))
        BY <1>1, <1>3, ReadIs
    <2>2. ~(m + Len(w) > Len(q))
        BY <1>1, <1>3
    <2>3. Begins(q, m, w) => SubSeq(q, m + 1, m + Len(w)) = w
        BY <1>2, <1>3
    <2> QED BY <2>1, <2>2, <2>3
<1>4. CASE m + Len(w) > Len(q)
    <2>1. Read(At(q, m), Len(w)) = Fails(At(q, m)) /\ Read(Bare(q, m), Len(w)) = Fails(Bare(q, m))
        BY <1>1, <1>4, ReadIs
    <2>2. ~(m + Len(w) <= Len(q))
        BY <1>1, <1>4
    <2> QED BY <2>1, <2>2
<1> QED BY <1>1, <1>3, <1>4

LEMMA DataTypes ==
    ASSUME NEW b, NEW tag
    PROVE  /\ ~b.types => ReadDataType(b, tag) = {Done(<<>>, b)}
           /\ b.types /\ Read(b, 1).ok /\ Read(b, 1).val = <<tag>> =>
                 ReadDataType(b, tag) = {Done(<<>>, Read(b, 1).b)}
           /\ b.types /\ Read(b, 1).ok /\ Read(b, 1).val # <<tag>> =>
                 ReadDataType(b, tag) = {Fails(Read(b, 1).b)}
           /\ b.types /\ ~Read(b, 1).ok => ReadDataType(b, tag) = {Done(<<>>, b), Fails(b)}
<1>1. {Result(ok, <<>>, b) : ok \in BOOLEAN} = {Done(<<>>, b), Fails(b)}
    BY DEF Done, Fails
<1> QED BY <1>1 DEF ReadDataType, Done, Fails

(* The byte in front of a value.                                              *)
LEMMA TagBack ==
    ASSUME NEW q \in Seq(Nat), NEW m \in Nat, NEW tag \in Nat, NEW t \in ReadDataType(At(q, m), tag)
    PROVE  /\ m + 1 <= Len(q) /\ q[m + 1] = tag => t = Done(<<>>, At(q, m + 1))
           /\ m + 1 <= Len(q) /\ q[m + 1] # tag => t = Fails(At(q, m + 1))
           /\ m + 1 > Len(q) => t = Done(<<>>, At(q, m)) \/ t = Fails(At(q, m))
<1>1. At(q, m).types
    BY AtIs
<1>2. ASSUME m + 1 > Len(q) PROVE t = Done(<<>>, At(q, m)) \/ t = Fails(At(q, m))
    <2>1. Read(At(q, m), 1) = Fails(At(q, m))
        BY <1>2, ReadIs
    <2>2. ~Read(At(q, m), 1).ok
        BY <2>1, ResultIs
    <2> QED BY <1>1, <2>2, DataTypes
<1>3. ASSUME m + 1 <= Len(q)
      PROVE  /\ q[m + 1] = tag => t = Done(<<>>, At(q, m + 1))
             /\ q[m + 1] # tag => t = Fails(At(q, m + 1))
    <2> DEFINE one == SubSeq(q, m + 1, m + 1)
    <2>1. Read(At(q, m), 1) = Done(one, At(q, m + 1))
        BY <1>3, ReadIs
    <2>2. one = <<q[m + 1]>>
        <3>1. <<q[m + 1]>> \in Seq(Nat) /\ Len(<<q[m + 1]>>) = 1
            BY <1>3
        <3>2. Begins(q, m, <<q[m + 1]>>)
            BY <3>1 DEF Begins
        <3> QED BY <1>3, <3>1, <3>2, PartIs
    <2>3. one = <<tag>> <=> q[m + 1] = tag
        BY <2>2
    <2> HIDE DEF one
    <2>4. /\ Read(At(q, m), 1).ok /\ Read(At(q, m), 1).val = one
          /\ Read(At(q, m), 1).b = At(q, m + 1)
        BY <2>1, ResultIs
    <2>5. /\ one = <<tag>> => ReadDataType(At(q, m), tag) = {Done(<<>>, At(q, m + 1))}
          /\ one # <<tag>> => ReadDataType(At(q, m), tag) = {Fails(At(q, m + 1))}
        <3>1. PICK b, c : b = At(q, m) /\ c = At(q, m + 1)
            OBVIOUS
        <3>2. b.types /\ Read(b, 1).ok /\ Read(b, 1).val = one /\ Read(b, 1).b = c
            BY <1>1, <2>4, <3>1, Zenon
        <3>3. /\ one = <<tag>> => ReadDataType(b, tag) = {Done(<<>>, c)}
              /\ one # <<tag>> => ReadDataType(b, tag) = {Fails(c)}
            BY <3>2, DataTypes, Zenon
        <3> QED BY <3>1, <3>3, Zenon
    <2> QED BY <2>3, <2>5
<1> QED BY <1>2, <1>3

LEMMA TagInside ==
    ASSUME NEW b, NEW tag, NEW t \in ReadDataType(b, tag)
    PROVE  t.inside
<1>1. \A ok, val, c : Result(ok, val, c).inside
    BY DEF Result
<1>2. PICK r : r = Read(b, 1)
    OBVIOUS
<1>3. t \in IF ~b.types THEN {Result(TRUE, <<>>, b)}
            ELSE IF r.ok THEN {Result(r.val = <<tag>>, <<>>, r.b)}
            ELSE {Result(ok, <<>>, b) : ok \in BOOLEAN}
    BY <1>2, Zenon DEF ReadDataType
<1>4. \E ok, c : t = Result(ok, <<>>, c)
    BY <1>3, Zenon
<1> QED BY <1>1, <1>4, Zenon

(* A value of fixed width.                                                    *)
LEMMA FixedBack ==
    ASSUME NEW q \in Seq(Nat), NEW m \in Nat, NEW kind \in Fixed, NEW val \in Seq(Nat),
           Len(val) = Width[kind], NEW r \in ReadFixed(At(q, m), kind)
    PROVE  /\ r.inside
           /\ m + 1 + Len(val) > Len(q) => ~r.ok
           /\ m + 1 + Len(val) <= Len(q) /\ Begins(q, m, <<Tag[kind]>> \o val) =>
                 r = Done(val, At(q, m + 1 + Len(val)))
<1>1. Tag[kind] \in Nat /\ Width[kind] \in Nat /\ Width[kind] > 0
    BY KindNumbers
<1>2. PICK t \in ReadDataType(At(q, m), Tag[kind]) : r = IF t.ok THEN Read(t.b, Width[kind]) ELSE t
    BY DEF ReadFixed
<1>4. t = Done(<<>>, At(q, m)) \/ t = Fails(At(q, m)) \/ t = Done(<<>>, At(q, m + 1)) \/ t = Fails(At(q, m + 1))
    <2>1. PICK tag \in Nat : tag = Tag[kind]
        BY <1>1
    <2>2. t \in ReadDataType(At(q, m), tag)
        BY <1>2, <2>1, Zenon
    <2>3. m + 1 <= Len(q) \/ m + 1 > Len(q)
        OBVIOUS
    <2> QED BY <2>2, <2>3, TagBack, Zenon
<1>5. r.inside
    <2>1. t.inside
        BY <1>2, TagInside, Zenon
    <2>2. r = Read(t.b, Width[kind]) \/ r = t
        BY <1>2, Zenon
    <2> QED BY <2>1, <2>2, ReadInside, Zenon
<1>6. ASSUME m + 1 + Len(val) > Len(q) PROVE ~r.ok
    <2>1. CASE m + 1 > Len(q)
        <3>1. Read(At(q, m), Width[kind]) = Fails(At(q, m))
            BY <1>1, <2>1, ReadIs
        <3>2. t = Done(<<>>, At(q, m)) \/ t = Fails(At(q, m))
            BY <1>1, <2>1, TagBack
        <3>3. t.ok => t.b = At(q, m)
            BY <3>2, ResultIs
        <3>4. t.ok => r = Fails(At(q, m))
            BY <1>2, <3>1, <3>3, Zenon
        <3>5. ~t.ok => r = t
            BY <1>2, Zenon
        <3> QED BY <3>4, <3>5, ResultIs
    <2>2. CASE m + 1 <= Len(q)
        <3>1. Read(At(q, m + 1), Width[kind]) = Fails(At(q, m + 1))
            BY <1>1, <1>6, ReadIs
        <3>2. t = Done(<<>>, At(q, m + 1)) \/ t = Fails(At(q, m + 1))
            BY <1>1, <2>2, TagBack
        <3>3. t.ok => t.b = At(q, m + 1)
            BY <3>2, ResultIs
        <3>4. t.ok => r = Fails(At(q, m + 1))
            BY <1>2, <3>1, <3>3, Zenon
        <3>5. ~t.ok => r = t
            BY <1>2, Zenon
        <3> QED BY <3>4, <3>5, ResultIs
    <2> QED BY <2>1, <2>2
<1>7. ASSUME m + 1 + Len(val) <= Len(q), Begins(q, m, <<Tag[kind]>> \o val)
      PROVE  r = Done(val, At(q, m + 1 + Len(val)))
    <2>0. m + 1 <= Len(q)
        BY <1>7
    <2>1. q[m + 1] = Tag[kind] /\ Begins(q, m + 1, val)
        BY <1>1, <1>7, <2>0, BeginsTagged
    <2>2. Read(At(q, m + 1), Len(val)) = Done(val, At(q, m + 1 + Len(val)))
        <3>1. m + 1 \in Nat
            OBVIOUS
        <3> QED BY <1>7, <2>1, <3>1, ReadBack
    <2>3. t = Done(<<>>, At(q, m + 1))
        BY <1>1, <2>0, <2>1, TagBack
    <2> QED BY <1>2, <2>2, <2>3, ResultIs
<1> QED BY <1>5, <1>6, <1>7

LEMMA BareBack ==
    ASSUME NEW q \in Seq(Nat), NEW m \in Nat, NEW kind \in Fixed, NEW val \in Seq(Nat),
           Len(val) = Width[kind], NEW r \in ReadFixed(Bare(q, m), kind)
    PROVE  /\ m + Len(val) > Len(q) => r = Fails(Bare(q, m))
           /\ m + Len(val) <= Len(q) /\ Begins(q, m, val) => r = Done(val, Bare(q, m + Len(val)))
<1>1. ReadDataType(Bare(q, m), Tag[kind]) = {Done(<<>>, Bare(q, m))}
    BY AtIs, DataTypes
<1>2. r = Read(Bare(q, m), Width[kind])
    BY <1>1, ResultIs DEF ReadFixed
<1>3. /\ m + Len(val) <= Len(q) /\ Begins(q, m, val) => Read(Bare(q, m), Len(val)) = Done(val, Bare(q, m + Len(val)))
      /\ m + Len(val) > Len(q) => Read(Bare(q, m), Len(val)) = Fails(Bare(q, m))
    BY ReadBack, Zenon
<1> QED BY <1>2, <1>3, Zenon

(* A string ends at the first zero, or one behind the last byte.              *)
LEMMA FirstOfEnds ==
    ASSUME NEW q \in Seq(Nat), NEW m \in Nat, NEW e \in m + 1 .. Len(q) + 1,
           e <= Len(q) => q[e] = 0, \A i \in m + 1 .. e - 1 : q[i] # 0,
           NEW ends, ends = {i \in m + 1 .. Len(q) : q[i] = 0} \cup {Len(q) + 1}
    PROVE  (CHOOSE i \in ends : \A j \in ends : i <= j) = e
<1> DEFINE end == CHOOSE i \in ends : \A j \in ends : i <= j
<1>1. e \in ends
    BY e <= Len(q) \/ e = Len(q) + 1
<1>2. ASSUME NEW j \in ends PROVE e <= j /\ j \in Nat
    <2>1. CASE j = Len(q) + 1
        BY <2>1
    <2>2. CASE j \in m + 1 .. Len(q) /\ q[j] = 0
        <3>1. ~(j \in m + 1 .. e - 1)
            BY <2>2
        <3> QED BY <2>2, <3>1
    <2> QED BY <2>1, <2>2
<1>3. end \in ends /\ \A j \in ends : end <= j
    BY <1>1, <1>2
<1> HIDE DEF end
<1>4. end <= e /\ e <= end /\ e \in Nat /\ end \in Nat
    BY <1>1, <1>2, <1>3
<1>5. end = e
    BY <1>4
<1> QED BY <1>5 DEF end

LEMMA StringEnds ==
    ASSUME NEW q \in Seq(Nat), NEW m \in Nat, m <= Len(q), NEW e \in m + 1 .. Len(q) + 1,
           e <= Len(q) => q[e] = 0, \A i \in m + 1 .. e - 1 : q[i] # 0
    PROVE  StringAt(At(q, m)) = Done(SubSeq(q, m + 1, e - 1), At(q, e))
<1> DEFINE b == At(q, m)
           ends == {i \in (b.at + 1) .. Len(b.bytes) : b.bytes[i] = 0} \cup {Len(b.bytes) + 1}
           end == CHOOSE i \in ends : \A j \in ends : i <= j
<1>1. b.bytes = q /\ b.at = m
    BY AtIs
<1>2. [b EXCEPT !.at = e] = At(q, e)
    BY AtMoves
<1>3. StringAt(b) = IF b.at > Len(b.bytes) THEN Outside(b)
                    ELSE Result(TRUE, SubSeq(b.bytes, b.at + 1, end - 1), [b EXCEPT !.at = end])
    BY DEF StringAt
<1> HIDE DEF b
<1>4. ends = {i \in m + 1 .. Len(q) : q[i] = 0} \cup {Len(q) + 1}
    BY <1>1
<1> HIDE DEF ends
<1>5. end = e
    BY <1>4, FirstOfEnds
<1>6. ~(b.at > Len(b.bytes))
    BY <1>1
<1> HIDE DEF end
<1>7. StringAt(b) = Done(SubSeq(q, m + 1, e - 1), At(q, e))
    BY <1>1, <1>2, <1>3, <1>5, <1>6 DEF Done
<1> QED BY <1>7 DEF b

LEMMA StringOutside ==
    ASSUME NEW q \in Seq(Nat), NEW m \in Nat, m > Len(q)
    PROVE  StringAt(At(q, m)) = Outside(At(q, m))
<1>1. At(q, m).at > Len(At(q, m).bytes)
    BY AtIs
<1> QED BY <1>1 DEF StringAt

(* The end of the bytes leaves the beginning of a string.                     *)
LEMMA FrontIs ==
    ASSUME NEW q \in Seq(Nat), NEW m \in Nat, NEW val \in Seq(Nat), NEW n \in 0 .. Len(val),
           m + n <= Len(q), Begins(q, m, val)
    PROVE  SubSeq(q, m + 1, m + n) = SubSeq(val, 1, n)
<1>1. PICK w : w = SubSeq(val, 1, n)
    OBVIOUS
<1>2. w \in Seq(Nat) /\ Len(w) = n
    BY <1>1
<1>3. \A i \in 1 .. n : w[i] = val[i]
    <2>1. \A i \in 1 .. n - 1 + 1 : SubSeq(val, 1, n)[i] = val[1 + i - 1]
        BY SubSeqProperties
    <2> QED BY <1>1, <2>1
<1>4. ASSUME NEW i \in 1 .. Len(w), m + i <= Len(q) PROVE q[m + i] = w[i]
    <2>1. i \in 1 .. n /\ i \in 1 .. Len(val)
        BY <1>2
    <2>2. q[m + i] = val[i]
        BY <1>4, <2>1 DEF Begins
    <2> QED BY <1>3, <2>1, <2>2
<1>5. SubSeq(q, m + 1, m + Len(w)) = w
    <2>1. Begins(q, m, w)
        BY <1>4 DEF Begins
    <2> QED BY <1>2, <2>1, PartIs
<1> QED BY <1>1, <1>2, <1>5

LEMMA FrontIsPrefix ==
    ASSUME NEW val \in Seq(Nat), NEW n \in 0 .. Len(val)
    PROVE  IsPrefix(SubSeq(val, 1, n), val)
<1>1. PICK w : w = SubSeq(val, 1, n)
    OBVIOUS
<1>2. w \in Seq(Nat) /\ Len(w) = n
    BY <1>1
<1>3. \A i \in 1 .. Len(w) : w[i] = val[i]
    <2>1. \A i \in 1 .. n - 1 + 1 : SubSeq(val, 1, n)[i] = val[1 + i - 1]
        BY SubSeqProperties
    <2> QED BY <1>1, <1>2, <2>1
<1>4. SubSeq(val, 1, Len(w)) = w
    BY <1>1, <1>2
<1> QED BY <1>1, <1>2, <1>3, <1>4 DEF IsPrefix

LEMMA StringCut ==
    ASSUME NEW q \in Seq(Nat), NEW m \in Nat, NEW val \in Seq(Nat), m <= Len(q), m + Len(val) >= Len(q),
           \A i \in 1 .. Len(val) : val[i] # 0, Begins(q, m, val)
    PROVE  \E v : StringAt(At(q, m)) = Done(v, At(q, Len(q) + 1)) /\ IsPrefix(v, val)
<1>1. PICK n \in 0 .. Len(val) : m + n = Len(q)
    <2>1. Len(q) - m \in 0 .. Len(val) /\ m + (Len(q) - m) = Len(q)
        OBVIOUS
    <2> QED BY <2>1
<1>2. ASSUME NEW i \in m + 1 .. (Len(q) + 1) - 1 PROVE q[i] # 0
    <2>1. i - m \in 1 .. Len(val) /\ m + (i - m) = i /\ i <= Len(q)
        OBVIOUS
    <2>2. q[m + (i - m)] = val[i - m]
        BY <2>1 DEF Begins
    <2> QED BY <2>1, <2>2
<1>3. StringAt(At(q, m)) = Done(SubSeq(q, m + 1, (Len(q) + 1) - 1), At(q, Len(q) + 1))
    <2>1. Len(q) + 1 \in m + 1 .. Len(q) + 1 /\ ~(Len(q) + 1 <= Len(q))
        OBVIOUS
    <2> QED BY <1>2, <2>1, StringEnds
<1>4. (Len(q) + 1) - 1 = m + n
    BY <1>1
<1>5. SubSeq(q, m + 1, m + n) = SubSeq(val, 1, n)
    <2>1. m + n <= Len(q)
        BY <1>1
    <2> QED BY <2>1, FrontIs
<1>6. IsPrefix(SubSeq(val, 1, n), val)
    BY FrontIsPrefix
<1> QED BY <1>3, <1>4, <1>5, <1>6

LEMMA StringBack ==
    ASSUME NEW q \in Seq(Nat), NEW m \in Nat, NEW val \in Seq(Nat), \A i \in 1 .. Len(val) : val[i] # 0,
           NEW r \in ReadString(At(q, m)), Begins(q, m, <<Tag.string>> \o Append(val, 0))
    PROVE  /\ m + 2 + Len(val) <= Len(q) => r = Done(val, At(q, m + 2 + Len(val)))
           /\ m + 2 + Len(val) > Len(q) =>
                 \/ ~r.ok
                 \/ r.inside /\ IsPrefix(r.val, val) /\ r.b = At(q, Len(q) + 1)
                 \/ ~r.inside /\ r.val = <<>>
<1>1. Tag.string = 16 /\ Append(val, 0) \in Seq(Nat) /\ Len(Append(val, 0)) = Len(val) + 1
    BY DEF Tag
<1>2. PICK t \in ReadDataType(At(q, m), 16) : r = IF t.ok THEN StringAt(t.b) ELSE t
    BY <1>1 DEF ReadString
<1>3. Begins(q, m, << 16 >> \o Append(val, 0))
    BY <1>1
<1>4. Begins(q, m + 1, Append(val, 0)) /\ (m + 1 <= Len(q) => q[m + 1] = 16)
    BY <1>1, <1>3, BeginsTagged
<1>5. /\ \A i \in 1 .. Len(val) : m + 1 + i <= Len(q) => q[m + 1 + i] = val[i]
      /\ m + 2 + Len(val) <= Len(q) => q[m + 2 + Len(val)] = 0
    <2>1. /\ \A i \in 1 .. Len(val) : i \in 1 .. Len(Append(val, 0)) /\ Append(val, 0)[i] = val[i]
          /\ Append(val, 0)[Len(val) + 1] = 0 /\ Len(val) + 1 \in 1 .. Len(Append(val, 0))
        BY <1>1
    <2>2. \A i \in 1 .. Len(val) : m + 1 + i <= Len(q) => q[m + 1 + i] = val[i]
        BY <1>4, <2>1 DEF Begins
    <2>3. m + 1 + (Len(val) + 1) <= Len(q) => q[m + 1 + (Len(val) + 1)] = 0
        BY <1>4, <2>1 DEF Begins
    <2>4. m + 1 + (Len(val) + 1) = m + 2 + Len(val)
        OBVIOUS
    <2> QED BY <2>2, <2>3, <2>4
<1>6. Begins(q, m + 1, val)
    BY <1>5 DEF Begins
<1>7. ASSUME m + 2 + Len(val) <= Len(q) PROVE r = Done(val, At(q, m + 2 + Len(val)))
    <2>1. m + 1 <= Len(q)
        BY <1>7
    <2>2. t = Done(<<>>, At(q, m + 1))
        BY <1>4, <2>1, TagBack
    <2>3. r = StringAt(At(q, m + 1))
        BY <1>2, <2>2, ResultIs
    <2> DEFINE e == m + 2 + Len(val)
    <2>4. e \in (m + 1) + 1 .. Len(q) + 1 /\ e - 1 = (m + 1) + Len(val)
        BY <1>7
    <2>5. ASSUME NEW i \in (m + 1) + 1 .. e - 1 PROVE q[i] # 0
        <3>1. i - (m + 1) \in 1 .. Len(val) /\ m + 1 + (i - (m + 1)) = i /\ i <= Len(q)
            BY <1>7
        <3> QED BY <1>5, <3>1
    <2>6. q[e] = 0
        BY <1>5, <1>7
    <2> HIDE DEF e
    <2>7. StringAt(At(q, m + 1)) = Done(SubSeq(q, (m + 1) + 1, e - 1), At(q, e))
        <3>1. PICK p \in Nat : p = m + 1
            OBVIOUS
        <3>2. /\ p <= Len(q) /\ e \in p + 1 .. Len(q) + 1 /\ (e <= Len(q) => q[e] = 0)
              /\ \A i \in p + 1 .. e - 1 : q[i] # 0
            BY <2>1, <2>4, <2>5, <2>6, <3>1
        <3>3. StringAt(At(q, p)) = Done(SubSeq(q, p + 1, e - 1), At(q, e))
            BY <3>2, StringEnds, Zenon
        <3> QED BY <3>1, <3>3, Zenon
    <2>8. SubSeq(q, (m + 1) + 1, (m + 1) + Len(val)) = val
        <3>1. m + 1 + Len(val) <= Len(q)
            BY <1>7
        <3> QED BY <1>6, <3>1, PartIs
    <2> QED BY <2>3, <2>4, <2>7, <2>8 DEF e
<1>8. ASSUME m + 2 + Len(val) > Len(q), r.ok
      PROVE  \/ r.inside /\ IsPrefix(r.val, val) /\ r.b = At(q, Len(q) + 1)
             \/ ~r.inside /\ r.val = <<>>
    <2>1. CASE m + 1 <= Len(q)
        <3>1. t = Done(<<>>, At(q, m + 1))
            BY <1>4, <2>1, TagBack
        <3>2. r = StringAt(At(q, m + 1))
            BY <1>2, <3>1, ResultIs
        <3>3. PICK v : StringAt(At(q, m + 1)) = Done(v, At(q, Len(q) + 1)) /\ IsPrefix(v, val)
            <4>1. m + 1 \in Nat /\ m + 1 + Len(val) >= Len(q)
                BY <1>8
            <4> QED BY <1>6, <2>1, <4>1, StringCut
        <3> QED BY <3>2, <3>3, ResultIs
    <2>2. CASE m + 1 > Len(q)
        <3>1. t = Done(<<>>, At(q, m)) \/ t = Fails(At(q, m))
            BY <2>2, TagBack
        <3>2. r = StringAt(At(q, m))
            BY <1>2, <1>8, <3>1, ResultIs
        <3>3. CASE m > Len(q)
            <4>1. StringAt(At(q, m)) = Outside(At(q, m))
                BY <3>3, StringOutside
            <4> QED BY <3>2, <4>1, OutsideIs
        <3>4. CASE m <= Len(q)
            <4>1. m = Len(q)
                BY <2>2, <3>4
            <4>2. Begins(q, m, val) /\ m + Len(val) >= Len(q)
                BY <4>1 DEF Begins
            <4>3. PICK v : StringAt(At(q, m)) = Done(v, At(q, Len(q) + 1)) /\ IsPrefix(v, val)
                BY <3>4, <4>2, StringCut
            <4> QED BY <3>2, <4>3, ResultIs
        <3> QED BY <3>3, <3>4
    <2> QED BY <2>1, <2>2
<1> QED BY <1>7, <1>8

Regroups(u, v, w) == (u \o v) \o w = u \o (v \o w)

LEMMA JoinedTwice ==
    ASSUME NEW S, NEW u \in Seq(S), NEW v \in Seq(S), NEW w \in Seq(S)
    PROVE  Regroups(u, v, w)
BY ConcatAssociative DEF Regroups

LEMMA SizeParts ==
    ASSUME NEW q \in Seq(Nat), NEW m \in Nat, NEW head \in Seq(Nat), NEW word \in Seq(Nat), NEW val \in Seq(Nat),
           Len(head) = 1, Len(word) = 4, Begins(q, m, head \o (word \o val))
    PROVE  Begins(q, m, head \o word) /\ Begins(q, m + 5, val)
<1>1. head \o word \in Seq(Nat) /\ Len(head \o word) = 5
    <2>1. head \o word \in Seq(Nat) /\ Len(head \o word) = Len(head) + Len(word)
        BY Joined
    <2>2. Len(head) + Len(word) = 5
        OBVIOUS
    <2> QED BY <2>1, <2>2
<1>2. Begins(q, m, (head \o word) \o val)
    <2>1. (head \o word) \o val = head \o (word \o val)
        <3>1. Regroups(head, word, val)
            BY JoinedTwice
        <3> QED BY <3>1, Zenon DEF Regroups
    <2> QED BY <2>1, Zenon
<1> QED BY <1>1, <1>2, BeginsParts

(* The type of what follows, and its size.                                    *)
LEMMA SizeBack ==
    ASSUME NEW q \in Seq(Nat), NEW m \in Nat, NEW tag \in Nat, NEW word \in Seq(Nat), Len(word) = 4,
           m + 1 <= Len(q) => q[m + 1] = tag, NEW head, head = << 8 >>, Begins(q, m + 1, head \o word),
           NEW t \in ReadDataType(At(q, m), tag), t.ok, NEW s \in ReadFixed(t.b, "uint32")
    PROVE  /\ m + 6 > Len(q) => ~s.ok
           /\ m + 6 <= Len(q) => s = Done(word, At(q, m + 6))
<1>1. "uint32" \in Fixed /\ Width["uint32"] = 4 /\ Tag["uint32"] = 8
    BY DEF Tag, Width, Fixed
<1>2. CASE m + 1 <= Len(q)
    <2>1. t = Done(<<>>, At(q, m + 1))
        BY <1>2, TagBack
    <2>2. t.b = At(q, m + 1)
        BY <2>1, ResultIs
    <2>3. m + 1 \in Nat /\ m + 1 + 1 + Len(word) = m + 6
        OBVIOUS
    <2>4. Begins(q, m + 1, <<Tag["uint32"]>> \o word)
        BY <1>1, Zenon
    <2>5. /\ m + 1 + 1 + Len(word) > Len(q) => ~s.ok
          /\ m + 1 + 1 + Len(word) <= Len(q) => s = Done(word, At(q, m + 1 + 1 + Len(word)))
        <3>1. PICK p \in Nat : p = m + 1
            OBVIOUS
        <3>2. s \in ReadFixed(At(q, p), "uint32") /\ Begins(q, p, <<Tag["uint32"]>> \o word)
            BY <2>2, <2>4, <3>1, Zenon
        <3>3. Len(word) = Width["uint32"]
            BY <1>1
        <3>4. /\ p + 1 + Len(word) > Len(q) => ~s.ok
              /\ p + 1 + Len(word) <= Len(q) => s = Done(word, At(q, p + 1 + Len(word)))
            BY <1>1, <3>2, <3>3, FixedBack, Zenon
        <3> QED BY <3>1, <3>4
    <2> QED BY <2>3, <2>5
<1>3. CASE ~(m + 1 <= Len(q))
    <2>1. t = Done(<<>>, At(q, m))
        <3>1. m + 1 > Len(q)
            BY <1>3
        <3> QED BY <3>1, TagBack, ResultIs
    <2>2. t.b = At(q, m)
        BY <2>1, ResultIs
    <2>3. m + 1 + Len(word) > Len(q) /\ ~(m + 6 <= Len(q))
        BY <1>3
    <2>4. ~s.ok
        BY <1>1, <2>2, <2>3, FixedBack, Zenon
    <2> QED BY <2>3, <2>4
<1> QED BY <1>2, <1>3

(* A blob or a struct: its type, its size, its bytes.                         *)
LEMMA SizedBack ==
    ASSUME NEW q \in Seq(Nat), NEW m \in Nat, NEW kind \in {"blob", "struct"}, NEW val \in Seq(Nat),
           NEW r \in ReadSized(At(q, m), kind),
           Begins(q, m, <<Tag[kind]>> \o (<< 8 >> \o (Word(Len(val)) \o val)))
    PROVE  /\ m + 6 + Len(val) <= Len(q) => r = Done(val, At(q, m + 6 + Len(val)))
           /\ m + 6 + Len(val) > Len(q) => ~r.ok \/ ~r.inside
<1> DEFINE word == Word(Len(val))
           tag == Tag[kind]
<1>1. /\ word \in Seq(Nat) /\ Len(word) = 4 /\ Number(word) = Len(val)
      /\ tag \in Nat /\ "uint32" \in Fixed /\ Width["uint32"] = 4 /\ Tag["uint32"] = 8
    <2>1. tag \in Nat /\ "uint32" \in Fixed /\ Width["uint32"] = 4 /\ Tag["uint32"] = 8
        BY DEF Tag, Width, Fixed
    <2>2. Len(val) \in Nat
        OBVIOUS
    <2> QED BY <2>1, <2>2, WordNumber
<1>2. PICK t \in ReadDataType(At(q, m), tag) :
         \/ r = t /\ ~t.ok
         \/ t.ok /\ \E s \in ReadFixed(t.b, "uint32") : r = SizedAt(s)
    BY DEF ReadSized
<1>3. Begins(q, m, <<tag>> \o (<< 8 >> \o (word \o val)))
    OBVIOUS
<1> HIDE DEF word, tag
<1>4. PICK head : head = << 8 >>
    OBVIOUS
<1>5. head \in Seq(Nat) /\ Len(head) = 1
    BY <1>4
<1>6. head \o (word \o val) \in Seq(Nat) /\ Begins(q, m, <<tag>> \o (head \o (word \o val)))
    <2>1. Begins(q, m, <<tag>> \o (head \o (word \o val)))
        BY <1>3, <1>4, Zenon
    <2>2. word \o val \in Seq(Nat)
        BY <1>1, Joined
    <2> QED BY <1>5, <2>1, <2>2, Joined
<1>7. Begins(q, m + 1, head \o (word \o val)) /\ (m + 1 <= Len(q) => q[m + 1] = tag)
    BY <1>1, <1>6, BeginsTagged
<1>8. Begins(q, m + 1, head \o word) /\ Begins(q, m + 6, val)
    <2>1. m + 1 \in Nat /\ m + 1 + 5 = m + 6
        OBVIOUS
    <2> QED BY <1>1, <1>5, <1>7, <2>1, SizeParts
<1>9. Begins(q, m + 1, << 8 >> \o word)
    BY <1>4, <1>8, Zenon
<1>10. \A b, s : s = Fails(b) \/ ~s.ok => ~SizedAt(s).inside
    BY ResultIs, OutsideIs DEF SizedAt
<1>11. ASSUME m + 6 > Len(q) PROVE ~r.ok \/ ~r.inside
    <2>1. ASSUME t.ok, NEW u \in ReadFixed(t.b, "uint32") PROVE ~u.ok
        BY <1>1, <1>4, <1>7, <1>8, <1>11, <2>1, SizeBack
    <2> QED BY <1>2, <1>10, <2>1
<1>12. ASSUME m + 6 <= Len(q)
       PROVE  r = SizedAt(Done(word, At(q, m + 6)))
    <2>1. t.ok
        <3>1. m + 1 <= Len(q)
            BY <1>12
        <3> QED BY <1>1, <1>7, <3>1, TagBack, ResultIs
    <2>2. PICK u \in ReadFixed(t.b, "uint32") : r = SizedAt(u)
        BY <1>2, <2>1
    <2>3. u = Done(word, At(q, m + 6))
        BY <1>1, <1>4, <1>7, <1>8, <1>12, <2>1, SizeBack
    <2> QED BY <2>2, <2>3
<1>13. SizedAt(Done(word, At(q, m + 6))) =
          IF m + 6 + Len(val) <= Len(q) THEN Read(At(q, m + 6), Len(val)) ELSE Outside(At(q, m + 6))
    <2>1. PICK s, b, n : s = Done(word, b) /\ b = At(q, m + 6) /\ n = Len(val)
        OBVIOUS
    <2>2. s.ok /\ s.val = word /\ s.b = b
        BY <2>1, ResultIs
    <2>3. b.at = m + 6 /\ b.bytes = q
        BY <2>1, AtIs
    <2>4. SizedAt(s) = IF m + 6 + n <= Len(q) THEN Read(b, n) ELSE Outside(b)
        BY <1>1, <2>1, <2>2, <2>3, Zenon DEF SizedAt
    <2> QED BY <2>1, <2>4, Zenon
<1>14. ASSUME m + 6 + Len(val) <= Len(q) PROVE r = Done(val, At(q, m + 6 + Len(val)))
    <2>1. m + 6 \in Nat /\ m + 6 <= Len(q)
        BY <1>14
    <2>2. Read(At(q, m + 6), Len(val)) = Done(val, At(q, m + 6 + Len(val)))
        BY <1>8, <1>14, <2>1, ReadBack
    <2> QED BY <1>12, <1>13, <1>14, <2>1, <2>2
<1>15. ASSUME m + 6 + Len(val) > Len(q) PROVE ~r.ok \/ ~r.inside
    <2>1. ~(m + 6 + Len(val) <= Len(q)) /\ (m + 6 > Len(q) \/ m + 6 <= Len(q))
        BY <1>15
    <2> QED BY <1>11, <1>12, <1>13, <2>1, OutsideIs
<1> QED BY <1>14, <1>15

(* The header of an array: the type of its elements, its size, their number.  *)
ArrayTag == Tag["uint64"] + 100
Counted(s) == CountAt(s, FALSE)

LEMMA CountIs ==
    ASSUME NEW q \in Seq(Nat), NEW m \in Nat, NEW size \in Nat, NEW n \in Nat, Begins(q, m, Word(n)),
           NEW s, s = Done(Word(size), At(q, m))
    PROVE  /\ m + 4 > Len(q) => ~Counted(s).ok
           /\ m + 4 <= Len(q) /\ n = 0 => ~Counted(s).inside
           /\ m + 4 <= Len(q) /\ n # 0 => Counted(s) = Done(<<n, size \div n>>, Bare(q, m + 4))
<1>0. PICK c : c = Counted(s)
    OBVIOUS
<1>1. s.b = At(q, m) /\ s.val = Word(size) /\ Number(Word(size)) = size
    BY ResultIs, WordNumber
<1>2. Word(n) \in Seq(Nat) /\ Len(Word(n)) = 4 /\ Number(Word(n)) = n
    BY WordNumber
<1>3. [s.b EXCEPT !.types = FALSE] = Bare(q, m)
    <2>1. [At(q, m) EXCEPT !.types = FALSE] = Bare(q, m)
        BY TypesChange
    <2> QED BY <1>1, <2>1, Zenon
<1>4. PICK count : count = Read(Bare(q, m), 4)
    OBVIOUS
<1>5. c = IF ~count.ok THEN count
          ELSE IF Number(count.val) = 0 THEN Outside(count.b)
          ELSE Result(TRUE, <<Number(count.val), size \div Number(count.val)>>, [count.b EXCEPT !.types = FALSE])
    BY <1>0, <1>1, <1>3, <1>4, Zenon DEF Counted, CountAt
<1>6. ASSUME m + 4 > Len(q) PROVE ~c.ok
    <2>1. count = Fails(Bare(q, m))
        BY <1>4, <1>6, ReadIs
    <2> QED BY <1>5, <2>1, ResultIs
<1>7. ASSUME m + 4 <= Len(q)
      PROVE  /\ n = 0 => ~c.inside
             /\ n # 0 => c = Done(<<n, size \div n>>, Bare(q, m + 4))
    <2>1. count = Done(SubSeq(q, m + 1, m + 4), Bare(q, m + 4))
        BY <1>4, <1>7, ReadIs
    <2>2. SubSeq(q, m + 1, m + 4) = Word(n)
        BY <1>2, <1>7, PartIs
    <2>3. count.ok /\ Number(count.val) = n /\ count.b = Bare(q, m + 4)
        <3>1. count = Done(Word(n), Bare(q, m + 4))
            BY <2>1, <2>2, Zenon
        <3>2. count.ok /\ count.val = Word(n) /\ count.b = Bare(q, m + 4)
            BY <3>1, ResultIs, Zenon
        <3> QED BY <1>2, <3>2, Zenon
    <2>4. [count.b EXCEPT !.types = FALSE] = Bare(q, m + 4)
        <3>1. [Bare(q, m + 4) EXCEPT !.types = FALSE] = Bare(q, m + 4)
            BY TypesChange
        <3> QED BY <2>3, <3>1, Zenon
    <2>5. c = IF n = 0 THEN Outside(count.b) ELSE Done(<<n, size \div n>>, Bare(q, m + 4))
        BY <1>5, <2>3, <2>4, Zenon DEF Done
    <2> QED BY <2>5, OutsideIs
<1> QED BY <1>0, <1>6, <1>7, Zenon

LEMMA HeaderParts ==
    ASSUME NEW q \in Seq(Nat), NEW m \in Nat, NEW tag \in Nat, NEW head \in Seq(Nat), NEW word \in Seq(Nat),
           NEW count \in Seq(Nat), NEW val \in Seq(Nat), Len(head) = 1, Len(word) = 4, Len(count) = 4,
           Begins(q, m, <<tag>> \o (head \o (word \o (count \o val))))
    PROVE  /\ m + 1 <= Len(q) => q[m + 1] = tag
           /\ Begins(q, m + 1, head \o word) /\ Begins(q, m + 6, count) /\ Begins(q, m + 10, val)
<1>1. PICK rest : rest = count \o val
    OBVIOUS
<1>2. rest \in Seq(Nat)
    BY <1>1, Joined
<1>3. PICK body : body = head \o (word \o rest)
    OBVIOUS
<1>4. body \in Seq(Nat)
    <2>1. word \o rest \in Seq(Nat)
        BY <1>2, Joined
    <2> QED BY <1>3, <2>1, Joined
<1>5. Begins(q, m, <<tag>> \o body)
    BY <1>1, <1>3, Zenon
<1>6. Begins(q, m + 1, body) /\ (m + 1 <= Len(q) => q[m + 1] = tag)
    BY <1>4, <1>5, BeginsTagged
<1>7. Begins(q, m + 1, head \o word) /\ Begins(q, m + 6, rest)
    <2>1. m + 1 \in Nat /\ m + 1 + 5 = m + 6
        OBVIOUS
    <2>2. Begins(q, m + 1, head \o (word \o rest))
        BY <1>3, <1>6, Zenon
    <2> QED BY <1>2, <2>1, <2>2, SizeParts
<1>8. Begins(q, m + 6, count) /\ Begins(q, m + 10, val)
    <2>1. m + 6 \in Nat /\ m + 6 + 4 = m + 10
        OBVIOUS
    <2>2. Begins(q, m + 6, count \o val)
        BY <1>1, <1>7, Zenon
    <2> QED BY <2>1, <2>2, BeginsParts
<1> QED BY <1>6, <1>7, <1>8

LEMMA HeaderIs ==
    ASSUME NEW q, NEW m, NEW h \in ReadArrayHeader(Bare(q, m), "uint64")
    PROVE  \E t \in ReadDataType(At(q, m), ArrayTag) :
              \/ h = t /\ ~t.ok
              \/ t.ok /\ \E s \in ReadFixed(t.b, "uint32") : h = IF s.ok THEN Counted(s) ELSE s
<1>0. PICK b : b = Bare(q, m)
    OBVIOUS
<1>1. PICK tags : tags = ReadDataType(At(q, m), ArrayTag)
    OBVIOUS
<1>2. ReadDataType([b EXCEPT !.types = TRUE], Tag["uint64"] + 100) = tags
    <2>1. [b EXCEPT !.types = TRUE] = At(q, m)
        <3>1. [Bare(q, m) EXCEPT !.types = TRUE] = At(q, m)
            BY TypesChange
        <3> QED BY <1>0, <3>1, Zenon
    <2> QED BY <1>1, <2>1, Zenon DEF ArrayTag
<1>3. b.types = FALSE
    BY <1>0, Zenon DEF Bare
<1>4. h \in {t \in tags : ~t.ok} \cup
            {IF s.ok THEN Counted(s) ELSE s :
                s \in UNION {ReadFixed(t.b, "uint32") : t \in {u \in tags : u.ok}}}
    BY <1>0, <1>2, <1>3, Zenon DEF Counted, ReadArrayHeader
<1> QED BY <1>1, <1>4

LEMMA HeaderBack ==
    ASSUME NEW q \in Seq(Nat), NEW m \in Nat, NEW size \in Nat, NEW n \in Nat,
           NEW h \in ReadArrayHeader(Bare(q, m), "uint64"), m + 1 <= Len(q) => q[m + 1] = ArrayTag,
           NEW head, head = << 8 >>, Begins(q, m + 1, head \o Word(size)), Begins(q, m + 6, Word(n))
    PROVE  /\ m + 10 > Len(q) => ~h.ok
           /\ m + 10 <= Len(q) /\ n = 0 => ~h.inside
           /\ m + 10 <= Len(q) /\ n # 0 => h = Done(<<n, size \div n>>, Bare(q, m + 10))
<1>0. ArrayTag \in Nat
    BY DEF ArrayTag, Tag
<1>1. PICK t \in ReadDataType(At(q, m), ArrayTag) :
         \/ h = t /\ ~t.ok
         \/ t.ok /\ \E s \in ReadFixed(t.b, "uint32") : h = IF s.ok THEN Counted(s) ELSE s
    BY HeaderIs
<1>2. Word(size) \in Seq(Nat) /\ Len(Word(size)) = 4
    BY WordNumber
<1>3. ASSUME t.ok, NEW s \in ReadFixed(t.b, "uint32")
      PROVE  /\ m + 6 > Len(q) => ~s.ok
             /\ m + 6 <= Len(q) => s = Done(Word(size), At(q, m + 6))
    BY <1>0, <1>2, <1>3, SizeBack
<1>4. m + 6 \in Nat /\ m + 6 + 4 = m + 10
    OBVIOUS
<1>5. ASSUME m + 10 > Len(q) PROVE ~h.ok
    <2>1. ASSUME t.ok, NEW s \in ReadFixed(t.b, "uint32"), s.ok PROVE ~Counted(s).ok
        <3>1. s = Done(Word(size), At(q, m + 6))
            <4>1. m + 6 > Len(q) \/ m + 6 <= Len(q)
                OBVIOUS
            <4> QED BY <1>3, <2>1, <4>1
        <3>2. m + 6 + 4 > Len(q)
            BY <1>5
        <3> QED BY <1>4, <3>1, <3>2, CountIs
    <2> QED BY <1>1, <2>1
<1>6. ASSUME m + 10 <= Len(q)
      PROVE  /\ n = 0 => ~h.inside
             /\ n # 0 => h = Done(<<n, size \div n>>, Bare(q, m + 10))
    <2>1. t.ok
        <3>1. m + 1 <= Len(q)
            BY <1>6
        <3> QED BY <1>0, <3>1, TagBack, ResultIs
    <2>2. PICK s \in ReadFixed(t.b, "uint32") : h = IF s.ok THEN Counted(s) ELSE s
        BY <1>1, <2>1
    <2>3. s = Done(Word(size), At(q, m + 6))
        <3>1. m + 6 <= Len(q)
            BY <1>6
        <3> QED BY <1>3, <2>1, <3>1, Zenon
    <2>4. h = Counted(s)
        BY <2>2, <2>3, ResultIs
    <2>5. m + 6 + 4 <= Len(q)
        BY <1>6
    <2>6. /\ n = 0 => ~Counted(s).inside
          /\ n # 0 => Counted(s) = Done(<<n, size \div n>>, Bare(q, m + 6 + 4))
        <3>1. PICK p \in Nat : p = m + 6
            BY <1>4
        <3>2. Begins(q, p, Word(n)) /\ s = Done(Word(size), At(q, p)) /\ p + 4 <= Len(q)
            BY <2>3, <2>5, <3>1, Zenon
        <3>3. /\ n = 0 => ~Counted(s).inside
              /\ n # 0 => Counted(s) = Done(<<n, size \div n>>, Bare(q, p + 4))
            BY <3>2, CountIs, Zenon
        <3> QED BY <3>1, <3>3, Zenon
    <2> QED BY <1>4, <2>4, <2>6
<1> QED BY <1>5, <1>6

Restored(r) == [r EXCEPT !.b.types = TRUE]

LEMMA TypesComeBack ==
    ASSUME NEW v, NEW q, NEW m
    PROVE  Restored(Done(v, Bare(q, m))) = Done(v, At(q, m)) /\ Restored(Fails(Bare(q, m))) = Fails(At(q, m))
<1>1. PICK on \in BOOLEAN : on = TRUE
    OBVIOUS
<1>2. PICK off \in BOOLEAN : off = FALSE
    OBVIOUS
<1>3. ASSUME NEW ok \in BOOLEAN, NEW val, NEW b, NEW c, [b EXCEPT !.types = on] = c
      PROVE  [[ok |-> ok, val |-> val, b |-> b, inside |-> on] EXCEPT !.b.types = on]
                = [ok |-> ok, val |-> val, b |-> c, inside |-> on]
    BY <1>3
<1>4. [Bare(q, m) EXCEPT !.types = on] = At(q, m)
    BY <1>1, TypesChange
<1>5. /\ Done(v, Bare(q, m)) = [ok |-> on, val |-> v, b |-> Bare(q, m), inside |-> on]
      /\ Done(v, At(q, m)) = [ok |-> on, val |-> v, b |-> At(q, m), inside |-> on]
      /\ Fails(Bare(q, m)) = [ok |-> off, val |-> <<>>, b |-> Bare(q, m), inside |-> on]
      /\ Fails(At(q, m)) = [ok |-> off, val |-> <<>>, b |-> At(q, m), inside |-> on]
    BY <1>1, <1>2 DEF Result, Done, Fails
<1>6. /\ [Done(v, Bare(q, m)) EXCEPT !.b.types = on] = Done(v, At(q, m))
      /\ [Fails(Bare(q, m)) EXCEPT !.b.types = on] = Fails(At(q, m))
    BY <1>3, <1>4, <1>5
<1> QED BY <1>1, <1>6 DEF Restored

(* The elements of an array.                                                  *)
Paired(h) == PairsAt(h, "uint64", TRUE)
HasItems(val, n) == Len(val) = n * 8 /\ n % 2 = 0

LEMMA PairsBack ==
    ASSUME NEW q \in Seq(Nat), NEW m \in Nat, NEW n \in Nat, NEW val \in Seq(Nat),
           HasItems(val, n), Begins(q, m, val), NEW pair, pair = <<n, 8>>,
           NEW h, h = Done(pair, Bare(q, m))
    PROVE  /\ m + Len(val) > Len(q) => ~Paired(h).ok
           /\ m + Len(val) <= Len(q) => Paired(h) = Done(val, At(q, m + Len(val)))
<1>0. PICK c : c = Paired(h)
    OBVIOUS
<1>1. h.val[1] = n /\ h.val[2] = 8 /\ h.b = Bare(q, m)
    <2>1. h.val = pair /\ h.b = Bare(q, m)
        BY ResultIs
    <2>2. pair[1] = n /\ pair[2] = 8
        OBVIOUS
    <2> QED BY <2>1, <2>2, Zenon
<1>2. Width["uint64"] = 8 /\ 2 * (n \div 2) * 8 = Len(val)
    <2>1. Width["uint64"] = 8
        BY DEF Width
    <2>2. n % 2 = 0 /\ n * 8 = Len(val)
        BY DEF HasItems
    <2>3. 2 * (n \div 2) = n
        BY <2>2
    <2> QED BY <2>1, <2>2, <2>3
<1>3. PICK all : all = Read(Bare(q, m), Len(val))
    OBVIOUS
<1>4. \/ all.ok /\ c = Restored(all)
      \/ ~all.ok /\ ~c.ok
    <2>1. all = Read(h.b, 2 * (h.val[1] \div 2) * Width["uint64"])
        BY <1>1, <1>2, <1>3
    <2>2. ~(h.val[2] # Width["uint64"])
        BY <1>1, <1>2
    <2>3. \A b : ~Result(FALSE, <<>>, b).ok
        BY DEF Result
    <2>4. c = IF all.ok THEN Restored(all)
              ELSE Result(FALSE, <<>>, [h.b EXCEPT !.at = @ + ((Len(h.b.bytes) - h.b.at) \div Width["uint64"]) * Width["uint64"]])
        BY <1>0, <2>1, <2>2, Zenon DEF Paired, PairsAt, Restored
    <2> QED BY <2>3, <2>4, Zenon
<1>5. ASSUME m + Len(val) > Len(q) PROVE ~c.ok
    <2>1. all = Fails(Bare(q, m))
        BY <1>3, <1>5, ReadBack
    <2> QED BY <1>4, <2>1, ResultIs
<1>6. ASSUME m + Len(val) <= Len(q) PROVE c = Done(val, At(q, m + Len(val)))
    <2>1. all = Done(val, Bare(q, m + Len(val)))
        BY <1>3, <1>6, ReadBack
    <2>2. Restored(all) = Done(val, At(q, m + Len(val)))
        BY <2>1, TypesComeBack, Zenon
    <2>3. all.ok
        BY <2>1, ResultIs
    <2> QED BY <1>4, <2>2, <2>3, Zenon
<1> QED BY <1>0, <1>5, <1>6, Zenon

LEMMA ArrayIs ==
    ASSUME NEW q, NEW m, NEW r \in ReadArray(At(q, m), "uint64")
    PROVE  \E h \in ReadArrayHeader(Bare(q, m), "uint64") : r = IF h.ok /\ h.inside THEN Paired(h) ELSE h
<1>0. PICK b : b = At(q, m)
    OBVIOUS
<1>1. b.types = TRUE
    BY <1>0, Zenon DEF At
<1>2. [b EXCEPT !.types = FALSE] = Bare(q, m)
    <2>1. [At(q, m) EXCEPT !.types = FALSE] = Bare(q, m)
        BY TypesChange
    <2> QED BY <1>0, <2>1, Zenon
<1>3. r \in {IF h.ok /\ h.inside THEN Paired(h) ELSE h : h \in ReadArrayHeader(Bare(q, m), "uint64")}
    BY <1>0, <1>1, <1>2, Zenon DEF ReadArray, Paired
<1> QED BY <1>3

LEMMA TagsBack ==
    ASSUME NEW q \in Seq(Nat), NEW m \in Nat, NEW n \in Nat, NEW val \in Seq(Nat), HasItems(val, n),
           NEW head, head = << 8 >>, NEW r \in ReadArray(At(q, m), "uint64"),
           m + 1 <= Len(q) => q[m + 1] = ArrayTag,
           Begins(q, m + 1, head \o Word(n * 8)), Begins(q, m + 6, Word(n)), Begins(q, m + 10, val)
    PROVE  /\ m + 10 + Len(val) > Len(q) => ~r.ok
           /\ m + 10 + Len(val) <= Len(q) /\ n = 0 => ~r.inside
           /\ m + 10 + Len(val) <= Len(q) /\ n # 0 => r = Done(val, At(q, m + 10 + Len(val)))
<1>1. PICK h \in ReadArrayHeader(Bare(q, m), "uint64") : r = IF h.ok /\ h.inside THEN Paired(h) ELSE h
    BY ArrayIs
<1>2. n * 8 \in Nat /\ (n # 0 => (n * 8) \div n = 8) /\ m + 10 \in Nat /\ Len(val) \in Nat
    OBVIOUS
<1>3. /\ m + 10 > Len(q) => ~h.ok
      /\ m + 10 <= Len(q) /\ n = 0 => ~h.inside
      /\ m + 10 <= Len(q) /\ n # 0 => h = Done(<<n, (n * 8) \div n>>, Bare(q, m + 10))
    <2>1. PICK size \in Nat : size = n * 8
        BY <1>2
    <2>2. Begins(q, m + 1, head \o Word(size))
        BY <2>1, Zenon
    <2>3. /\ m + 10 > Len(q) => ~h.ok
          /\ m + 10 <= Len(q) /\ n = 0 => ~h.inside
          /\ m + 10 <= Len(q) /\ n # 0 => h = Done(<<n, size \div n>>, Bare(q, m + 10))
        BY <2>2, HeaderBack, Zenon
    <2> QED BY <2>1, <2>3, Zenon
<1>4. CASE m + 10 > Len(q)
    <2>1. ~(m + 10 + Len(val) <= Len(q))
        BY <1>2, <1>4
    <2> QED BY <1>1, <1>3, <1>4, <2>1
<1>5. CASE m + 10 <= Len(q) /\ n = 0
    <2>1. ~(m + 10 + Len(val) > Len(q))
        BY <1>5 DEF HasItems
    <2> QED BY <1>1, <1>3, <1>5, <2>1
<1>6. CASE m + 10 <= Len(q) /\ n # 0
    <2>1. h = Done(<<n, 8>>, Bare(q, m + 10))
        <3>1. (n * 8) \div n = 8
            BY <1>2, <1>6
        <3>2. h = Done(<<n, (n * 8) \div n>>, Bare(q, m + 10))
            BY <1>3, <1>6
        <3> QED BY <3>1, <3>2, Zenon
    <2>2. r = Paired(h)
        BY <1>1, <2>1, ResultIs
    <2>3. /\ m + 10 + Len(val) > Len(q) => ~Paired(h).ok
          /\ m + 10 + Len(val) <= Len(q) => Paired(h) = Done(val, At(q, m + 10 + Len(val)))
        <3>1. PICK p \in Nat : p = m + 10
            BY <1>2
        <3>0. PICK pair : pair = <<n, 8>>
            OBVIOUS
        <3>2. Begins(q, p, val) /\ h = Done(pair, Bare(q, p))
            BY <2>1, <3>0, <3>1, Zenon
        <3>3. /\ p + Len(val) > Len(q) => ~Paired(h).ok
              /\ p + Len(val) <= Len(q) => Paired(h) = Done(val, At(q, p + Len(val)))
            BY <3>0, <3>2, PairsBack
        <3> QED BY <3>1, <3>3
    <2> QED BY <1>6, <2>2, <2>3
<1>7. m + 10 > Len(q) \/ m + 10 <= Len(q)
    BY <1>2
<1> QED BY <1>4, <1>5, <1>6, <1>7

(* What is written: the bytes of a field.                                     *)
Encoded(f) ==
    IF f.kind = "string" THEN <<Tag["string"]>> \o Append(f.val, 0)
    ELSE IF f.kind \in {"blob", "struct"} THEN <<Tag[f.kind]>> \o (<< 8 >> \o (Word(Len(f.val)) \o f.val))
    ELSE IF f.kind = "tags" THEN
        <<ArrayTag>> \o (<< 8 >> \o (Word((Len(f.val) \div 8) * 8) \o (Word(Len(f.val) \div 8) \o f.val)))
    ELSE IF f.kind = "raw4" \/ ~f.typed THEN f.val
    ELSE <<Tag[f.kind]>> \o f.val

IsField(f) == /\ f.val \in Seq(Nat) /\ f.typed \in BOOLEAN
              /\ f.kind \in Fixed \cup {"string", "blob", "struct", "tags", "raw4"}
NumberField(f) == f.kind \in Fixed /\ Len(f.val) = Width[f.kind]
RawField(f) == f.kind = "raw4" /\ ~f.typed /\ Len(f.val) = 4
StringField(f) == f.kind = "string" /\ f.typed /\ \A i \in 1 .. Len(f.val) : f.val[i] # 0
SizedField(f) == f.kind \in {"blob", "struct"} /\ f.typed
TagsField(f) == f.kind = "tags" /\ f.typed /\ HasItems(f.val, Len(f.val) \div 8)
WellFormed(f) ==
    IsField(f) /\ (NumberField(f) \/ RawField(f) \/ StringField(f) \/ SizedField(f) \/ TagsField(f))

LEMMA EncodedIs ==
    ASSUME NEW f
    PROVE  /\ f.kind = "string" => Encoded(f) = <<Tag["string"]>> \o Append(f.val, 0)
           /\ f.kind \in {"blob", "struct"} =>
                 Encoded(f) = <<Tag[f.kind]>> \o (<< 8 >> \o (Word(Len(f.val)) \o f.val))
           /\ f.kind = "tags" =>
                 Encoded(f) = <<ArrayTag>> \o (<< 8 >> \o (Word((Len(f.val) \div 8) * 8)
                                                        \o (Word(Len(f.val) \div 8) \o f.val)))
           /\ f.kind = "raw4" => Encoded(f) = f.val
           /\ f.kind \in Fixed /\ ~f.typed => Encoded(f) = f.val
           /\ f.kind \in Fixed /\ f.typed => Encoded(f) = <<Tag[f.kind]>> \o f.val
<1>1. /\ f.kind \in Fixed => f.kind \notin {"string", "blob", "struct", "tags", "raw4"}
      /\ f.kind = "raw4" => f.kind \notin {"string", "blob", "struct", "tags"}
      /\ f.kind = "tags" => f.kind \notin {"string", "blob", "struct"}
      /\ f.kind \in {"blob", "struct"} => f.kind # "string"
    BY DEF Fixed, Width
<1>2. f.kind = "string" => Encoded(f) = <<Tag["string"]>> \o Append(f.val, 0)
    BY Zenon DEF Encoded
<1>3. f.kind \in {"blob", "struct"} =>
         Encoded(f) = <<Tag[f.kind]>> \o (<< 8 >> \o (Word(Len(f.val)) \o f.val))
    BY <1>1, Zenon DEF Encoded
<1>4. f.kind = "tags" =>
         Encoded(f) = <<ArrayTag>> \o (<< 8 >> \o (Word((Len(f.val) \div 8) * 8)
                                                \o (Word(Len(f.val) \div 8) \o f.val)))
    BY <1>1, Zenon DEF Encoded
<1>5. f.kind = "raw4" => Encoded(f) = f.val
    BY <1>1, Zenon DEF Encoded
<1>6. f.kind \in Fixed /\ ~f.typed => Encoded(f) = f.val
    BY <1>1, Zenon DEF Encoded
<1>7. f.kind \in Fixed /\ f.typed => Encoded(f) = <<Tag[f.kind]>> \o f.val
    BY <1>1, Zenon DEF Encoded
<1> QED BY <1>2, <1>3, <1>4, <1>5, <1>6, <1>7

LEMMA TaggedIs ==
    ASSUME NEW tag \in Nat, NEW v \in Seq(Nat)
    PROVE  <<tag>> \o v \in Seq(Nat) /\ Len(<<tag>> \o v) = 1 + Len(v)
OBVIOUS

LEMMA WordThen ==
    ASSUME NEW n \in Nat, NEW v \in Seq(Nat)
    PROVE  Word(n) \o v \in Seq(Nat) /\ Len(Word(n) \o v) = 4 + Len(v)
<1>1. Word(n) \in Seq(Nat) /\ Len(Word(n)) = 4
    BY WordNumber
<1> QED BY <1>1, Joined

LEMMA StringLength ==
    ASSUME NEW f, IsField(f), StringField(f)
    PROVE  Encoded(f) \in Seq(Nat) /\ Len(Encoded(f)) = 2 + Len(f.val)
<1>1. f.val \in Seq(Nat) /\ Len(f.val) \in Nat
    BY DEF IsField
<1>2. Append(f.val, 0) \in Seq(Nat) /\ Len(Append(f.val, 0)) = Len(f.val) + 1 /\ Tag["string"] \in Nat
    BY <1>1 DEF Tag
<1>3. Encoded(f) = <<Tag["string"]>> \o Append(f.val, 0)
    BY EncodedIs, Zenon DEF StringField
<1>4. Encoded(f) \in Seq(Nat) /\ Len(Encoded(f)) = 1 + Len(Append(f.val, 0))
    BY <1>2, <1>3, TaggedIs
<1> QED BY <1>1, <1>2, <1>4

LEMMA SizedLength ==
    ASSUME NEW f, IsField(f), SizedField(f)
    PROVE  Encoded(f) \in Seq(Nat) /\ Len(Encoded(f)) = 6 + Len(f.val)
<1>1. f.val \in Seq(Nat) /\ Len(f.val) \in Nat
    BY DEF IsField
<1>2. Tag[f.kind] \in Nat /\ 8 \in Nat
    BY DEF SizedField, Tag
<1>3. PICK v : v = Word(Len(f.val)) \o f.val
    OBVIOUS
<1>4. v \in Seq(Nat) /\ Len(v) = 4 + Len(f.val)
    BY <1>1, <1>3, WordThen
<1>5. PICK w : w = << 8 >> \o v
    OBVIOUS
<1>6. w \in Seq(Nat) /\ Len(w) = 1 + Len(v)
    BY <1>2, <1>4, <1>5, TaggedIs
<1>7. Encoded(f) = <<Tag[f.kind]>> \o w
    <2>1. Encoded(f) = <<Tag[f.kind]>> \o (<< 8 >> \o (Word(Len(f.val)) \o f.val))
        BY EncodedIs, Zenon DEF SizedField
    <2> QED BY <1>3, <1>5, <2>1, Zenon
<1>8. Encoded(f) \in Seq(Nat) /\ Len(Encoded(f)) = 1 + Len(w)
    BY <1>2, <1>6, <1>7, TaggedIs
<1> QED BY <1>1, <1>4, <1>6, <1>8

LEMMA TagsLength ==
    ASSUME NEW f, IsField(f), TagsField(f)
    PROVE  Encoded(f) \in Seq(Nat) /\ Len(Encoded(f)) = 10 + Len(f.val)
<1>1. f.val \in Seq(Nat) /\ Len(f.val) \in Nat
    BY DEF IsField
<1>2. ArrayTag \in Nat /\ 8 \in Nat
    BY DEF ArrayTag, Tag
<1>3. PICK n : n = Len(f.val) \div 8
    OBVIOUS
<1>4. n \in Nat /\ n * 8 \in Nat
    <2>1. \A l \in Nat : l \div 8 \in Nat
        OBVIOUS
    <2>2. n \in Nat
        BY <1>1, <1>3, <2>1, Zenon
    <2> QED BY <2>2
<1>5. PICK u : u = Word(n) \o f.val
    OBVIOUS
<1>6. u \in Seq(Nat) /\ Len(u) = 4 + Len(f.val)
    BY <1>1, <1>4, <1>5, WordThen
<1>7. PICK v : v = Word(n * 8) \o u
    OBVIOUS
<1>8. v \in Seq(Nat) /\ Len(v) = 4 + Len(u)
    BY <1>4, <1>6, <1>7, WordThen
<1>9. PICK w : w = << 8 >> \o v
    OBVIOUS
<1>10. w \in Seq(Nat) /\ Len(w) = 1 + Len(v)
    BY <1>2, <1>8, <1>9, TaggedIs
<1>11. Encoded(f) = <<ArrayTag>> \o w
    <2>1. Encoded(f) = <<ArrayTag>> \o (<< 8 >> \o (Word((Len(f.val) \div 8) * 8)
                                                     \o (Word(Len(f.val) \div 8) \o f.val)))
        BY EncodedIs, Zenon DEF TagsField
    <2> QED BY <1>3, <1>5, <1>7, <1>9, <2>1, Zenon
<1>12. Encoded(f) \in Seq(Nat) /\ Len(Encoded(f)) = 1 + Len(w)
    BY <1>2, <1>10, <1>11, TaggedIs
<1> QED BY <1>1, <1>6, <1>8, <1>10, <1>12

LEMMA PlainLength ==
    ASSUME NEW f, IsField(f), RawField(f) \/ (NumberField(f) /\ ~f.typed)
    PROVE  Encoded(f) = f.val
BY EncodedIs, Zenon DEF RawField, NumberField

LEMMA NumberLength ==
    ASSUME NEW f, IsField(f), NumberField(f), f.typed
    PROVE  Encoded(f) \in Seq(Nat) /\ Len(Encoded(f)) = 1 + Len(f.val)
<1>1. Tag[f.kind] \in Nat /\ f.val \in Seq(Nat)
    BY KindNumbers DEF NumberField, IsField
<1>2. Encoded(f) = <<Tag[f.kind]>> \o f.val
    BY EncodedIs, Zenon DEF NumberField
<1> QED BY <1>1, <1>2, TaggedIs

LEMMA EncodedBytes ==
    ASSUME NEW f, WellFormed(f)
    PROVE  Encoded(f) \in Seq(Nat)
<1>1. IsField(f) /\ f.val \in Seq(Nat)
    BY DEF WellFormed, IsField
<1>2. CASE StringField(f)
    BY <1>1, <1>2, StringLength
<1>3. CASE SizedField(f)
    BY <1>1, <1>3, SizedLength
<1>4. CASE TagsField(f)
    BY <1>1, <1>4, TagsLength
<1>5. CASE RawField(f) \/ (NumberField(f) /\ ~f.typed)
    BY <1>1, <1>5, PlainLength
<1>6. CASE NumberField(f) /\ f.typed
    BY <1>1, <1>6, NumberLength
<1> QED BY <1>2, <1>3, <1>4, <1>5, <1>6 DEF WellFormed

(* What is written stands behind what was.                                    *)
LEMMA WriteIs ==
    ASSUME NEW q, NEW m, NEW w
    PROVE  /\ Write(At(q, m), w) = At(q \o w, m + Len(w))
           /\ Write(Bare(q, m), w) = Bare(q \o w, m + Len(w))
<1>1. PICK on \in BOOLEAN : on = TRUE
    OBVIOUS
<1>2. PICK off \in BOOLEAN : off = FALSE
    OBVIOUS
<1>3. ASSUME NEW b, NEW g \in BOOLEAN, b = [bytes |-> q, at |-> m, types |-> g]
      PROVE  Write(b, w) = [bytes |-> q \o w, at |-> m + Len(w), types |-> g]
    <2>1. Write(b, w) = [[b EXCEPT !.bytes = @ \o w] EXCEPT !.at = @ + Len(w)]
        BY Zenon DEF Write
    <2>2. PICK c : c = [b EXCEPT !.bytes = @ \o w]
        OBVIOUS
    <2>3. PICK u : u = q \o w
        OBVIOUS
    <2>4. c = [bytes |-> u, at |-> m, types |-> g]
        BY <1>3, <2>2, <2>3
    <2>5. [c EXCEPT !.at = @ + Len(w)] = [bytes |-> u, at |-> m + Len(w), types |-> g]
        BY <2>4
    <2> QED BY <2>1, <2>2, <2>3, <2>5, Zenon
<1>4. /\ At(q, m) = [bytes |-> q, at |-> m, types |-> on]
      /\ Bare(q, m) = [bytes |-> q, at |-> m, types |-> off]
      /\ At(q \o w, m + Len(w)) = [bytes |-> q \o w, at |-> m + Len(w), types |-> on]
      /\ Bare(q \o w, m + Len(w)) = [bytes |-> q \o w, at |-> m + Len(w), types |-> off]
    BY <1>1, <1>2 DEF At, Bare
<1> QED BY <1>3, <1>4

With(q, m, w) == At(q \o w, m + Len(w))
BareWith(q, m, w) == Bare(q \o w, m + Len(w))

LEMMA WriteMore ==
    ASSUME NEW q \in Seq(Nat), NEW m \in Nat, NEW u \in Seq(Nat), NEW v \in Seq(Nat)
    PROVE  /\ Write(At(q, m), u) = With(q, m, u)
           /\ Write(Bare(q, m), u) = BareWith(q, m, u)
           /\ Write(With(q, m, u), v) = With(q, m, u \o v)
           /\ Write(BareWith(q, m, u), v) = BareWith(q, m, u \o v)
<1>1. Write(At(q, m), u) = With(q, m, u) /\ Write(Bare(q, m), u) = BareWith(q, m, u)
    BY WriteIs, Zenon DEF With, BareWith
<1>2. (q \o u) \o v = q \o (u \o v)
    <2>1. Regroups(q, u, v)
        BY JoinedTwice
    <2> QED BY <2>1, Zenon DEF Regroups
<1>3. (m + Len(u)) + Len(v) = m + Len(u \o v)
    <2>1. PICK n : n = Len(u \o v)
        OBVIOUS
    <2>2. n = Len(u) + Len(v)
        BY <2>1, Joined, Zenon
    <2>3. (m + Len(u)) + Len(v) = m + n
        BY <2>2
    <2> QED BY <2>1, <2>3, Zenon
<1>4. /\ Write(With(q, m, u), v) = At((q \o u) \o v, (m + Len(u)) + Len(v))
      /\ Write(BareWith(q, m, u), v) = Bare((q \o u) \o v, (m + Len(u)) + Len(v))
    BY WriteIs, Zenon DEF With, BareWith
<1>5. /\ Write(With(q, m, u), v) = With(q, m, u \o v)
      /\ Write(BareWith(q, m, u), v) = BareWith(q, m, u \o v)
    BY <1>2, <1>3, <1>4, Zenon DEF With, BareWith
<1> QED BY <1>1, <1>5

On(b) == [b EXCEPT !.types = TRUE]
Off(b) == [b EXCEPT !.types = FALSE]

LEMMA WithTypes ==
    ASSUME NEW q, NEW m, NEW w
    PROVE  /\ With(q, m, w).types /\ ~BareWith(q, m, w).types
           /\ Off(With(q, m, w)) = BareWith(q, m, w)
           /\ On(BareWith(q, m, w)) = With(q, m, w)
           /\ Off(BareWith(q, m, w)) = BareWith(q, m, w)
<1>1. PICK p : p = q \o w
    OBVIOUS
<1>2. PICK n : n = m + Len(w)
    OBVIOUS
<1>3. /\ At(p, n).types = TRUE /\ Bare(p, n).types = FALSE
    BY Zenon DEF At, Bare
<1>4. /\ [At(p, n) EXCEPT !.types = FALSE] = Bare(p, n)
      /\ [Bare(p, n) EXCEPT !.types = TRUE] = At(p, n)
      /\ [Bare(p, n) EXCEPT !.types = FALSE] = Bare(p, n)
    BY TypesChange
<1>5. Off(At(p, n)) = Bare(p, n) /\ On(Bare(p, n)) = At(p, n) /\ Off(Bare(p, n)) = Bare(p, n)
    BY <1>4, Zenon DEF On, Off
<1>6. With(q, m, w) = At(p, n) /\ BareWith(q, m, w) = Bare(p, n)
    BY <1>1, <1>2, Zenon DEF With, BareWith
<1> QED BY <1>3, <1>5, <1>6, Zenon

LEMMA FourWritten ==
    ASSUME NEW q \in Seq(Nat), NEW m \in Nat,
           NEW t \in Seq(Nat), NEW h \in Seq(Nat), NEW u \in Seq(Nat), NEW v \in Seq(Nat)
    PROVE  Write(Write(Write(Write(At(q, m), t), h), u), v) = With(q, m, t \o (h \o (u \o v)))
<1>1. PICK th : th = t \o h
    OBVIOUS
<1>2. th \in Seq(Nat)
    BY <1>1, Joined
<1>3. PICK thu : thu = th \o u
    OBVIOUS
<1>4. thu \in Seq(Nat)
    BY <1>2, <1>3, Joined
<1>5. Write(At(q, m), t) = With(q, m, t) /\ Write(With(q, m, t), h) = With(q, m, t \o h)
    BY WriteMore
<1>6. Write(With(q, m, th), u) = With(q, m, th \o u)
    BY <1>2, WriteMore
<1>7. Write(With(q, m, thu), v) = With(q, m, thu \o v)
    BY <1>4, WriteMore
<1>8. PICK uv : uv = u \o v
    OBVIOUS
<1>9. Write(Write(At(q, m), t), h) = With(q, m, th)
    <2>1. Write(Write(At(q, m), t), h) = Write(With(q, m, t), h)
        BY <1>5, Zenon
    <2>2. Write(With(q, m, t), h) = With(q, m, th)
        BY <1>1, <1>5, Zenon
    <2> QED BY <2>1, <2>2, Zenon
<1>10. Write(Write(Write(At(q, m), t), h), u) = With(q, m, thu)
    BY <1>3, <1>6, <1>9, Zenon
<1>11. thu \o v = t \o (h \o (u \o v))
    <2>1. uv \in Seq(Nat)
        BY <1>8, Joined
    <2>2. Regroups(th, u, v)
        BY <1>2, JoinedTwice, Zenon
    <2>3. Regroups(t, h, uv)
        BY <2>1, JoinedTwice, Zenon
    <2>4. thu \o v = th \o uv
        BY <1>3, <1>8, <2>2, Zenon DEF Regroups
    <2>5. th \o uv = t \o (h \o (u \o v))
        BY <1>1, <1>8, <2>3, Zenon DEF Regroups
    <2> QED BY <2>4, <2>5, Zenon
<1> QED BY <1>7, <1>10, <1>11, Zenon

LEMMA StringWritten ==
    ASSUME NEW q \in Seq(Nat), NEW m \in Nat, NEW v \in Seq(Nat)
    PROVE  WriteString(At(q, m), v) = With(q, m, <<Tag["string"]>> \o Append(v, 0))
<1>1. PICK t : t = <<Tag["string"]>>
    OBVIOUS
<1>2. PICK w : w = Append(v, 0)
    OBVIOUS
<1>3. t \in Seq(Nat) /\ w \in Seq(Nat)
    BY <1>1, <1>2 DEF Tag
<1>4. Write(Write(At(q, m), t), w) = With(q, m, t \o w)
    <2>1. Write(At(q, m), t) = With(q, m, t)
        BY <1>3, WriteMore
    <2>2. Write(With(q, m, t), w) = With(q, m, t \o w)
        BY <1>3, WriteMore
    <2> QED BY <2>1, <2>2, Zenon
<1>5. At(q, m).types
    BY AtIs
<1>6. WriteString(At(q, m), v) = Write(Write(At(q, m), t), w)
    BY <1>1, <1>2, <1>5, Zenon DEF WriteString, WriteDataType
<1> QED BY <1>1, <1>2, <1>4, <1>6, Zenon

LEMMA SizedWritten ==
    ASSUME NEW q \in Seq(Nat), NEW m \in Nat, NEW kind \in {"blob", "struct"}, NEW v \in Seq(Nat)
    PROVE  WriteSized(At(q, m), kind, v) = With(q, m, <<Tag[kind]>> \o (<< 8 >> \o (Word(Len(v)) \o v)))
<1>1. PICK t : t = <<Tag[kind]>>
    OBVIOUS
<1>2. PICK h : h = << 8 >>
    OBVIOUS
<1>3. PICK u : u = Word(Len(v))
    OBVIOUS
<1>4. t \in Seq(Nat) /\ h \in Seq(Nat) /\ u \in Seq(Nat)
    <2>1. t \in Seq(Nat)
        BY <1>1 DEF Tag
    <2>2. h \in Seq(Nat)
        BY <1>2
    <2>3. u \in Seq(Nat)
        BY <1>3, WordNumber
    <2> QED BY <2>1, <2>2, <2>3
<1>5. At(q, m).types /\ With(q, m, t).types
    BY AtIs, WithTypes
<1>6. Tag["uint32"] = 8
    BY DEF Tag
<1>7. Write(At(q, m), t) = With(q, m, t)
    BY <1>4, WriteMore
<1>8. WriteSized(At(q, m), kind, v) = Write(Write(Write(Write(At(q, m), t), h), u), v)
    BY <1>1, <1>2, <1>3, <1>5, <1>6, <1>7, Zenon DEF WriteSized, WriteFixed, WriteDataType
<1>9. WriteSized(At(q, m), kind, v) = With(q, m, t \o (h \o (u \o v)))
    BY <1>4, <1>8, FourWritten
<1> QED BY <1>1, <1>2, <1>3, <1>9, Zenon

LEMMA TagsWritten ==
    ASSUME NEW q \in Seq(Nat), NEW m \in Nat, NEW n \in Nat, NEW v \in Seq(Nat)
    PROVE  WriteArray(At(q, m), "uint64", n, v)
             = With(q, m, <<ArrayTag>> \o (<< 8 >> \o (Word(n * 8) \o (Word(n) \o v))))
<1>1. PICK t : t = <<ArrayTag>>
    OBVIOUS
<1>2. PICK h : h = << 8 >>
    OBVIOUS
<1>3. PICK size : size = Word(n * 8)
    OBVIOUS
<1>4. PICK count : count = Word(n)
    OBVIOUS
<1>5. t \in Seq(Nat) /\ h \in Seq(Nat) /\ size \in Seq(Nat) /\ count \in Seq(Nat)
    <2>1. ArrayTag \in Nat
        BY DEF ArrayTag, Tag
    <2>2. t \in Seq(Nat)
        BY <1>1, <2>1
    <2>3. h \in Seq(Nat)
        BY <1>2
    <2>4. n * 8 \in Nat
        OBVIOUS
    <2>5. size \in Seq(Nat) /\ count \in Seq(Nat)
        BY <1>3, <1>4, <2>4, WordNumber
    <2> QED BY <2>2, <2>3, <2>5
<1>6. PICK th : th = t \o h
    OBVIOUS
<1>7. PICK ths : ths = th \o size
    OBVIOUS
<1>8. PICK thsc : thsc = ths \o count
    OBVIOUS
<1>9. /\ th \in Seq(Nat) /\ ths \in Seq(Nat) /\ thsc \in Seq(Nat)
      /\ thsc \o v = t \o (h \o (size \o (count \o v)))
    <2>1. th \in Seq(Nat)
        BY <1>5, <1>6, Joined
    <2>2. ths \in Seq(Nat)
        BY <1>5, <1>7, <2>1, Joined
    <2>3. thsc \in Seq(Nat)
        BY <1>5, <1>8, <2>2, Joined
    <2>4. PICK cv : cv = count \o v
        OBVIOUS
    <2>5. cv \in Seq(Nat)
        BY <1>5, <2>4, Joined
    <2>6. PICK scv : scv = size \o cv
        OBVIOUS
    <2>7. scv \in Seq(Nat)
        BY <1>5, <2>5, <2>6, Joined
    <2>8. thsc \o v = ths \o cv
        <3>1. Regroups(ths, count, v)
            BY <1>5, <2>2, JoinedTwice, Zenon
        <3> QED BY <1>8, <2>4, <3>1, Zenon DEF Regroups
    <2>9. ths \o cv = th \o scv
        <3>1. Regroups(th, size, cv)
            BY <1>5, <2>1, <2>5, JoinedTwice, Zenon
        <3> QED BY <1>7, <2>6, <3>1, Zenon DEF Regroups
    <2>10. th \o scv = t \o (h \o scv)
        <3>1. Regroups(t, h, scv)
            BY <1>5, <2>7, JoinedTwice, Zenon
        <3> QED BY <1>6, <3>1, Zenon DEF Regroups
    <2>11. thsc \o v = t \o (h \o (size \o (count \o v)))
        BY <2>4, <2>6, <2>8, <2>9, <2>10, Zenon
    <2> QED BY <2>1, <2>2, <2>3, <2>11
<1>10. Write(Bare(q, m), t) = BareWith(q, m, t)
    BY <1>5, WriteMore
<1>11. Write(With(q, m, t), h) = With(q, m, th)
    <2>1. Write(With(q, m, t), h) = With(q, m, t \o h)
        BY <1>5, WriteMore
    <2> QED BY <1>6, <2>1, Zenon
<1>12. Write(With(q, m, th), size) = With(q, m, ths)
    <2>1. Write(With(q, m, th), size) = With(q, m, th \o size)
        BY <1>5, <1>9, WriteMore
    <2> QED BY <1>7, <2>1, Zenon
<1>13. Write(BareWith(q, m, ths), count) = BareWith(q, m, thsc)
    <2>1. Write(BareWith(q, m, ths), count) = BareWith(q, m, ths \o count)
        BY <1>5, <1>9, WriteMore
    <2> QED BY <1>8, <2>1, Zenon
<1>14. Write(BareWith(q, m, thsc), v) = BareWith(q, m, thsc \o v)
    <2>1. thsc \in Seq(Nat)
        BY <1>9
    <2> QED BY <2>1, WriteMore
<1>15. Tag["uint32"] = 8 /\ Width["uint64"] = 8
    BY DEF Tag, Width
<1>16. WriteFixed(With(q, m, t), "uint32", size) = With(q, m, ths)
    BY <1>2, <1>11, <1>12, <1>15, WithTypes, Zenon DEF WriteFixed, WriteDataType
<1>17. WriteFixed(BareWith(q, m, ths), "uint32", count) = BareWith(q, m, thsc)
    <2>1. ~BareWith(q, m, ths).types
        BY WithTypes
    <2> QED BY <1>13, <2>1, Zenon DEF WriteFixed, WriteDataType
<1>18. PICK b : b = Bare(q, m)
    OBVIOUS
<1>19. WriteArrayHeader(b, "uint64", n) = BareWith(q, m, thsc)
    <2>1. Write(b, <<Tag["uint64"] + 100>>) = BareWith(q, m, t)
        BY <1>1, <1>10, <1>18, Zenon DEF ArrayTag
    <2>2. On(BareWith(q, m, t)) = With(q, m, t)
        BY WithTypes
    <2>3. WriteFixed(With(q, m, t), "uint32", Word(n * Width["uint64"])) = With(q, m, ths)
        BY <1>3, <1>15, <1>16, Zenon
    <2>4. Off(With(q, m, ths)) = BareWith(q, m, ths)
        BY WithTypes
    <2>5. WriteFixed(BareWith(q, m, ths), "uint32", Word(n)) = BareWith(q, m, thsc)
        BY <1>4, <1>17, Zenon
    <2>6. b.types = FALSE
        BY <1>18, Zenon DEF Bare
    <2>7. Off(BareWith(q, m, thsc)) = BareWith(q, m, thsc)
        BY WithTypes
    <2>8. PICK typed : typed = Write(b, <<Tag["uint64"] + 100>>)
        OBVIOUS
    <2>9. PICK sized : sized = WriteFixed(On(typed), "uint32", Word(n * Width["uint64"]))
        OBVIOUS
    <2>10. PICK counted : counted = WriteFixed(Off(sized), "uint32", Word(n))
        OBVIOUS
    <2>11. WriteArrayHeader(b, "uint64", n) = Off(counted)
        BY <2>6, <2>8, <2>9, <2>10, Zenon DEF WriteArrayHeader, On, Off
    <2>12. typed = BareWith(q, m, t)
        BY <2>1, <2>8, Zenon
    <2>13. sized = With(q, m, ths)
        BY <2>2, <2>3, <2>9, <2>12, Zenon
    <2>14. counted = BareWith(q, m, thsc)
        BY <2>4, <2>5, <2>10, <2>13, Zenon
    <2> QED BY <2>7, <2>11, <2>14, Zenon
<1>20. PICK a : a = At(q, m)
    OBVIOUS
<1>21. WriteArray(a, "uint64", n, v) = With(q, m, thsc \o v)
    <2>1. [a EXCEPT !.types = FALSE] = b
        <3>1. [At(q, m) EXCEPT !.types = FALSE] = Bare(q, m)
            BY TypesChange
        <3> QED BY <1>18, <1>20, <3>1, Zenon
    <2>2. a.types = TRUE
        BY <1>20, Zenon DEF At
    <2>3. On(BareWith(q, m, thsc \o v)) = With(q, m, thsc \o v)
        BY WithTypes
    <2> QED BY <1>14, <1>19, <2>1, <2>2, <2>3, Zenon DEF WriteArray, On, Off
<1> QED BY <1>1, <1>2, <1>3, <1>4, <1>9, <1>20, <1>21, Zenon

(* A field of a record, or of an answer.                                      *)
Flagged(b, f) == [b EXCEPT !.types = b.types /\ f.typed]

LEMMA FlaggedIs ==
    ASSUME NEW q, NEW m, NEW f, f.typed \in BOOLEAN
    PROVE  /\ f.typed => Flagged(At(q, m), f) = At(q, m)
           /\ ~f.typed => Flagged(At(q, m), f) = Bare(q, m)
<1>1. PICK g \in BOOLEAN : g = (At(q, m).types /\ f.typed)
    OBVIOUS
<1>2. Flagged(At(q, m), f) = [At(q, m) EXCEPT !.types = g]
    BY <1>1, Zenon DEF Flagged
<1>3. At(q, m).types
    BY AtIs
<1>4. g = f.typed
    BY <1>1, <1>3
<1>5. CASE g = TRUE
    BY <1>2, <1>4, <1>5, TypesChange
<1>6. CASE g = FALSE
    BY <1>2, <1>4, <1>6, TypesChange
<1> QED BY <1>5, <1>6

LEMMA KindsDiffer ==
    ASSUME NEW kind
    PROVE  /\ kind \in Fixed => kind # "string" /\ kind \notin {"blob", "struct"} /\ kind # "tags" /\ kind # "raw4"
           /\ kind = "raw4" => kind # "string" /\ kind \notin {"blob", "struct"} /\ kind # "tags"
           /\ kind = "tags" => kind # "string" /\ kind \notin {"blob", "struct"} /\ kind # "raw4"
           /\ kind \in {"blob", "struct"} => kind # "string" /\ kind # "tags" /\ kind # "raw4"
           /\ kind = "string" => kind \notin {"blob", "struct"} /\ kind # "tags" /\ kind # "raw4"
BY DEF Fixed, Width

LEMMA WriteFieldIs ==
    ASSUME NEW b, b.types = TRUE, NEW f
    PROVE  /\ f.kind = "string" => WriteField(b, f) = On(WriteString(Flagged(b, f), f.val))
           /\ f.kind \in {"blob", "struct"} => WriteField(b, f) = On(WriteSized(Flagged(b, f), f.kind, f.val))
           /\ f.kind = "raw4" => WriteField(b, f) = On(Write(Flagged(b, f), f.val))
           /\ f.kind = "tags" =>
                 WriteField(b, f) = On(WriteArray(Flagged(b, f), "uint64", Len(f.val) \div 8, f.val))
           /\ f.kind \in Fixed => WriteField(b, f) = On(WriteFixed(Flagged(b, f), f.kind, f.val))
<1>1. PICK done :
         done = CASE f.kind = "string" -> WriteString(Flagged(b, f), f.val)
                  [] f.kind \in {"blob", "struct"} -> WriteSized(Flagged(b, f), f.kind, f.val)
                  [] f.kind = "raw4" -> Write(Flagged(b, f), f.val)
                  [] f.kind = "tags" -> WriteArray(Flagged(b, f), "uint64", Len(f.val) \div 8, f.val)
                  [] OTHER -> WriteFixed(Flagged(b, f), f.kind, f.val)
    OBVIOUS
<1>2. WriteField(b, f) = On(done)
    BY <1>1, Zenon DEF WriteField, Flagged, On
<1>3. f.kind = "string" => done = WriteString(Flagged(b, f), f.val)
    BY <1>1, KindsDiffer, Zenon
<1>4. f.kind \in {"blob", "struct"} => done = WriteSized(Flagged(b, f), f.kind, f.val)
    BY <1>1, KindsDiffer, Zenon
<1>5. f.kind = "raw4" => done = Write(Flagged(b, f), f.val)
    BY <1>1, KindsDiffer, Zenon
<1>6. f.kind = "tags" => done = WriteArray(Flagged(b, f), "uint64", Len(f.val) \div 8, f.val)
    BY <1>1, KindsDiffer, Zenon
<1>7. f.kind \in Fixed => done = WriteFixed(Flagged(b, f), f.kind, f.val)
    BY <1>1, KindsDiffer, Zenon
<1> QED BY <1>2, <1>3, <1>4, <1>5, <1>6, <1>7, Zenon

LEMMA OnWith ==
    ASSUME NEW q, NEW m, NEW w
    PROVE  On(With(q, m, w)) = With(q, m, w) /\ On(BareWith(q, m, w)) = With(q, m, w)
<1>1. PICK p : p = q \o w
    OBVIOUS
<1>2. PICK n : n = m + Len(w)
    OBVIOUS
<1>3. [At(p, n) EXCEPT !.types = TRUE] = At(p, n) /\ [Bare(p, n) EXCEPT !.types = TRUE] = At(p, n)
    BY TypesChange
<1>4. On(At(p, n)) = At(p, n) /\ On(Bare(p, n)) = At(p, n)
    BY <1>3, Zenon DEF On
<1> QED BY <1>1, <1>2, <1>4, Zenon DEF With, BareWith

LEMMA FieldWritten ==
    ASSUME NEW q \in Seq(Nat), NEW m \in Nat, NEW f, WellFormed(f)
    PROVE  WriteField(At(q, m), f) = With(q, m, Encoded(f))
<1>1. IsField(f) /\ f.val \in Seq(Nat) /\ f.typed \in BOOLEAN
    BY DEF WellFormed, IsField
<1>2. PICK b : b = At(q, m)
    OBVIOUS
<1>3. b.types = TRUE
    BY <1>2, Zenon DEF At
<1>4. /\ f.typed => Flagged(b, f) = At(q, m)
      /\ ~f.typed => Flagged(b, f) = Bare(q, m)
    <2>1. /\ f.typed => Flagged(At(q, m), f) = At(q, m)
          /\ ~f.typed => Flagged(At(q, m), f) = Bare(q, m)
        BY <1>1, FlaggedIs
    <2> QED BY <1>2, <2>1, Zenon
<1>5. CASE StringField(f)
    <2>1. f.kind = "string" /\ f.typed
        BY <1>5 DEF StringField
    <2>2. WriteField(b, f) = On(WriteString(At(q, m), f.val))
        BY <1>3, <1>4, <2>1, WriteFieldIs, Zenon
    <2>3. WriteString(At(q, m), f.val) = With(q, m, <<Tag["string"]>> \o Append(f.val, 0))
        BY <1>1, StringWritten
    <2>4. Encoded(f) = <<Tag["string"]>> \o Append(f.val, 0)
        BY <2>1, EncodedIs, Zenon
    <2> QED BY <1>2, <2>2, <2>3, <2>4, OnWith, Zenon
<1>6. CASE SizedField(f)
    <2>1. f.kind \in {"blob", "struct"} /\ f.typed
        BY <1>6 DEF SizedField
    <2>2. WriteField(b, f) = On(WriteSized(At(q, m), f.kind, f.val))
        BY <1>3, <1>4, <2>1, WriteFieldIs, Zenon
    <2>3. WriteSized(At(q, m), f.kind, f.val)
             = With(q, m, <<Tag[f.kind]>> \o (<< 8 >> \o (Word(Len(f.val)) \o f.val)))
        BY <1>1, <2>1, SizedWritten
    <2>4. Encoded(f) = <<Tag[f.kind]>> \o (<< 8 >> \o (Word(Len(f.val)) \o f.val))
        BY <2>1, EncodedIs, Zenon
    <2> QED BY <1>2, <2>2, <2>3, <2>4, OnWith, Zenon
<1>7. CASE TagsField(f)
    <2>1. f.kind = "tags" /\ f.typed
        BY <1>7 DEF TagsField
    <2>2. PICK n : n = Len(f.val) \div 8
        OBVIOUS
    <2>3. n \in Nat
        <3>1. \A l \in Nat : l \div 8 \in Nat
            OBVIOUS
        <3>2. Len(f.val) \in Nat
            BY <1>1
        <3> QED BY <2>2, <3>1, <3>2, Zenon
    <2>4. WriteField(b, f) = On(WriteArray(At(q, m), "uint64", n, f.val))
        BY <1>3, <1>4, <2>1, <2>2, WriteFieldIs, Zenon
    <2>5. WriteArray(At(q, m), "uint64", n, f.val)
             = With(q, m, <<ArrayTag>> \o (<< 8 >> \o (Word(n * 8) \o (Word(n) \o f.val))))
        BY <1>1, <2>3, TagsWritten
    <2>6. Encoded(f) = <<ArrayTag>> \o (<< 8 >> \o (Word(n * 8) \o (Word(n) \o f.val)))
        BY <2>1, <2>2, EncodedIs, Zenon
    <2> QED BY <1>2, <2>4, <2>5, <2>6, OnWith, Zenon
<1>8. CASE RawField(f)
    <2>1. f.kind = "raw4" /\ ~f.typed
        BY <1>8 DEF RawField
    <2>2. WriteField(b, f) = On(Write(Bare(q, m), f.val))
        BY <1>3, <1>4, <2>1, WriteFieldIs, Zenon
    <2>3. Write(Bare(q, m), f.val) = BareWith(q, m, f.val)
        BY <1>1, WriteMore
    <2>4. Encoded(f) = f.val
        BY <2>1, EncodedIs, Zenon
    <2> QED BY <1>2, <2>2, <2>3, <2>4, OnWith, Zenon
<1>9. CASE NumberField(f) /\ ~f.typed
    <2>1. f.kind \in Fixed /\ ~f.typed
        BY <1>9 DEF NumberField
    <2>2. WriteField(b, f) = On(WriteFixed(Bare(q, m), f.kind, f.val))
        BY <1>3, <1>4, <2>1, WriteFieldIs, Zenon
    <2>3. Write(Bare(q, m), f.val) = BareWith(q, m, f.val)
        BY <1>1, WriteMore
    <2>4. WriteFixed(Bare(q, m), f.kind, f.val) = Write(Bare(q, m), f.val)
        BY AtIs, Zenon DEF WriteFixed, WriteDataType
    <2>5. Encoded(f) = f.val
        BY <2>1, EncodedIs, Zenon
    <2> QED BY <1>2, <2>2, <2>3, <2>4, <2>5, OnWith, Zenon
<1>10. CASE NumberField(f) /\ f.typed
    <2>1. f.kind \in Fixed /\ f.typed
        BY <1>10 DEF NumberField
    <2>2. WriteField(b, f) = On(WriteFixed(At(q, m), f.kind, f.val))
        BY <1>3, <1>4, <2>1, WriteFieldIs, Zenon
    <2>3. PICK t : t = <<Tag[f.kind]>>
        OBVIOUS
    <2>4. t \in Seq(Nat)
        BY <2>1, <2>3, KindNumbers
    <2>5. Write(At(q, m), t) = With(q, m, t) /\ Write(With(q, m, t), f.val) = With(q, m, t \o f.val)
        BY <1>1, <2>4, WriteMore
    <2>6. WriteFixed(At(q, m), f.kind, f.val) = Write(With(q, m, t), f.val)
        BY <2>3, <2>5, AtIs, Zenon DEF WriteFixed, WriteDataType
    <2>7. Encoded(f) = t \o f.val
        BY <2>1, <2>3, EncodedIs, Zenon
    <2> QED BY <1>2, <2>2, <2>5, <2>6, <2>7, OnWith, Zenon
<1> QED BY <1>5, <1>6, <1>7, <1>8, <1>9, <1>10 DEF WellFormed

LEMMA ReadFieldIs ==
    ASSUME NEW q, NEW m, NEW g, g.typed \in BOOLEAN, NEW r \in ReadField(At(q, m), g)
    PROVE  /\ g.typed /\ g.kind = "string" => r \in ReadString(At(q, m))
           /\ g.typed /\ g.kind \in {"blob", "struct"} => r \in ReadSized(At(q, m), g.kind)
           /\ g.typed /\ g.kind \in Fixed => r \in ReadFixed(At(q, m), g.kind)
           /\ ~g.typed /\ g.kind = "raw4" => r = Restored(Read(Bare(q, m), 4))
           /\ ~g.typed /\ g.kind \in Fixed => \E u \in ReadFixed(Bare(q, m), g.kind) : r = Restored(u)
<1>1. PICK b : b = At(q, m)
    OBVIOUS
<1>2. b.types = TRUE
    BY <1>1, Zenon DEF At
<1>3. PICK c : c = Flagged(b, g)
    OBVIOUS
<1>4. /\ g.typed => c = At(q, m)
      /\ ~g.typed => c = Bare(q, m)
    <2>1. /\ g.typed => Flagged(At(q, m), g) = At(q, m)
          /\ ~g.typed => Flagged(At(q, m), g) = Bare(q, m)
        BY FlaggedIs
    <2> QED BY <1>1, <1>3, <2>1, Zenon
<1>5. PICK outcomes :
         outcomes = CASE g.kind = "string" -> ReadString(c)
                      [] g.kind \in {"blob", "struct"} -> ReadSized(c, g.kind)
                      [] g.kind = "raw4" -> {Read(c, 4)}
                      [] OTHER -> ReadFixed(c, g.kind)
    OBVIOUS
<1>6. r \in IF g.typed THEN outcomes ELSE {Restored(u) : u \in outcomes}
    BY <1>1, <1>2, <1>3, <1>5, Zenon DEF ReadField, Flagged, Restored
<1>7. g.kind = "string" => outcomes = ReadString(c)
    BY <1>5, KindsDiffer, Zenon
<1>8. g.kind \in {"blob", "struct"} => outcomes = ReadSized(c, g.kind)
    BY <1>5, KindsDiffer, Zenon
<1>9. g.kind = "raw4" => outcomes = {Read(c, 4)}
    BY <1>5, KindsDiffer, Zenon
<1>11. g.kind \in Fixed => outcomes = ReadFixed(c, g.kind)
    BY <1>5, KindsDiffer, Zenon
<1>12. /\ g.typed => r \in outcomes
       /\ ~g.typed => \E u \in outcomes : r = Restored(u)
    BY <1>6, Zenon
<1>13. ~g.typed /\ g.kind = "raw4" => r = Restored(Read(Bare(q, m), 4))
    BY <1>4, <1>9, <1>12, Zenon
<1>14. ~g.typed /\ g.kind \in Fixed => \E u \in ReadFixed(Bare(q, m), g.kind) : r = Restored(u)
    BY <1>4, <1>11, <1>12, Zenon
<1> QED BY <1>4, <1>7, <1>8, <1>11, <1>12, <1>13, <1>14, Zenon

(* How a read entry of the client stands for a field that was written.        *)
Agrees(g, f) ==
    /\ g.typed = f.typed /\ g.member = f.member /\ f.kind # "tags"
    /\ \/ g.kind = f.kind
       \/ ~f.typed /\ g.kind \in Fixed /\ f.kind \in Fixed /\ Width[g.kind] = Width[f.kind]

CutShort(f, q, r) ==
    \/ f.kind = "string" /\ r.inside /\ IsPrefix(r.val, f.val) /\ r.b = At(q, Len(q) + 1)
    \/ f.kind = "string" /\ ~r.inside /\ r.val = <<>>
    \/ f.kind \in {"blob", "struct"} /\ ~r.inside

Back(f, q, m, r) ==
    /\ m + Len(Encoded(f)) <= Len(q) => r = Done(f.val, At(q, m + Len(Encoded(f))))
    /\ m + Len(Encoded(f)) > Len(q) => ~r.ok \/ CutShort(f, q, r)

LEMMA StringFieldBack ==
    ASSUME NEW q \in Seq(Nat), NEW m \in Nat, NEW f, IsField(f), StringField(f),
           NEW r \in ReadString(At(q, m)), Begins(q, m, Encoded(f))
    PROVE  Back(f, q, m, r)
<1>1. f.kind = "string" /\ f.val \in Seq(Nat) /\ Len(f.val) \in Nat /\ \A i \in 1 .. Len(f.val) : f.val[i] # 0
    BY DEF StringField, IsField
<1>2. Len(Encoded(f)) = 2 + Len(f.val)
    BY StringLength
<1>3. Begins(q, m, <<Tag["string"]>> \o Append(f.val, 0))
    BY <1>1, EncodedIs, Zenon
<1>4. /\ m + 2 + Len(f.val) <= Len(q) => r = Done(f.val, At(q, m + 2 + Len(f.val)))
      /\ m + 2 + Len(f.val) > Len(q) =>
            \/ ~r.ok
            \/ r.inside /\ IsPrefix(r.val, f.val) /\ r.b = At(q, Len(q) + 1)
            \/ ~r.inside /\ r.val = <<>>
    BY <1>1, <1>3, StringBack
<1>5. PICK e : e = m + Len(Encoded(f))
    OBVIOUS
<1>6. m + 2 + Len(f.val) = e
    <2>1. \A l \in Nat : m + 2 + l = m + (2 + l)
        OBVIOUS
    <2>2. m + 2 + Len(f.val) = m + (2 + Len(f.val))
        BY <1>1, <2>1, Zenon
    <2> QED BY <1>2, <1>5, <2>2, Zenon
<1>7. /\ e <= Len(q) => r = Done(f.val, At(q, e))
      /\ e > Len(q) => ~r.ok \/ CutShort(f, q, r)
    BY <1>1, <1>4, <1>6 DEF CutShort
<1> QED BY <1>5, <1>7 DEF Back

LEMMA SizedFieldBack ==
    ASSUME NEW q \in Seq(Nat), NEW m \in Nat, NEW f, IsField(f), SizedField(f),
           NEW r \in ReadSized(At(q, m), f.kind), Begins(q, m, Encoded(f))
    PROVE  Back(f, q, m, r)
<1>1. f.kind \in {"blob", "struct"} /\ f.val \in Seq(Nat) /\ Len(f.val) \in Nat
    BY DEF SizedField, IsField
<1>2. Len(Encoded(f)) = 6 + Len(f.val)
    BY SizedLength
<1>3. Begins(q, m, <<Tag[f.kind]>> \o (<< 8 >> \o (Word(Len(f.val)) \o f.val)))
    BY <1>1, EncodedIs, Zenon
<1>4. /\ m + 6 + Len(f.val) <= Len(q) => r = Done(f.val, At(q, m + 6 + Len(f.val)))
      /\ m + 6 + Len(f.val) > Len(q) => ~r.ok \/ ~r.inside
    BY <1>1, <1>3, SizedBack
<1>5. PICK e : e = m + Len(Encoded(f))
    OBVIOUS
<1>6. m + 6 + Len(f.val) = e
    <2>1. \A l \in Nat : m + 6 + l = m + (6 + l)
        OBVIOUS
    <2>2. m + 6 + Len(f.val) = m + (6 + Len(f.val))
        BY <1>1, <2>1, Zenon
    <2> QED BY <1>2, <1>5, <2>2, Zenon
<1>7. /\ e <= Len(q) => r = Done(f.val, At(q, e))
      /\ e > Len(q) => ~r.ok \/ CutShort(f, q, r)
    BY <1>1, <1>4, <1>6 DEF CutShort
<1> QED BY <1>5, <1>7 DEF Back

(* read_array of the bytes that write_array wrote: a map with items comes     *)
(* back, an empty one makes the reader of the header divide by zero, and one  *)
(* that is cut short is not read (byte_buffer.hpp:58-81, 119-133).            *)
THEOREM ArraysComeBack ==
    ASSUME NEW q \in Seq(Nat), NEW m \in Nat, NEW f, IsField(f), TagsField(f),
           NEW r \in ReadArray(At(q, m), "uint64"), Begins(q, m, Encoded(f))
    PROVE  /\ m + Len(Encoded(f)) <= Len(q) /\ f.val # <<>> =>
                 r = Done(f.val, At(q, m + Len(Encoded(f))))
           /\ m + Len(Encoded(f)) <= Len(q) /\ f.val = <<>> => ~r.inside
           /\ m + Len(Encoded(f)) > Len(q) => ~r.ok
<1>1. f.kind = "tags" /\ f.val \in Seq(Nat) /\ Len(f.val) \in Nat
    BY DEF TagsField, IsField
<1>2. Len(Encoded(f)) = 10 + Len(f.val)
    BY TagsLength
<1>3. PICK n : n = Len(f.val) \div 8
    OBVIOUS
<1>4. n \in Nat /\ n * 8 \in Nat /\ HasItems(f.val, n)
    <2>1. \A l \in Nat : l \div 8 \in Nat
        OBVIOUS
    <2>2. n \in Nat
        BY <1>1, <1>3, <2>1, Zenon
    <2>3. n * 8 \in Nat
        BY <2>2
    <2>4. HasItems(f.val, n)
        BY <1>3 DEF TagsField
    <2> QED BY <2>2, <2>3, <2>4
<1>5. PICK head : head = << 8 >>
    OBVIOUS
<1>6. PICK size : size = Word(n * 8)
    OBVIOUS
<1>7. PICK count : count = Word(n)
    OBVIOUS
<1>8. PICK tag : tag = ArrayTag
    OBVIOUS
<1>9. Begins(q, m, <<tag>> \o (head \o (size \o (count \o f.val))))
    <2>1. Encoded(f) = <<ArrayTag>> \o (<< 8 >> \o (Word((Len(f.val) \div 8) * 8)
                                                     \o (Word(Len(f.val) \div 8) \o f.val)))
        BY <1>1, EncodedIs, Zenon
    <2> QED BY <1>3, <1>5, <1>6, <1>7, <1>8, <2>1, Zenon
<1>10. /\ tag \in Nat /\ head \in Seq(Nat) /\ size \in Seq(Nat) /\ count \in Seq(Nat)
       /\ Len(head) = 1 /\ Len(size) = 4 /\ Len(count) = 4
    <2>1. tag \in Nat
        BY <1>8 DEF ArrayTag, Tag
    <2>2. head \in Seq(Nat) /\ Len(head) = 1
        BY <1>5
    <2>3. size \in Seq(Nat) /\ Len(size) = 4
        BY <1>4, <1>6, WordNumber
    <2>4. count \in Seq(Nat) /\ Len(count) = 4
        BY <1>4, <1>7, WordNumber
    <2> QED BY <2>1, <2>2, <2>3, <2>4
<1>11. /\ m + 1 <= Len(q) => q[m + 1] = tag
       /\ Begins(q, m + 1, head \o size) /\ Begins(q, m + 6, count) /\ Begins(q, m + 10, f.val)
    BY <1>1, <1>9, <1>10, HeaderParts
<1>12. /\ m + 10 + Len(f.val) > Len(q) => ~r.ok
       /\ m + 10 + Len(f.val) <= Len(q) /\ n = 0 => ~r.inside
       /\ m + 10 + Len(f.val) <= Len(q) /\ n # 0 => r = Done(f.val, At(q, m + 10 + Len(f.val)))
    <2>1. /\ m + 1 <= Len(q) => q[m + 1] = ArrayTag
          /\ Begins(q, m + 1, head \o Word(n * 8)) /\ Begins(q, m + 6, Word(n)) /\ Begins(q, m + 10, f.val)
        BY <1>6, <1>7, <1>8, <1>11, Zenon
    <2> QED BY <1>1, <1>4, <1>5, <2>1, TagsBack
<1>13. PICK e : e = m + Len(Encoded(f))
    OBVIOUS
<1>15. m + 10 + Len(f.val) = e
    <2>1. \A l \in Nat : m + 10 + l = m + (10 + l)
        OBVIOUS
    <2>2. m + 10 + Len(f.val) = m + (10 + Len(f.val))
        BY <1>1, <2>1, Zenon
    <2> QED BY <1>2, <1>13, <2>2, Zenon
<1>14. n = 0 <=> f.val = <<>>
    BY <1>1, <1>4 DEF HasItems
<1>16. /\ e <= Len(q) /\ f.val # <<>> => r = Done(f.val, At(q, e))
       /\ e <= Len(q) /\ f.val = <<>> => ~r.inside
       /\ e > Len(q) => ~r.ok
    BY <1>1, <1>12, <1>14, <1>15
<1> QED BY <1>13, <1>16, Zenon

LEMMA NumberFieldBack ==
    ASSUME NEW q \in Seq(Nat), NEW m \in Nat, NEW f, IsField(f), NumberField(f), f.typed,
           NEW r \in ReadFixed(At(q, m), f.kind), Begins(q, m, Encoded(f))
    PROVE  Back(f, q, m, r)
<1>1. f.kind \in Fixed /\ f.val \in Seq(Nat) /\ Len(f.val) \in Nat /\ Len(f.val) = Width[f.kind]
    BY DEF NumberField, IsField
<1>2. Len(Encoded(f)) = 1 + Len(f.val)
    BY NumberLength
<1>3. Begins(q, m, <<Tag[f.kind]>> \o f.val)
    BY <1>1, EncodedIs, Zenon
<1>4. /\ m + 1 + Len(f.val) > Len(q) => ~r.ok
      /\ m + 1 + Len(f.val) <= Len(q) => r = Done(f.val, At(q, m + 1 + Len(f.val)))
    BY <1>1, <1>3, FixedBack
<1>5. PICK e : e = m + Len(Encoded(f))
    OBVIOUS
<1>6. m + 1 + Len(f.val) = e
    <2>1. \A l \in Nat : m + 1 + l = m + (1 + l)
        OBVIOUS
    <2>2. m + 1 + Len(f.val) = m + (1 + Len(f.val))
        BY <1>1, <2>1, Zenon
    <2> QED BY <1>2, <1>5, <2>2, Zenon
<1>7. /\ e <= Len(q) => r = Done(f.val, At(q, e))
      /\ e > Len(q) => ~r.ok
    BY <1>4, <1>6
<1> QED BY <1>5, <1>7 DEF Back

LEMMA PlainFieldBack ==
    ASSUME NEW q \in Seq(Nat), NEW m \in Nat, NEW f, f.val \in Seq(Nat), Encoded(f) = f.val,
           Begins(q, m, Encoded(f)), NEW u,
           /\ m + Len(f.val) > Len(q) => u = Fails(Bare(q, m))
           /\ m + Len(f.val) <= Len(q) /\ Begins(q, m, f.val) => u = Done(f.val, Bare(q, m + Len(f.val)))
    PROVE  Back(f, q, m, Restored(u))
<1>1. PICK e : e = m + Len(f.val)
    OBVIOUS
<1>2. PICK r : r = Restored(u)
    OBVIOUS
<1>3. e > Len(q) => ~r.ok
    <2>1. Restored(Fails(Bare(q, m))) = Fails(At(q, m))
        BY TypesComeBack
    <2>2. ~Fails(At(q, m)).ok
        BY ResultIs
    <2> QED BY <1>1, <1>2, <2>1, <2>2, Zenon
<1>4. e <= Len(q) => r = Done(f.val, At(q, e))
    <2>1. Restored(Done(f.val, Bare(q, e))) = Done(f.val, At(q, e))
        BY TypesComeBack
    <2>2. Begins(q, m, f.val)
        BY Zenon
    <2> QED BY <1>1, <1>2, <2>1, <2>2, Zenon
<1>5. e = m + Len(Encoded(f))
    BY <1>1, Zenon
<1>6. Back(f, q, m, r)
    BY <1>3, <1>4, <1>5 DEF Back
<1> QED BY <1>2, <1>6, Zenon

LEMMA FieldBack ==
    ASSUME NEW q \in Seq(Nat), NEW m \in Nat, NEW f, WellFormed(f), NEW g, Agrees(g, f),
           NEW r \in ReadField(At(q, m), g), Begins(q, m, Encoded(f))
    PROVE  Back(f, q, m, r)
<1>1. IsField(f) /\ f.val \in Seq(Nat) /\ g.typed = f.typed /\ g.typed \in BOOLEAN
    BY DEF WellFormed, IsField, Agrees
<1>8. f.typed => g.typed /\ g.kind = f.kind
    BY Zenon DEF Agrees
<1>9. /\ g.typed /\ g.kind = "string" => r \in ReadString(At(q, m))
      /\ g.typed /\ g.kind \in {"blob", "struct"} => r \in ReadSized(At(q, m), g.kind)
      /\ g.typed /\ g.kind \in Fixed => r \in ReadFixed(At(q, m), g.kind)
      /\ ~g.typed /\ g.kind = "raw4" => r = Restored(Read(Bare(q, m), 4))
      /\ ~g.typed /\ g.kind \in Fixed => \E u \in ReadFixed(Bare(q, m), g.kind) : r = Restored(u)
    BY <1>1, ReadFieldIs
<1>2. CASE StringField(f)
    <2>1. g.typed /\ g.kind = "string"
        BY <1>2, <1>8, Zenon DEF StringField
    <2>2. r \in ReadString(At(q, m))
        BY <1>9, <2>1, Zenon
    <2> QED BY <1>1, <1>2, <2>2, StringFieldBack
<1>3. CASE SizedField(f)
    <2>1. g.typed /\ g.kind = f.kind /\ f.kind \in {"blob", "struct"}
        BY <1>3, <1>8, Zenon DEF SizedField
    <2>2. r \in ReadSized(At(q, m), g.kind)
        BY <1>9, <2>1, Zenon
    <2> QED BY <1>1, <1>3, <2>1, <2>2, SizedFieldBack
<1>4. ~TagsField(f)
    BY Zenon DEF TagsField, Agrees
<1>5. CASE RawField(f)
    <2>1. ~g.typed /\ g.kind = "raw4" /\ Len(f.val) = 4
        <3>1. f.kind = "raw4" => f.kind \notin Fixed
            BY KindsDiffer
        <3> QED BY <1>1, <1>5, <3>1 DEF RawField, Agrees
    <2>2. r = Restored(Read(Bare(q, m), 4))
        BY <1>9, <2>1, Zenon
    <2>3. PICK u : u = Read(Bare(q, m), Len(f.val))
        OBVIOUS
    <2>4. /\ m + Len(f.val) > Len(q) => u = Fails(Bare(q, m))
          /\ m + Len(f.val) <= Len(q) /\ Begins(q, m, f.val) => u = Done(f.val, Bare(q, m + Len(f.val)))
        BY <1>1, <2>3, ReadBack
    <2>5. Encoded(f) = f.val
        BY <1>1, <1>5, PlainLength
    <2>6. Back(f, q, m, Restored(u))
        BY <1>1, <2>4, <2>5, PlainFieldBack
    <2> QED BY <2>1, <2>2, <2>3, <2>6, Zenon
<1>6. CASE NumberField(f) /\ ~f.typed
    <2>1. ~g.typed /\ g.kind \in Fixed /\ Len(f.val) = Width[g.kind]
        BY <1>1, <1>6 DEF NumberField, Agrees
    <2>2. PICK u \in ReadFixed(Bare(q, m), g.kind) : r = Restored(u)
        BY <1>9, <2>1, Zenon
    <2>3. /\ m + Len(f.val) > Len(q) => u = Fails(Bare(q, m))
          /\ m + Len(f.val) <= Len(q) /\ Begins(q, m, f.val) => u = Done(f.val, Bare(q, m + Len(f.val)))
        BY <1>1, <2>1, BareBack
    <2>4. Encoded(f) = f.val
        BY <1>1, <1>6, PlainLength
    <2>5. Back(f, q, m, Restored(u))
        BY <1>1, <2>3, <2>4, PlainFieldBack
    <2> QED BY <2>2, <2>5, Zenon
<1>7. CASE NumberField(f) /\ f.typed
    <2>1. g.typed /\ g.kind = f.kind /\ f.kind \in Fixed
        BY <1>7, <1>8, Zenon DEF NumberField
    <2>2. r \in ReadFixed(At(q, m), f.kind)
        BY <1>9, <2>1, Zenon
    <2> QED BY <1>1, <1>7, <2>2, NumberFieldBack
<1> QED BY <1>2, <1>3, <1>4, <1>5, <1>6, <1>7 DEF WellFormed

------------------------------------------------------------------------------
(* The tables of the records.                                                 *)

Kinds == Fixed \cup {"string", "blob", "struct", "tags", "raw4"}
TypedKinds == Fixed \cup {"string", "blob", "struct", "tags"}
UntypedKinds == Fixed \cup {"raw4"}
KindsOf(typed) == IF typed THEN TypedKinds ELSE UntypedKinds

(* The members of the records, and the numbers in front of them.              *)
Members ==
    {"file_data", "file_size", "file_id", "create_time", "modified_time", "priv", "owner_id",
     "file_name", "user_id", "platform", "error_code", "unix_time", "unk", "data", "unk1", "unk2",
     "unk3", "modifed_time", "account_type", "country_code", "country", "region", "city",
     "latitude", "longitude", "asn", "timezone", "performance", "checksum", "checksum_matched",
     "session_id", "host_addr", "game_type", "max_players", "num_players", "entity_id", "version",
     "ddl", "c_addr", "port", "nat_type", "tier0", "tier1", "tier2", "tier3", "confidence",
     "content", "value", "owner_name", "file_slot", "url", "category", "metadata",
     "summary_file_size", "tags", "num_copies_made", "origin_id", "server_type", "server_index",
     "structed_data_protobuffer", "transaction_id", "error", "type", "size"}

(* The calls of write and read functions: those of a kind that is read again, *)
(* those without a type in front, and all.                                    *)
PlainCall == [kind : Fixed \cup {"string", "blob", "struct"}, member : Members]
TypedCall == [kind : TypedKinds, member : Members]
UntypedCall == [kind : UntypedKinds, member : Members]
AnyCall == [kind : Kinds, member : Members]
CallOf(typed) == IF typed THEN TypedCall ELSE UntypedCall

SameCall(g, f, typed) ==
    /\ g.member = f.member /\ f.kind # "tags"
    /\ \/ g.kind = f.kind
       \/ ~typed /\ g.kind \in Fixed /\ f.kind \in Fixed /\ Width[g.kind] = Width[f.kind]

Row(name, r) ==
    /\ r.typed \in BOOLEAN
    /\ r.written \in Seq(CallOf(r.typed)) /\ r.read \in Seq(AnyCall)
    /\ name \notin OutOfStep =>
          /\ Len(r.read) = Len(r.written)
          /\ \A i \in 1 .. Len(r.written) : SameCall(r.read[i], r.written[i], r.typed)

LEMMA SubsetSeq ==
    ASSUME NEW S, NEW T, S \subseteq T, NEW s \in Seq(S)
    PROVE  s \in Seq(T)
<1>1. \A i \in 1 .. Len(s) : s[i] \in T
    BY ElementOfSeq
<1>2. s = [i \in 1 .. Len(s) |-> s[i]]
    BY SeqDef
<1>3. Len(s) \in Nat
    BY LenProperties
<1> QED BY <1>1, <1>2, <1>3, IsASeq

LEMMA KindIs ==
    /\ {"bool", "byte", "ubyte", "uint16", "int32", "uint32", "int64", "uint64", "float"} \subseteq Fixed
    /\ Width["byte"] = 1 /\ Width["ubyte"] = 1 /\ Width["uint32"] = 4 /\ Width["uint64"] = 8
BY DEF Fixed, Width

LEMMA CallSets ==
    /\ PlainCall \subseteq TypedCall /\ TypedCall \subseteq AnyCall /\ UntypedCall \subseteq AnyCall
    /\ \A c \in PlainCall \cup UntypedCall : c.kind # "tags"
<1>1. \A c \in PlainCall \cup UntypedCall : c.kind # "tags"
    BY KindsDiffer DEF PlainCall, UntypedCall, UntypedKinds
<1> QED BY <1>1 DEF PlainCall, TypedCall, UntypedCall, AnyCall, TypedKinds, UntypedKinds, Kinds

LEMMA CallsAre ==
    ASSUME NEW member \in Members
    PROVE  /\ Bool(member) \in PlainCall /\ Uint16(member) \in PlainCall /\ Int32(member) \in PlainCall
           /\ Uint32(member) \in PlainCall /\ Int64(member) \in PlainCall /\ Uint64(member) \in PlainCall
           /\ Float(member) \in PlainCall /\ String(member) \in PlainCall /\ Blob(member) \in PlainCall
           /\ Struct(member) \in PlainCall /\ Tags(member) \in TypedCall
           /\ Raw4(member) \in UntypedCall /\ Uint16(member) \in UntypedCall
           /\ Char(member) \in UntypedCall /\ Ubyte(member) \in UntypedCall
BY KindIs DEF PlainCall, TypedCall, UntypedCall, TypedKinds, UntypedKinds, Bool, Uint16, Int32, Uint32,
              Int64, Uint64, Float, String, Blob, Struct, Tags, Raw4, Char, Ubyte

(* The two lists of a record are the same.                                    *)
LEMMA SameRow ==
    ASSUME NEW name, NEW calls \in Seq(PlainCall)
    PROVE  Row(name, Record(calls, calls))
<1>1. PICK r : r = Record(calls, calls)
    OBVIOUS
<1>2. r.typed = TRUE /\ r.written = calls /\ r.read = calls
    BY <1>1, Zenon DEF Record
<1>3. calls \in Seq(TypedCall) /\ calls \in Seq(AnyCall)
    BY CallSets, SubsetSeq
<1>4. \A i \in 1 .. Len(calls) : calls[i].kind # "tags"
    <2>1. \A i \in 1 .. Len(calls) : calls[i] \in PlainCall
        BY ElementOfSeq
    <2> QED BY <2>1, CallSets, Zenon
<1>5. Row(name, r)
    BY <1>2, <1>3, <1>4, Zenon DEF Row, CallOf, SameCall
<1> QED BY <1>1, <1>5, Zenon

(* They need not be those of a record that is out of step.                    *)
LEMMA StrayRow ==
    ASSUME NEW name \in OutOfStep, NEW w \in Seq(TypedCall), NEW g \in Seq(PlainCall)
    PROVE  Row(name, Record(w, g))
<1>1. PICK r : r = Record(w, g)
    OBVIOUS
<1>2. r.typed = TRUE /\ r.written = w /\ r.read = g
    BY <1>1, Zenon DEF Record
<1>3. g \in Seq(AnyCall)
    BY CallSets, SubsetSeq
<1>4. Row(name, r)
    BY <1>2, <1>3, Zenon DEF Row, CallOf
<1> QED BY <1>1, <1>4, Zenon

LEMMA StorageRows ==
    ASSUME NEW name \in DOMAIN StorageRecords
    PROVE  Row(name, StorageRecords[name])
<1>1. Row("bdFileData", StorageRecords["bdFileData"])
    <2>1. PICK calls \in Seq(PlainCall) : calls = <<Blob("file_data")>>
        <3>1. <<Blob("file_data")>> \in Seq(PlainCall)
            BY CallsAre DEF Members
        <3> QED BY <3>1, Zenon
    <2>2. StorageRecords["bdFileData"] = Record(calls, calls)
        BY <2>1 DEF StorageRecords
    <2> QED BY <2>2, SameRow
<1>2. Row("bdFileInfo", StorageRecords["bdFileInfo"])
    <2>1. PICK calls \in Seq(PlainCall) :
            calls = <<Uint32("file_size"), Uint64("file_id"), Uint32("create_time"),
                      Uint32("modified_time"), Bool("priv"), Uint64("owner_id"), String("file_name")>>
        <3>1. <<Uint32("file_size"), Uint64("file_id"), Uint32("create_time"),
               Uint32("modified_time"), Bool("priv"), Uint64("owner_id"), String("file_name")>>
               \in Seq(PlainCall)
            BY CallsAre DEF Members
        <3> QED BY <3>1, Zenon
    <2>2. StorageRecords["bdFileInfo"] = Record(calls, calls)
        BY <2>1 DEF StorageRecords
    <2> QED BY <2>2, SameRow
<1>3. Row("bdFileQueryResult", StorageRecords["bdFileQueryResult"])
    <2>1. PICK calls \in Seq(PlainCall) :
            calls = <<Uint64("user_id"), String("platform"), String("file_name"), Uint32("error_code"),
                      Blob("file_data")>>
        <3>1. <<Uint64("user_id"), String("platform"), String("file_name"), Uint32("error_code"),
               Blob("file_data")>>
               \in Seq(PlainCall)
            BY CallsAre DEF Members
        <3> QED BY <3>1, Zenon
    <2>2. StorageRecords["bdFileQueryResult"] = Record(calls, calls)
        BY <2>1 DEF StorageRecords
    <2> QED BY <2>2, SameRow
<1>4. Row("bdTimeStamp", StorageRecords["bdTimeStamp"])
    <2>1. PICK calls \in Seq(PlainCall) : calls = <<Uint32("unix_time")>>
        <3>1. <<Uint32("unix_time")>> \in Seq(PlainCall)
            BY CallsAre DEF Members
        <3> QED BY <3>1, Zenon
    <2>2. StorageRecords["bdTimeStamp"] = Record(calls, calls)
        BY <2>1 DEF StorageRecords
    <2> QED BY <2>2, SameRow
<1>5. name \in {"bdFileData", "bdFileInfo", "bdFileQueryResult", "bdTimeStamp"}
    BY DEF StorageRecords
<1> QED BY <1>1, <1>2, <1>3, <1>4, <1>5, Zenon

LEMMA FileRows ==
    ASSUME NEW name \in DOMAIN FileRecords
    PROVE  Row(name, FileRecords[name])
<1>1. Row("bdFile", FileRecords["bdFile"])
    <2>1. PICK calls \in Seq(PlainCall) :
            calls = <<Uint64("owner_id"), String("platform"), String("file_name"), Uint32("unk"),
                      Blob("data")>>
        <3>1. <<Uint64("owner_id"), String("platform"), String("file_name"), Uint32("unk"),
               Blob("data")>>
               \in Seq(PlainCall)
            BY CallsAre DEF Members
        <3> QED BY <3>1, Zenon
    <2>2. FileRecords["bdFile"] = Record(calls, calls)
        BY <2>1 DEF FileRecords
    <2> QED BY <2>2, SameRow
<1>2. Row("bdFile2", FileRecords["bdFile2"])
    <2>1. PICK calls \in Seq(PlainCall) :
            calls = <<Uint32("unk1"), Uint32("unk2"), Uint32("unk3"), Bool("priv"), Uint64("owner_id"),
                      String("platform"), String("file_name"), Blob("data")>>
        <3>1. <<Uint32("unk1"), Uint32("unk2"), Uint32("unk3"), Bool("priv"), Uint64("owner_id"),
               String("platform"), String("file_name"), Blob("data")>>
               \in Seq(PlainCall)
            BY CallsAre DEF Members
        <3> QED BY <3>1, Zenon
    <2>2. FileRecords["bdFile2"] = Record(calls, calls)
        BY <2>1 DEF FileRecords
    <2> QED BY <2>2, SameRow
<1>3. Row("bdContextUserStorageFileInfo", FileRecords["bdContextUserStorageFileInfo"])
    <2>1. PICK calls \in Seq(PlainCall) :
            calls = <<Uint32("create_time"), Uint32("modifed_time"), Bool("priv"), Uint64("owner_id"),
                      String("account_type"), String("file_name")>>
        <3>1. <<Uint32("create_time"), Uint32("modifed_time"), Bool("priv"), Uint64("owner_id"),
               String("account_type"), String("file_name")>>
               \in Seq(PlainCall)
            BY CallsAre DEF Members
        <3> QED BY <3>1, Zenon
    <2>2. FileRecords["bdContextUserStorageFileInfo"] = Record(calls, calls)
        BY <2>1 DEF FileRecords
    <2> QED BY <2>2, SameRow
<1>4. name \in {"bdFile", "bdFile2", "bdContextUserStorageFileInfo"}
    BY DEF FileRecords
<1> QED BY <1>1, <1>2, <1>3, <1>4, Zenon

LEMMA DMLListsAre ==
    /\ DMLWritten \in Seq(PlainCall) /\ DMLRead = DMLWritten
    /\ TierWritten \in Seq(PlainCall) /\ TierRead = TierWritten
<1>1. DMLWritten \in Seq(PlainCall)
    BY CallsAre DEF DMLWritten, Members
<1>2. TierWritten \in Seq(PlainCall)
    BY CallsAre DEF TierWritten, Members
<1>3. DMLRead = DMLWritten /\ TierRead = TierWritten
    BY Zenon DEF DMLRead, DMLWritten, TierRead, TierWritten
<1> QED BY <1>1, <1>2, <1>3

LEMMA DMLRows ==
    ASSUME NEW name \in DOMAIN DMLRecords
    PROVE  Row(name, DMLRecords[name])
<1>1. Row("bdDMLInfo", DMLRecords["bdDMLInfo"])
    <2>1. DMLRecords["bdDMLInfo"] = Record(DMLWritten, DMLRead)
        BY DEF DMLRecords
    <2> QED BY <2>1, DMLListsAre, SameRow
<1>2. Row("bdDMLRawData", DMLRecords["bdDMLRawData"])
    <2>1. PICK more \in Seq(PlainCall) : more = <<Uint32("asn"), String("timezone")>>
        <3>1. <<Uint32("asn"), String("timezone")>> \in Seq(PlainCall)
            BY CallsAre DEF Members
        <3> QED BY <3>1, Zenon
    <2>2. PICK calls \in Seq(PlainCall) : calls = DMLWritten \o more
        BY DMLListsAre, ConcatProperties
    <2>3. DMLRecords["bdDMLRawData"] = Record(calls, calls)
        <3>1. calls = DMLRead \o more
            BY <2>2, DMLListsAre, Zenon
        <3> QED BY <2>1, <2>2, <3>1 DEF DMLRecords
    <2> QED BY <2>3, SameRow
<1>3. name \in {"bdDMLInfo", "bdDMLRawData"}
    BY DEF DMLRecords
<1> QED BY <1>1, <1>2, <1>3, Zenon

LEMMA StatRows ==
    ASSUME NEW name \in DOMAIN StatRecords
    PROVE  Row(name, StatRecords[name])
<1>1. Row("bdPerformanceValue", StatRecords["bdPerformanceValue"])
    <2>1. PICK calls \in Seq(PlainCall) : calls = <<Uint64("user_id"), Int64("performance")>>
        <3>1. <<Uint64("user_id"), Int64("performance")>> \in Seq(PlainCall)
            BY CallsAre DEF Members
        <3> QED BY <3>1, Zenon
    <2>2. StatRecords["bdPerformanceValue"] = Record(calls, calls)
        BY <2>1 DEF StatRecords
    <2> QED BY <2>2, SameRow
<1>2. Row("bdDDLChecksumResult", StatRecords["bdDDLChecksumResult"])
    <2>1. PICK w \in Seq(TypedCall) : w = <<String("checksum"), Bool("checksum_matched")>>
        <3>1. <<String("checksum"), Bool("checksum_matched")>> \in Seq(TypedCall)
            BY CallsAre, CallSets DEF Members
        <3> QED BY <3>1, Zenon
    <2>2. PICK g \in Seq(PlainCall) : g = <<String("checksum")>>
        <3>1. <<String("checksum")>> \in Seq(PlainCall)
            BY CallsAre DEF Members
        <3> QED BY <3>1, Zenon
    <2>3. StatRecords["bdDDLChecksumResult"] = Record(w, g)
        BY <2>1, <2>2 DEF StatRecords
    <2>4. "bdDDLChecksumResult" \in OutOfStep
        BY DEF OutOfStep
    <2> QED BY <2>3, <2>4, StrayRow
<1>3. name \in {"bdPerformanceValue", "bdDDLChecksumResult"}
    BY DEF StatRecords
<1> QED BY <1>1, <1>2, <1>3, Zenon

LEMMA MatchRows ==
    ASSUME NEW name \in DOMAIN MatchRecords
    PROVE  Row(name, MatchRecords[name])
<1>1. Row("bdSessionID", MatchRecords["bdSessionID"])
    <2>1. PICK calls \in Seq(PlainCall) : calls = <<Blob("session_id")>>
        <3>1. <<Blob("session_id")>> \in Seq(PlainCall)
            BY CallsAre DEF Members
        <3> QED BY <3>1, Zenon
    <2>2. MatchRecords["bdSessionID"] = Record(calls, calls)
        BY <2>1 DEF MatchRecords
    <2> QED BY <2>2, SameRow
<1>2. Row("bdMatchMakingInfo", MatchRecords["bdMatchMakingInfo"])
    <2>1. PICK w \in Seq(TypedCall) :
            w = <<Blob("host_addr"), Blob("session_id"), Uint32("game_type"),
                  Uint32("max_players"), Uint32("num_players")>>
        <3>1. <<Blob("host_addr"), Blob("session_id"), Uint32("game_type"),
               Uint32("max_players"), Uint32("num_players")>>
               \in Seq(TypedCall)
            BY CallsAre, CallSets DEF Members
        <3> QED BY <3>1, Zenon
    <2>2. PICK g \in Seq(PlainCall) : g = <<Blob("host_addr"), Uint32("game_type"), Uint32("max_players")>>
        <3>1. <<Blob("host_addr"), Uint32("game_type"), Uint32("max_players")>> \in Seq(PlainCall)
            BY CallsAre DEF Members
        <3> QED BY <3>1, Zenon
    <2>3. MatchRecords["bdMatchMakingInfo"] = Record(w, g)
        BY <2>1, <2>2 DEF MatchRecords
    <2>4. "bdMatchMakingInfo" \in OutOfStep
        BY DEF OutOfStep
    <2> QED BY <2>3, <2>4, StrayRow
<1>3. Row("bdPublicProfileInfo", MatchRecords["bdPublicProfileInfo"])
    <2>1. PICK calls \in Seq(PlainCall) : calls = <<Uint64("entity_id"), Int32("version"), Blob("ddl")>>
        <3>1. <<Uint64("entity_id"), Int32("version"), Blob("ddl")>> \in Seq(PlainCall)
            BY CallsAre DEF Members
        <3> QED BY <3>1, Zenon
    <2>2. MatchRecords["bdPublicProfileInfo"] = Record(calls, calls)
        BY <2>1 DEF MatchRecords
    <2> QED BY <2>2, SameRow
<1>4. name \in {"bdSessionID", "bdMatchMakingInfo", "bdPublicProfileInfo"}
    BY DEF MatchRecords
<1> QED BY <1>1, <1>2, <1>3, <1>4, Zenon

LEMMA IW4ResultRows ==
    ASSUME NEW name \in DOMAIN IW4Results
    PROVE  Row(name, IW4Results[name])
<1>1. Row("bdStringResult", IW4Results["bdStringResult"])
    <2>1. PICK calls \in Seq(PlainCall) : calls = <<String("content")>>
        <3>1. <<String("content")>> \in Seq(PlainCall)
            BY CallsAre DEF Members
        <3> QED BY <3>1, Zenon
    <2>2. IW4Results["bdStringResult"] = Record(calls, calls)
        BY <2>1 DEF IW4Results
    <2> QED BY <2>2, SameRow
<1>2. Row("bdUInt64Result", IW4Results["bdUInt64Result"])
    <2>1. PICK calls \in Seq(PlainCall) : calls = <<Uint64("value")>>
        <3>1. <<Uint64("value")>> \in Seq(PlainCall)
            BY CallsAre DEF Members
        <3> QED BY <3>1, Zenon
    <2>2. IW4Results["bdUInt64Result"] = Record(calls, calls)
        BY <2>1 DEF IW4Results
    <2> QED BY <2>2, SameRow
<1>3. Row("bdBoolResult", IW4Results["bdBoolResult"])
    <2>1. PICK calls \in Seq(PlainCall) : calls = <<Bool("value")>>
        <3>1. <<Bool("value")>> \in Seq(PlainCall)
            BY CallsAre DEF Members
        <3> QED BY <3>1, Zenon
    <2>2. IW4Results["bdBoolResult"] = Record(calls, calls)
        BY <2>1 DEF IW4Results
    <2> QED BY <2>2, SameRow
<1>4. Row("bdDMLHierarchicalInfo", IW4Results["bdDMLHierarchicalInfo"])
    <2>1. PICK more \in Seq(PlainCall) : more = <<Uint32("asn"), String("timezone")>>
        <3>1. <<Uint32("asn"), String("timezone")>> \in Seq(PlainCall)
            BY CallsAre DEF Members
        <3> QED BY <3>1, Zenon
    <2>2. PICK front \in Seq(PlainCall) : front = DMLWritten \o more /\ front = DMLRead \o more
        BY DMLListsAre, ConcatProperties
    <2>3. PICK calls \in Seq(PlainCall) : calls = front \o TierWritten /\ calls = front \o TierRead
        BY DMLListsAre, ConcatProperties
    <2>4. IW4Results["bdDMLHierarchicalInfo"] = Record(calls, calls)
        BY <2>1, <2>2, <2>3 DEF IW4Results
    <2> QED BY <2>4, SameRow
<1>5. name \in {"bdStringResult", "bdUInt64Result", "bdBoolResult", "bdDMLHierarchicalInfo"}
    BY DEF IW4Results
<1> QED BY <1>1, <1>2, <1>3, <1>4, <1>5, Zenon

LEMMA IW4StorageRows ==
    ASSUME NEW name \in DOMAIN IW4Storage
    PROVE  Row(name, IW4Storage[name])
<1>1. Row("bdFileMetaData", IW4Storage["bdFileMetaData"])
    <2>1. PICK w \in Seq(TypedCall) :
            w = <<Uint64("file_id"), Uint32("create_time"), Uint32("modified_time"),
                  Uint32("file_size"), Uint64("owner_id"), String("owner_name"),
                  Uint16("file_slot"), String("file_name"), String("url"), Uint16("category"),
                  Blob("metadata"), Uint32("summary_file_size"), Tags("tags"),
                  Uint32("num_copies_made"), Uint64("origin_id")>>
        <3>1. <<Uint64("file_id"), Uint32("create_time"), Uint32("modified_time"),
               Uint32("file_size"), Uint64("owner_id"), String("owner_name"),
               Uint16("file_slot"), String("file_name"), String("url"), Uint16("category"),
               Blob("metadata"), Uint32("summary_file_size"), Tags("tags"),
               Uint32("num_copies_made"), Uint64("origin_id")>>
               \in Seq(TypedCall)
            BY CallsAre, CallSets DEF Members
        <3> QED BY <3>1, Zenon
    <2>2. PICK g \in Seq(PlainCall) : g = <<>>
        <3>1. <<>> \in Seq(PlainCall)
            OBVIOUS
        <3> QED BY <3>1, Zenon
    <2>3. IW4Storage["bdFileMetaData"] = Record(w, g)
        BY <2>1, <2>2 DEF IW4Storage
    <2>4. "bdFileMetaData" \in OutOfStep
        BY DEF OutOfStep
    <2> QED BY <2>3, <2>4, StrayRow
<1>2. Row("bdURL", IW4Storage["bdURL"])
    <2>1. PICK calls \in Seq(PlainCall) : calls = <<String("url"), Uint16("server_type"), String("server_index"), Uint64("file_id")>>
        <3>1. <<String("url"), Uint16("server_type"), String("server_index"), Uint64("file_id")>> \in Seq(PlainCall)
            BY CallsAre DEF Members
        <3> QED BY <3>1, Zenon
    <2>2. IW4Storage["bdURL"] = Record(calls, calls)
        BY <2>1 DEF IW4Storage
    <2> QED BY <2>2, SameRow
<1>3. Row("bdStructedDataBuffer", IW4Storage["bdStructedDataBuffer"])
    <2>1. PICK calls \in Seq(PlainCall) : calls = <<Struct("structed_data_protobuffer")>>
        <3>1. <<Struct("structed_data_protobuffer")>> \in Seq(PlainCall)
            BY CallsAre DEF Members
        <3> QED BY <3>1, Zenon
    <2>2. IW4Storage["bdStructedDataBuffer"] = Record(calls, calls)
        BY <2>1 DEF IW4Storage
    <2> QED BY <2>2, SameRow
<1>4. name \in {"bdFileMetaData", "bdURL", "bdStructedDataBuffer"}
    BY DEF IW4Storage
<1> QED BY <1>1, <1>2, <1>3, <1>4, Zenon

(* Addresses: without types, and a byte of either sign ends the common one.   *)
LEMMA UntypedRow ==
    ASSUME NEW name, NEW calls \in Seq(UntypedCall)
    PROVE  Row(name, Address(calls, calls))
<1>1. PICK r : r = Address(calls, calls)
    OBVIOUS
<1>2. r.typed = FALSE /\ r.written = calls /\ r.read = calls
    BY <1>1, Zenon DEF Address
<1>3. calls \in Seq(AnyCall)
    BY CallSets, SubsetSeq
<1>4. \A i \in 1 .. Len(calls) : calls[i].kind # "tags"
    <2>1. \A i \in 1 .. Len(calls) : calls[i] \in UntypedCall
        BY ElementOfSeq
    <2> QED BY <2>1, CallSets, Zenon
<1>5. Row(name, r)
    BY <1>2, <1>3, <1>4, Zenon DEF Row, CallOf, SameCall
<1> QED BY <1>1, <1>5, Zenon

LEMMA ForeignRow ==
    ASSUME NEW name \in OutOfStep, NEW w \in Seq(UntypedCall), NEW g \in Seq(UntypedCall)
    PROVE  Row(name, Address(w, g))
<1>1. PICK r : r = Address(w, g)
    OBVIOUS
<1>2. r.typed = FALSE /\ r.written = w /\ r.read = g
    BY <1>1, Zenon DEF Address
<1>3. g \in Seq(AnyCall)
    BY CallSets, SubsetSeq
<1>4. Row(name, r)
    BY <1>2, <1>3, Zenon DEF Row, CallOf
<1> QED BY <1>1, <1>4, Zenon

LEMMA LastOfJoined ==
    ASSUME NEW S, NEW s \in Seq(S), NEW x \in S
    PROVE  /\ s \o <<x>> \in Seq(S) /\ Len(s \o <<x>>) = Len(s) + 1 /\ (s \o <<x>>)[Len(s) + 1] = x
           /\ \A i \in 1 .. Len(s) : (s \o <<x>>)[i] = s[i]
BY LenProperties

LEMMA ByteAtTheEnd ==
    ASSUME NEW name, NEW calls \in Seq(UntypedCall), NEW member \in Members
    PROVE  Row(name, Address(calls \o <<Char(member)>>, calls \o <<Ubyte(member)>>))
<1>1. PICK c \in UntypedCall : c = Char(member)
    BY CallsAre DEF Members
<1>2. PICK u \in UntypedCall : u = Ubyte(member)
    BY CallsAre DEF Members
<1>3. PICK w : w = calls \o <<c>>
    OBVIOUS
<1>4. PICK g : g = calls \o <<u>>
    OBVIOUS
<1>5. PICK r : r = Address(w, g)
    OBVIOUS
<1>6. r.typed = FALSE /\ r.written = w /\ r.read = g
    BY <1>5, Zenon DEF Address
<1>7. PICK n \in Nat : n = Len(calls)
    BY LenProperties
<1>8. w \in Seq(UntypedCall) /\ Len(w) = n + 1 /\ w[n + 1] = c /\ \A i \in 1 .. n : w[i] = calls[i]
    BY <1>3, <1>7, LastOfJoined
<1>9. g \in Seq(UntypedCall) /\ Len(g) = n + 1 /\ g[n + 1] = u /\ \A i \in 1 .. n : g[i] = calls[i]
    BY <1>4, <1>7, LastOfJoined
<1>10. g \in Seq(AnyCall)
    BY <1>9, CallSets, SubsetSeq
<1>11. SameCall(u, c, FALSE)
    <2>1. "byte" \in Fixed /\ "ubyte" \in Fixed /\ Width["ubyte"] = Width["byte"] /\ "byte" # "tags"
        BY KindIs
    <2>2. c.kind = "byte" /\ c.member = member /\ u.kind = "ubyte" /\ u.member = member
        BY <1>1, <1>2 DEF Char, Ubyte
    <2> QED BY <2>1, <2>2, Zenon DEF SameCall
<1>12. \A i \in 1 .. n + 1 : SameCall(g[i], w[i], FALSE)
    <2>1. \A i \in 1 .. n : calls[i] \in UntypedCall
        BY <1>7, ElementOfSeq
    <2>2. \A i \in 1 .. n : SameCall(calls[i], calls[i], FALSE)
        BY <2>1, CallSets, Zenon DEF SameCall
    <2>3. \A i \in 1 .. n + 1 : i \in 1 .. n \/ i = n + 1
        BY <1>7
    <2> QED BY <1>8, <1>9, <1>11, <2>2, <2>3, Zenon
<1>13. Row(name, r)
    BY <1>6, <1>8, <1>9, <1>10, <1>12, Zenon DEF Row, CallOf
<1> QED BY <1>1, <1>2, <1>3, <1>4, <1>5, <1>13, Zenon

LEMMA TwoMore ==
    ASSUME NEW S, NEW s \in Seq(S), NEW a \in Seq(S), Len(a) = 2
    PROVE  s \o a \in Seq(S) /\ Len(s \o a) = Len(s) + 2
<1>1. s \o a \in Seq(S) /\ Len(s \o a) = Len(s) + Len(a)
    BY ConcatProperties
<1> QED BY <1>1

LEMMA AddressesAre ==
    /\ \A inet \in BOOLEAN : InetAddr(inet) \in Seq(UntypedCall) /\ Addr(inet) \in Seq(UntypedCall)
    /\ FiveAddrs \in Seq(UntypedCall) /\ Len(FiveAddrs) = 10
<1>1. Raw4("c_addr") \in UntypedCall /\ Uint16("port") \in UntypedCall
    BY CallsAre DEF Members
<1>2. <<Raw4("c_addr")>> \in Seq(UntypedCall) /\ <<Uint16("port")>> \in Seq(UntypedCall)
    BY <1>1
<1>3. \A inet \in BOOLEAN : InetAddr(inet) \in Seq(UntypedCall)
    BY <1>2 DEF InetAddr
<1>4. \A inet \in BOOLEAN : Addr(inet) \in Seq(UntypedCall)
    <2>1. ASSUME NEW inet \in BOOLEAN PROVE InetAddr(inet) \o <<Uint16("port")>> \in Seq(UntypedCall)
        BY <1>2, <1>3, ConcatProperties
    <2> QED BY <2>1, Zenon DEF Addr
<1>5. PICK a \in Seq(UntypedCall) : a = Addr(TRUE)
    BY <1>4
<1>6. Len(a) = 2
    BY <1>5 DEF Addr, InetAddr
<1>7. PICK b \in Seq(UntypedCall) : b = a \o a /\ Len(b) = 4
    <2>1. a \o a \in Seq(UntypedCall) /\ Len(a \o a) = 4
        BY <1>6, TwoMore
    <2> QED BY <2>1, Zenon
<1>8. PICK c \in Seq(UntypedCall) : c = b \o a /\ Len(c) = 6
    <2>1. b \o a \in Seq(UntypedCall) /\ Len(b \o a) = 6
        BY <1>6, <1>7, TwoMore
    <2> QED BY <2>1, Zenon
<1>9. PICK d \in Seq(UntypedCall) : d = c \o a /\ Len(d) = 8
    <2>1. c \o a \in Seq(UntypedCall) /\ Len(c \o a) = 8
        BY <1>6, <1>8, TwoMore
    <2> QED BY <2>1, Zenon
<1>10. PICK e \in Seq(UntypedCall) : e = d \o a /\ Len(e) = 10
    <2>1. d \o a \in Seq(UntypedCall) /\ Len(d \o a) = 10
        BY <1>6, <1>9, TwoMore
    <2> QED BY <2>1, Zenon
<1>11. FiveAddrs = e
    BY <1>5, <1>7, <1>8, <1>9, <1>10, Zenon DEF FiveAddrs
<1> QED BY <1>3, <1>4, <1>10, <1>11

LEMMA CommonAddrsAre ==
    /\ \A n \in 0 .. 5, public \in BOOLEAN : CommonAddrWritten(n, public) \in Seq(UntypedCall)
    /\ CommonAddrRead \in Seq(UntypedCall)
<1>1. PICK e \in Seq(UntypedCall) : e = FiveAddrs /\ Len(e) = 10
    BY AddressesAre
<1>2. PICK c \in UntypedCall : c = Char("nat_type")
    BY CallsAre DEF Members
<1>3. PICK u \in UntypedCall : u = Ubyte("nat_type")
    BY CallsAre DEF Members
<1>4. ASSUME NEW public \in BOOLEAN PROVE FiveAddrs \o Addr(public) \o <<Char("nat_type")>> \in Seq(UntypedCall)
    <2>1. PICK a \in Seq(UntypedCall) : a = Addr(public)
        BY AddressesAre
    <2>2. e \o a \in Seq(UntypedCall) /\ <<c>> \in Seq(UntypedCall)
        BY <2>1, ConcatProperties
    <2>3. (e \o a) \o <<c>> \in Seq(UntypedCall)
        BY <2>2, ConcatProperties
    <2> QED BY <1>1, <1>2, <2>1, <2>3, Zenon
<1>5. ASSUME NEW n \in 0 .. 4 PROVE SubSeq(FiveAddrs, 1, 2 * n) \o Addr(FALSE) \in Seq(UntypedCall)
    <2>1. PICK a \in Seq(UntypedCall) : a = Addr(FALSE)
        BY AddressesAre
    <2>2. PICK l \in Seq(UntypedCall) : l = SubSeq(e, 1, 2 * n)
        <3>1. SubSeq(e, 1, 2 * n) \in Seq(UntypedCall)
            <4>1. \A i \in 1 .. 2 * n : e[i] \in UntypedCall
                <5>1. \A i \in 1 .. Len(e) : e[i] \in UntypedCall
                    BY ElementOfSeq
                <5>2. \A i \in 1 .. 2 * n : i \in 1 .. Len(e)
                    BY <1>1
                <5> QED BY <5>1, <5>2, Zenon
            <4> QED BY <4>1, SubSeqProperties
        <3> QED BY <3>1, Zenon
    <2>3. l \o a \in Seq(UntypedCall)
        BY ConcatProperties
    <2> QED BY <1>1, <2>1, <2>2, <2>3, Zenon
<1>6. ASSUME NEW n \in 0 .. 5, NEW public \in BOOLEAN
      PROVE  CommonAddrWritten(n, public) \in Seq(UntypedCall)
    <2>1. CASE n < 5
        <3>1. n \in 0 .. 4
            BY <2>1
        <3> QED BY <1>5, <2>1, <3>1, Zenon DEF CommonAddrWritten
    <2>2. CASE ~(n < 5)
        BY <1>4, <2>2, Zenon DEF CommonAddrWritten
    <2> QED BY <2>1, <2>2
<1>7. CommonAddrRead \in Seq(UntypedCall)
    <2>1. PICK a \in Seq(UntypedCall) : a = Addr(TRUE)
        BY AddressesAre
    <2>2. e \o a \in Seq(UntypedCall) /\ <<u>> \in Seq(UntypedCall)
        BY ConcatProperties
    <2>3. (e \o a) \o <<u>> \in Seq(UntypedCall)
        BY <2>2, ConcatProperties
    <2> QED BY <1>1, <1>3, <2>1, <2>3, Zenon DEF CommonAddrRead
<1> QED BY <1>6, <1>7

LEMMA AddressRows ==
    ASSUME NEW name \in DOMAIN AddressRecords
    PROVE  Row(name, AddressRecords[name])
<1>1. Row("bdInetAddr", Address(InetAddr(TRUE), InetAddr(TRUE))) /\ Row("bdAddr", Address(Addr(TRUE), Addr(TRUE)))
    BY AddressesAre, UntypedRow
<1>2. Row("bdCommonAddr", Address(CommonAddrWritten(5, TRUE), CommonAddrRead))
    <2>1. PICK six \in Seq(UntypedCall) : six = FiveAddrs \o Addr(TRUE)
        BY AddressesAre, ConcatProperties
    <2>2. ~(5 < 5)
        OBVIOUS
    <2>3. CommonAddrWritten(5, TRUE) = six \o <<Char("nat_type")>>
        BY <2>1, <2>2, Zenon DEF CommonAddrWritten
    <2>4. CommonAddrRead = six \o <<Ubyte("nat_type")>>
        BY <2>1, Zenon DEF CommonAddrRead
    <2>5. Row("bdCommonAddr", Address(six \o <<Char("nat_type")>>, six \o <<Ubyte("nat_type")>>))
        <3>1. "nat_type" \in Members
            BY DEF Members
        <3> QED BY <3>1, ByteAtTheEnd
    <2> QED BY <2>3, <2>4, <2>5, Zenon
<1>3. name \in {"bdInetAddr", "bdAddr", "bdCommonAddr"}
    BY DEF AddressRecords
<1>4. /\ AddressRecords["bdInetAddr"] = Address(InetAddr(TRUE), InetAddr(TRUE))
      /\ AddressRecords["bdAddr"] = Address(Addr(TRUE), Addr(TRUE))
      /\ AddressRecords["bdCommonAddr"] = Address(CommonAddrWritten(5, TRUE), CommonAddrRead)
    BY DEF AddressRecords
<1> QED BY <1>1, <1>2, <1>3, <1>4, Zenon

LEMMA ForeignRows ==
    ASSUME NEW name \in DOMAIN ForeignRecords
    PROVE  Row(name, ForeignRecords[name])
<1>1. name \in OutOfStep
    BY Zenon DEF OutOfStep
<1>2. PICK w \in Seq(UntypedCall), g \in Seq(UntypedCall) : ForeignRecords[name] = Address(w, g)
    <2>1. /\ 0 \in 0 .. 5 /\ 1 \in 0 .. 5 /\ 2 \in 0 .. 5 /\ 3 \in 0 .. 5 /\ 4 \in 0 .. 5 /\ 5 \in 0 .. 5
          /\ TRUE \in BOOLEAN /\ FALSE \in BOOLEAN
        OBVIOUS
    <2>2. /\ ForeignRecords["bdInetAddrForeign"] = Address(InetAddr(FALSE), InetAddr(TRUE))
          /\ ForeignRecords["bdAddrForeign"] = Address(Addr(FALSE), Addr(TRUE))
          /\ ForeignRecords["bdCommonAddrLocal1"] = Address(CommonAddrWritten(0, TRUE), CommonAddrRead)
          /\ ForeignRecords["bdCommonAddrLocal2"] = Address(CommonAddrWritten(1, TRUE), CommonAddrRead)
        BY DEF ForeignRecords
    <2>3. /\ ForeignRecords["bdCommonAddrLocal3"] = Address(CommonAddrWritten(2, TRUE), CommonAddrRead)
          /\ ForeignRecords["bdCommonAddrLocal4"] = Address(CommonAddrWritten(3, TRUE), CommonAddrRead)
          /\ ForeignRecords["bdCommonAddrLocal5"] = Address(CommonAddrWritten(4, TRUE), CommonAddrRead)
          /\ ForeignRecords["bdCommonAddrPublic"] = Address(CommonAddrWritten(5, FALSE), CommonAddrRead)
        BY DEF ForeignRecords
    <2>4. name \in {"bdInetAddrForeign", "bdAddrForeign", "bdCommonAddrLocal1", "bdCommonAddrLocal2",
                    "bdCommonAddrLocal3", "bdCommonAddrLocal4", "bdCommonAddrLocal5",
                    "bdCommonAddrPublic"}
        BY DEF ForeignRecords
    <2> QED BY <2>1, <2>2, <2>3, <2>4, AddressesAre, CommonAddrsAre, Zenon
<1> QED BY <1>1, <1>2, ForeignRow, Zenon

LEMMA RecordIs ==
    ASSUME NEW name \in DOMAIN Records
    PROVE  Row(name, Records[name])
<1>1. ASSUME NEW t \in Tables, name \in DOMAIN t PROVE Row(name, t[name])
    BY <1>1, StorageRows, FileRows, DMLRows, StatRows, MatchRows, AddressRows, ForeignRows, IW4ResultRows,
       IW4StorageRows, Zenon DEF Tables
<1>2. name \in UNION {DOMAIN t : t \in Tables}
    BY Zenon DEF Records
<1>3. PICK t \in Tables : name \in DOMAIN t
    BY <1>2, Zenon
<1>4. PICK u : u = CHOOSE x \in Tables : name \in DOMAIN x
    OBVIOUS
<1>5. u \in Tables /\ name \in DOMAIN u
    BY <1>3, <1>4, Zenon
<1>6. Records[name] = u[name]
    BY <1>2, <1>4, Zenon DEF Records
<1> QED BY <1>1, <1>5, <1>6, Zenon
==============================================================================
