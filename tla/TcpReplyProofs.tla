--------------------------- MODULE TcpReplyProofs ----------------------------
(* Theorems about TcpServer, for any sockets, any number of requests, answers *)
(* of any length and buffers of any size; and about ReplyFormat, for answers  *)
(* of any number of records with any values.  An answer is first written and  *)
(* then queued as bytes: the two components share a module of proofs.         *)
EXTENDS TcpServer, ReplyFieldProofs

------------------------------------------------------------------------------
(* TcpServer: what its threads keep. *)

(* From its look on a socket that nobody has come before can rely on the    *)
(* bytes it saw; so can one that select has reported.                      *)
LooksHold ==
  /\ \A s \in Sockets : call[s] \in {"recv", "found"} /\ s \notin raced => outQueue # <<>>
  /\ readable # {} => outQueue # <<>>

IInv == TypeOK /\ LooksHold /\ ended = {}

------------------------------------------------------------------------------
(* Sequences. *)

LEMMA ReplyIsBytes ==
  ASSUME NEW r \in Requests
  PROVE  Reply(r) \in Seq(Bytes)
<1>1. ReplyLen[r] \in Nat
  BY TcpAssumption DEF Requests
<1>2. ASSUME NEW i \in 1..ReplyLen[r] PROVE <<r, i>> \in Bytes
  <2>1. Reply(r)[i] = <<r, i>> /\ i \in DOMAIN Reply(r)
    BY <1>2 DEF Reply
  <2>2. <<r, i>> \in ToSet(Reply(r))
    BY <2>1 DEF ToSet
  <2> QED BY <2>2 DEF Bytes
<1> QED BY <1>1, <1>2 DEF Reply

(* What a take leaves in the queue: with a byte in it, a buffer of any     *)
(* length takes one at least.                                              *)
LEMMA TakeLeaves ==
  ASSUME NEW S, NEW q \in Seq(S), NEW len \in Nat \ {0}, NEW n,
         n = IF len < Len(q) THEN len ELSE Len(q)
  PROVE  /\ n \in 0..Len(q)
         /\ SubSeq(q, n + 1, Len(q)) \in Seq(S)
         /\ n = 0 => q = <<>> /\ SubSeq(q, n + 1, Len(q)) = q
<1>1. n \in 0..Len(q)
  OBVIOUS
<1>2. SubSeq(q, n + 1, Len(q)) \in Seq(S)
  BY <1>1
<1>3. n = 0 => q = <<>>
  OBVIOUS
<1>4. n = 0 => SubSeq(q, n + 1, Len(q)) = q
  <2> SUFFICES ASSUME n = 0 PROVE SubSeq(q, n + 1, Len(q)) = q
    OBVIOUS
  <2>1. n + 1 = 1 /\ Len(q) = 0 /\ q = <<>>
    BY <1>3
  <2> QED BY <2>1
<1> QED BY ONLY <1>1, <1>2, <1>3, <1>4

(* The packet in hand goes on in front of the others.                      *)
LEMMA InHand ==
  ASSUME NEW S, NEW q \in Seq(S), NEW x \in S
  PROVE  /\ <<>> \o q = q
         /\ <<x>> \o q \in Seq(S) /\ <<x>> \o q # <<>>
         /\ Head(<<x>> \o q) = x /\ Tail(<<x>> \o q) = q
         /\ q # <<>> => Head(q) \in S /\ Tail(q) \in Seq(S) /\ <<Head(q)>> \o Tail(q) = q
         /\ \A y \in S : Append(<<x>> \o q, y) = <<x>> \o Append(q, y)
<1>1. <<>> \o q = q /\ <<x>> \o q \in Seq(S) /\ <<x>> \o q # <<>>
  OBVIOUS
<1>2. Head(<<x>> \o q) = x
  OBVIOUS
<1>3. Tail(<<x>> \o q) = q
  OBVIOUS
<1>4. q # <<>> => Head(q) \in S /\ Tail(q) \in Seq(S) /\ <<Head(q)>> \o Tail(q) = q
  OBVIOUS
<1>5. ASSUME NEW y \in S PROVE Append(<<x>> \o q, y) = <<x>> \o Append(q, y)
  <2>1. <<x>> \in Seq(S) /\ <<y>> \in Seq(S)
    OBVIOUS
  <2>2. Append(q, y) = q \o <<y>> /\ Append(<<x>> \o q, y) = (<<x>> \o q) \o <<y>>
    BY <1>1, <2>1, AppendIsConcat
  <2>3. (<<x>> \o q) \o <<y>> = <<x>> \o (q \o <<y>>)
    BY <2>1, ConcatAssociative
  <2> QED BY ONLY <2>2, <2>3
<1> QED BY <1>1, <1>2, <1>3, <1>4, <1>5

------------------------------------------------------------------------------
(* The steps of a socket and of the service thread, each against IInv. *)

LEMMA GameInv ==
  ASSUME NEW s \in Sockets, IInv, Game(s)
  PROVE  IInv'
<1> USE TcpAssumption DEF IInv, LooksHold, TypeOK, queues, thread, calls, unload
<1>1. CASE Connect(s)
  BY <1>1 DEF Connect
<1>2. CASE Close(s)
  BY <1>2 DEF Close
<1>3. CASE Send(s)
  <2>1. sentCount + 1 \in Requests
    BY <1>3 DEF Send, Requests
  <2> QED BY <1>3, <2>1 DEF Send
<1>4. CASE SelectLooks(s)
  BY <1>4 DEF SelectLooks
<1>5. CASE SelectReports(s)
  <2>1. readable' \subseteq Sockets /\ (readable' # {} => outQueue # <<>>)
    BY <1>5 DEF SelectReports
  <2>2. call' = [call EXCEPT ![s] = "out"] /\ raced' = raced \ {s}
    BY <1>5 DEF SelectReports
  <2>3. ASSUME NEW t \in Sockets, call'[t] \in {"recv", "found"}, t \notin raced'
        PROVE  outQueue # <<>>
    <3>1. t # s /\ call'[t] = call[t] /\ t \notin raced
      BY <2>2, <2>3
    <3> QED BY <2>3, <3>1
  <2> QED BY <1>5, <2>1, <2>2, <2>3 DEF SelectReports
<1>6. CASE RecvLooks(s)
  BY <1>6 DEF RecvLooks
<1>7. CASE RecvTakes(s)
  <2> USE <1>7 DEF RecvTakes
  <2>1. PICK len \in BufferSizes :
          LET n == IF len < Len(outQueue) THEN len ELSE Len(outQueue) IN
          /\ outQueue' = SubSeq(outQueue, n + 1, Len(outQueue))
          /\ ended' = IF n = 0 /\ s \notin raced THEN ended \cup {s} ELSE ended
    OBVIOUS
  <2>2. len \in Nat \ {0}
    OBVIOUS
  <2>3. outQueue' \in Seq(Bytes)
    BY <2>1, <2>2, TakeLeaves
  <2>4. ended' = {}
    BY <2>1, <2>2, TakeLeaves
  <2>5. call' \in [Sockets -> {"out", "recv", "found", "nothing"}]
    OBVIOUS
  <2>6. \A t \in Sockets : call'[t] \in {"recv", "found"} => t \in raced'
    OBVIOUS
  <2> QED BY <2>3, <2>4, <2>5, <2>6
<1> QED BY <1>1, <1>2, <1>3, <1>4, <1>5, <1>6, <1>7 DEF Game

LEMMA ServerInv ==
  ASSUME IInv, ServerMain
  PROVE  IInv'
<1> USE TcpAssumption DEF IInv, LooksHold, TypeOK, queues, thread, calls, unload
<1>1. CASE ServerStarts \/ ServerWakes \/ FrameBegins
  BY <1>1 DEF ServerStarts, ServerWakes, FrameBegins
<1>2. CASE FramePops
  <2> USE <1>2 DEF FramePops
  <2>1. CASE inQueue = <<>>
    BY <2>1 DEF Requests
  <2>2. CASE inQueue # <<>>
    <3>1. Head(inQueue) \in Requests /\ Tail(inQueue) \in Seq(Requests) /\ Head(inQueue) # 0
      BY <2>2 DEF Requests
    <3> QED BY <2>2, <3>1
  <2> QED BY <2>1, <2>2
<1>3. CASE FrameHandles
  <2> USE <1>3 DEF FrameHandles
  <2>1. packet \in Requests
    OBVIOUS
  <2>2. Reply(packet) \in Seq(Bytes)
    BY <2>1, ReplyIsBytes
  <2>3. outQueue' \in Seq(Bytes) /\ (outQueue # <<>> => outQueue' # <<>>)
    BY <2>2
  <2> QED BY <2>3
<1> QED BY <1>1, <1>2, <1>3 DEF ServerMain

LEMMA InvHolds == Spec => []IInv
<1>1. Init => IInv
  <2> SUFFICES ASSUME Init PROVE IInv
    OBVIOUS
  <2>1. sentCount \in 0..MaxRequests /\ inQueue \in Seq(Requests) /\ outQueue \in Seq(Bytes)
    BY TcpAssumption DEF Init
  <2>2. call \in [Sockets -> {"out", "recv", "found", "nothing"}] /\ packet \notin Requests
    BY DEF Init, Requests
  <2>3. LooksHold
    BY DEF Init, LooksHold
  <2> QED BY <2>1, <2>2, <2>3 DEF Init, IInv, TypeOK
<1>2. IInv /\ [Next]_vars => IInv'
  <2>1. IInv /\ UNCHANGED vars => IInv'
    BY DEF IInv, TypeOK, LooksHold, vars, queues, thread, calls, unload
  <2>2. IInv /\ (PreDestroy \/ Unhook) => IInv'
    BY DEF PreDestroy, Unhook, IInv, TypeOK, LooksHold, queues, thread, calls
  <2> QED BY <2>1, <2>2, GameInv, ServerInv DEF Next
<1> QED BY <1>1, <1>2, PTL DEF Spec

(* recv returns 0, which tells the game that the peer has closed, only to a *)
(* socket that another socket of the service came before                   *)
(* (component/demonware.cpp:237-244).                                      *)
THEOREM OnlyARaceEnds == Spec => []NoFalseEnd
<1>1. IInv => NoFalseEnd
  BY DEF IInv, NoFalseEnd
<1> QED BY <1>1, InvHolds, PTL

(* What select reports readable is readable, and stays so until somebody   *)
(* reads, unless another socket of the service has read between the look   *)
(* of that select and now (component/demonware.cpp:281-341).               *)
THEOREM SelectIsRight == Spec => []ReadableStaysReadable
<1>1. IInv => ReadableStaysReadable
  BY DEF IInv, LooksHold, ReadableStaysReadable
<1> QED BY <1>1, InvHolds, PTL

------------------------------------------------------------------------------
(* The refinement. *)

Asked == (IF packet = 0 THEN <<>> ELSE <<packet>>) \o inQueue

LEMMA AskedInHand ==
  ASSUME TypeOK
  PROVE  /\ Asked \in Seq(Requests)
         /\ packet = 0 => Asked = inQueue
         /\ packet # 0 => /\ Asked # <<>>
                          /\ Head(Asked) = packet /\ Tail(Asked) = inQueue
                          /\ \A r \in Requests : Append(Asked, r) = <<packet>> \o Append(inQueue, r)
<1>1. inQueue \in Seq(Requests)
  BY DEF TypeOK
<1>2. CASE packet = 0
  BY <1>1, <1>2 DEF Asked
<1>3. CASE packet # 0
  <2>1. packet \in Requests
    BY <1>3 DEF TypeOK
  <2> QED BY <1>1, <1>3, <2>1, InHand DEF Asked
<1> QED BY <1>2, <1>3

LEMMA GameRefines ==
  ASSUME NEW s \in Sockets, IInv, Game(s)
  PROVE  [Promise!Next]_(Promise!vars)
<1> USE TcpAssumption DEF IInv
<1>1. CASE Connect(s) \/ Close(s) \/ SelectLooks(s) \/ SelectReports(s) \/ RecvLooks(s)
  BY <1>1 DEF Connect, Close, SelectLooks, SelectReports, RecvLooks, queues, thread, Promise!vars
<1>2. CASE Send(s)
  <2> DEFINE r == sentCount + 1
  <2>1. r \in Requests
    BY <1>2 DEF Send, TypeOK, Requests
  <2>2. packet' = packet /\ inQueue' = Append(inQueue, r) /\ outQueue' = outQueue
    BY <1>2 DEF Send, thread
  <2> HIDE DEF r
  <2>3. inQueue \in Seq(Requests) /\ Append(inQueue, r) \in Seq(Requests)
    BY <2>1 DEF TypeOK
  <2>4. Asked' = Append(Asked, r)
    <3>1. CASE packet = 0
      BY <2>1, <2>2, <2>3, <3>1, AskedInHand DEF Asked
    <3>2. CASE packet # 0
      <4>1. Append(Asked, r) = <<packet>> \o Append(inQueue, r)
        BY <2>1, <3>2, AskedInHand
      <4> QED BY <2>2, <3>2, <4>1 DEF Asked
    <3> QED BY <3>1, <3>2
  <2>5. Promise!Ask(r)
    BY <2>2, <2>4 DEF Promise!Ask, Asked
  <2> QED BY <2>1, <2>5 DEF Promise!Next
<1>3. CASE RecvTakes(s)
  <2>1. PICK len \in BufferSizes :
          outQueue' = SubSeq(outQueue, (IF len < Len(outQueue) THEN len ELSE Len(outQueue)) + 1,
                             Len(outQueue))
    BY <1>3 DEF RecvTakes
  <2>2. UNCHANGED <<packet, inQueue>>
    BY <1>3 DEF RecvTakes, thread
  <2> DEFINE n == IF len < Len(outQueue) THEN len ELSE Len(outQueue)
  <2>3. len \in Nat \ {0} /\ outQueue \in Seq(Bytes)
    BY DEF TypeOK
  <2>4. n \in 0..Len(outQueue) /\ (n = 0 => outQueue' = outQueue)
    BY <2>1, <2>3, TakeLeaves
  <2>5. outQueue' = SubSeq(outQueue, n + 1, Len(outQueue))
    BY <2>1
  <2> HIDE DEF n
  <2>6. CASE n = 0
    BY <2>2, <2>4, <2>6 DEF Promise!vars
  <2>7. CASE n # 0
    <3>1. n \in 1..Len(outQueue)
      BY <2>3, <2>4, <2>7
    <3>2. Promise!Read
      BY <2>2, <2>5, <3>1 DEF Promise!Read
    <3> QED BY <3>2 DEF Promise!Next
  <2> QED BY <2>6, <2>7
<1> QED BY <1>1, <1>2, <1>3 DEF Game

LEMMA ServerRefines ==
  ASSUME IInv, IInv', ServerMain
  PROVE  [Promise!Next]_(Promise!vars)
<1> USE DEF IInv
<1>1. CASE ServerStarts \/ ServerWakes \/ FrameBegins
  BY <1>1 DEF ServerStarts, ServerWakes, FrameBegins, queues, Promise!vars
<1>2. CASE FramePops
  <2>1. packet = 0
    BY <1>2 DEF FramePops, TypeOK
  <2>2. Asked' = Asked
    <3>1. CASE inQueue = <<>>
      BY <1>2, <3>1 DEF FramePops, Asked
    <3>2. CASE inQueue # <<>>
      <4>1. inQueue \in Seq(Requests) /\ Head(inQueue) \in Requests /\ Head(inQueue) # 0
        <5>1. inQueue \in Seq(Requests) /\ Head(inQueue) \in Requests
          BY <3>2 DEF TypeOK
        <5> QED BY <5>1 DEF Requests
      <4>2. Asked' = <<Head(inQueue)>> \o Tail(inQueue)
        BY <1>2, <3>2, <4>1 DEF FramePops, Asked
      <4>3. <<Head(inQueue)>> \o Tail(inQueue) = inQueue
        BY <3>2, <4>1, InHand
      <4> QED BY <2>1, <4>2, <4>3, AskedInHand
    <3> QED BY <3>1, <3>2
  <2>3. outQueue' = outQueue
    BY <1>2 DEF FramePops
  <2> QED BY <2>2, <2>3 DEF Promise!vars, Asked
<1>3. CASE FrameHandles
  <2>1. packet # 0 /\ packet' = 0 /\ inQueue' = inQueue
    BY <1>3 DEF FrameHandles, TypeOK
  <2>2. outQueue' = outQueue \o Reply(packet)
    BY <1>3 DEF FrameHandles
  <2>3. Asked # <<>> /\ Head(Asked) = packet /\ Asked' = Tail(Asked)
    <3>1. Asked' = inQueue
      BY <2>1 DEF Asked, TypeOK
    <3> QED BY <2>1, <3>1, AskedInHand
  <2>4. Promise!Answer
    BY <2>2, <2>3 DEF Promise!Answer, Asked
  <2> QED BY <2>4 DEF Promise!Next
<1> QED BY <1>1, <1>2, <1>3 DEF ServerMain

(* Requests are answered in the order they were sent and the bytes of the  *)
(* answers are read in that order, each once, by whichever sockets read:   *)
(* the two queues and the packet in hand implement ReplyStream             *)
(* (servers/tcp_server.cpp:5-66).                                          *)
THEOREM ServiceKeepsPromise == Spec => KeepsPromise
<1>1. Init => Promise!Init
  BY DEF Init, Promise!Init
<1>2. IInv /\ IInv' /\ [Next]_vars => [Promise!Next]_(Promise!vars)
  <2>1. UNCHANGED vars => UNCHANGED Promise!vars
    BY DEF vars, queues, thread, Promise!vars
  <2>2. PreDestroy \/ Unhook => UNCHANGED Promise!vars
    BY DEF PreDestroy, Unhook, queues, thread, Promise!vars
  <2> QED BY <2>1, <2>2, GameRefines, ServerRefines DEF Next
<1> QED BY <1>1, <1>2, InvHolds, PTL DEF Spec, KeepsPromise, Promise!Spec

------------------------------------------------------------------------------
(* ReplyFormat: the plan of the client, and what every state of an answer keeps. *)

(* The fields of an answer, and the reads that the client plans for them.     *)

FieldType == [kind : Kinds, member : Members, typed : BOOLEAN, val : Seq(Nat)]
Entry(item, typed) == [kind |-> item.kind, member |-> item.member, typed |-> typed]
ReadType == [kind : Kinds, member : Members, typed : BOOLEAN]
Sound(s) == s \in Seq(FieldType) /\ \A i \in 1 .. Len(s) : WellFormed(s[i])
Matches(p, s) == Len(p) = Len(s) /\ \A i \in 1 .. Len(s) : Agrees(p[i], s[i])

LEMMA TagsAreItems ==
    ASSUME NEW n \in Nat, n % 16 = 0
    PROVE  n = (n \div 8) * 8 /\ (n \div 8) % 2 = 0
OBVIOUS

LEMMA KindFits ==
    ASSUME NEW typed \in BOOLEAN, NEW kind \in KindsOf(typed),
           NEW val, IsOfKind(val, kind), NEW f, f.kind = kind, f.typed = typed, f.val = val
    PROVE  WellFormed(f)
<1>1. val \in Seq(Nat) /\ Len(val) \in Nat
    <2>1. val \in Seq(Octet) /\ Octet \subseteq Nat
        BY DEF IsOfKind, Octet
    <2>2. val \in Seq(Nat)
        BY <2>1, SubsetSeq, Zenon
    <2> QED BY <2>2
<1>2. IsField(f)
    <2>1. kind \in Fixed \cup {"string", "blob", "struct", "tags", "raw4"}
        BY Zenon DEF KindsOf, TypedKinds, UntypedKinds
    <2> QED BY <1>1, <2>1, Zenon DEF IsField
<1>3. CASE kind \in Fixed
    BY <1>2, <1>3, Zenon DEF WellFormed, NumberField, IsOfKind
<1>4. CASE kind = "raw4"
    <2>1. kind \notin TypedKinds
        BY <1>4 DEF TypedKinds, Fixed, Width
    <2>2. ~typed
        BY <2>1, Zenon DEF KindsOf
    <2> QED BY <1>2, <1>4, <2>2, Zenon DEF WellFormed, RawField, IsOfKind
<1>5. CASE kind \in {"string", "blob", "struct", "tags"}
    <2>1. kind \notin UntypedKinds
        BY <1>5 DEF UntypedKinds, Fixed, Width
    <2>2. typed
        BY <2>1, Zenon DEF KindsOf
    <2>3. CASE kind = "string"
        <3>1. \A i \in 1 .. Len(val) : val[i] # 0
            BY <1>1, <2>3 DEF IsOfKind
        <3> QED BY <1>2, <2>2, <2>3, <3>1, Zenon DEF WellFormed, StringField
    <2>4. CASE kind \in {"blob", "struct"}
        BY <1>2, <2>2, <2>4, Zenon DEF WellFormed, SizedField
    <2>5. CASE kind = "tags"
        <3>1. Len(val) % 16 = 0
            BY <2>5, Zenon DEF IsOfKind
        <3>2. HasItems(val, Len(val) \div 8)
            BY <1>1, <3>1, TagsAreItems, Zenon DEF HasItems
        <3> QED BY <1>2, <2>2, <2>5, <3>2, Zenon DEF WellFormed, TagsField
    <2> QED BY <1>5, <2>3, <2>4, <2>5, Zenon
<1> QED BY <1>3, <1>4, <1>5, Zenon DEF KindsOf, TypedKinds, UntypedKinds

LEMMA FieldSound ==
    ASSUME NEW typed \in BOOLEAN, NEW item \in CallOf(typed), NEW val, IsOfKind(val, item.kind)
    PROVE  WellFormed(Field(item, typed, val)) /\ Field(item, typed, val) \in FieldType
<1>1. PICK f : f = Field(item, typed, val)
    OBVIOUS
<1>2. f.kind = item.kind /\ f.member = item.member /\ f.typed = typed /\ f.val = val
    BY <1>1, Zenon DEF Field
<1>3. item.kind \in KindsOf(typed) /\ item.member \in Members
    <2>1. CASE typed
        BY <2>1 DEF CallOf, KindsOf, TypedCall
    <2>2. CASE ~typed
        BY <2>2 DEF CallOf, KindsOf, UntypedCall
    <2> QED BY <2>1, <2>2
<1>4. WellFormed(f)
    BY <1>2, <1>3, KindFits, Zenon
<1>5. f \in FieldType
    <2>1. f.kind \in Kinds /\ f.typed \in BOOLEAN /\ f.val \in Seq(Nat)
        BY <1>4, Zenon DEF WellFormed, IsField, Kinds
    <2>2. PICK k \in Kinds : k = item.kind
        BY <1>2, <2>1, Zenon
    <2>3. PICK m \in Members : m = item.member
        BY <1>3, Zenon
    <2>4. PICK v \in Seq(Nat) : v = val
        BY <1>2, <2>1, Zenon
    <2>5. f = [kind |-> k, member |-> m, typed |-> typed, val |-> v]
        BY <1>1, <2>2, <2>3, <2>4, Zenon DEF Field
    <2> QED BY <2>5 DEF FieldType
<1> QED BY <1>1, <1>4, <1>5, Zenon

(* The entry of a read agrees with a field of the same call.                  *)
LEMMA ReadAgrees ==
    ASSUME NEW typed \in BOOLEAN, NEW g, NEW item, SameCall(g, item, typed), NEW val
    PROVE  Agrees(Entry(g, typed), Field(item, typed, val))
<1>1. PICK p : p = Entry(g, typed)
    OBVIOUS
<1>2. PICK f : f = Field(item, typed, val)
    OBVIOUS
<1>3. p.kind = g.kind /\ p.member = g.member /\ p.typed = typed
    BY <1>1, Zenon DEF Entry
<1>4. f.kind = item.kind /\ f.member = item.member /\ f.typed = typed
    BY <1>2, Zenon DEF Field
<1>5. Agrees(p, f)
    BY <1>3, <1>4 DEF Agrees, SameCall
<1> QED BY <1>1, <1>2, <1>5, Zenon

LEMMA ReadingIs ==
    ASSUME NEW items \in Seq(AnyCall), NEW typed \in BOOLEAN
    PROVE  /\ Reading(items, typed) \in Seq(ReadType) /\ Len(Reading(items, typed)) = Len(items)
           /\ \A i \in 1 .. Len(items) : Reading(items, typed)[i] = Entry(items[i], typed)
<1>1. DOMAIN items = 1 .. Len(items) /\ Len(items) \in Nat
    BY LenProperties
<1>2. Reading(items, typed) = [i \in 1 .. Len(items) |-> Entry(items[i], typed)]
    BY <1>1, Zenon DEF Reading, Entry
<1>3. \A i \in 1 .. Len(items) : Entry(items[i], typed) \in ReadType
    <2>1. \A i \in 1 .. Len(items) : items[i] \in AnyCall
        BY ElementOfSeq
    <2>2. \A c \in AnyCall : Entry(c, typed) \in ReadType
        BY DEF AnyCall, ReadType, Entry
    <2> QED BY <2>1, <2>2, Zenon
<1> QED BY <1>1, <1>2, <1>3, IsASeq

LEMMA RecordFieldsMatch ==
    ASSUME NEW name \in DOMAIN Records, NEW v \in Variants
    PROVE  /\ Sound(RecordFields(name, v)) /\ RecordReads(name) \in Seq(ReadType)
           /\ name \notin OutOfStep => Matches(RecordReads(name), RecordFields(name, v))
<1>1. PICK r : r = Records[name]
    OBVIOUS
<1>2. Row(name, r)
    BY <1>1, RecordIs, Zenon
<1>3. PICK C : C = CallOf(r.typed)
    OBVIOUS
<1>4. r.typed \in BOOLEAN /\ r.written \in Seq(C) /\ r.read \in Seq(AnyCall)
    BY <1>2, <1>3, Zenon DEF Row
<1>5. PICK n \in Nat : n = Len(r.written)
    BY <1>4, LenProperties
<1>6. DOMAIN r.written = 1 .. n /\ \A i \in 1 .. n : r.written[i] \in C
    BY <1>4, <1>5
<1>7. PICK s : s = RecordFields(name, v)
    OBVIOUS
<1>8. s = [i \in 1 .. n |-> Field(r.written[i], r.typed, Sample(r.written[i].kind, i, v))]
    BY <1>1, <1>6, <1>7, Zenon DEF RecordFields
<1>9. \A i \in 1 .. n : s[i] = Field(r.written[i], r.typed, Sample(r.written[i].kind, i, v))
    BY <1>8, Zenon
<1>10. \A i \in 1 .. n : WellFormed(s[i]) /\ s[i] \in FieldType
    <2>1. \A i \in 1 .. n : IsOfKind(Sample(r.written[i].kind, i, v), r.written[i].kind)
        BY <1>1, <1>6, SampleAssumption, Zenon
    <2>2. ASSUME NEW i \in 1 .. n
          PROVE  /\ WellFormed(Field(r.written[i], r.typed, Sample(r.written[i].kind, i, v)))
                 /\ Field(r.written[i], r.typed, Sample(r.written[i].kind, i, v)) \in FieldType
        <3>1. PICK item \in CallOf(r.typed) : item = r.written[i]
            BY <1>3, <1>6, Zenon
        <3>2. PICK val : val = Sample(item.kind, i, v)
            OBVIOUS
        <3>3. IsOfKind(val, item.kind)
            BY <2>1, <3>1, <3>2, Zenon
        <3>4. WellFormed(Field(item, r.typed, val)) /\ Field(item, r.typed, val) \in FieldType
            BY <1>4, <3>3, FieldSound
        <3> QED BY <3>1, <3>2, <3>4, Zenon
    <2> QED BY <1>9, <2>2, Zenon
<1>11. s \in Seq(FieldType) /\ Len(s) = n
    BY <1>8, <1>10, IsASeq
<1>12. Sound(s)
    BY <1>10, <1>11, Zenon DEF Sound
<1>13. PICK p : p = Reading(r.read, r.typed)
    OBVIOUS
<1>14. /\ p \in Seq(ReadType) /\ Len(p) = Len(r.read)
       /\ \A i \in 1 .. Len(r.read) : p[i] = Entry(r.read[i], r.typed)
    BY <1>4, <1>13, ReadingIs
<1>15. ASSUME name \notin OutOfStep PROVE Matches(p, s)
    <2>1. Len(r.read) = n /\ \A i \in 1 .. n : SameCall(r.read[i], r.written[i], r.typed)
        BY <1>2, <1>5, <1>15, Zenon DEF Row
    <2>2. \A i \in 1 .. n : Agrees(p[i], s[i])
        <3>1. ASSUME NEW i \in 1 .. n
              PROVE  Agrees(Entry(r.read[i], r.typed),
                            Field(r.written[i], r.typed, Sample(r.written[i].kind, i, v)))
            BY <1>4, <2>1, ReadAgrees
        <3> QED BY <1>9, <1>14, <2>1, <3>1, Zenon
    <2> QED BY <1>11, <1>14, <2>1, <2>2, Zenon DEF Matches
<1> QED BY <1>1, <1>7, <1>12, <1>13, <1>14, <1>15, Zenon DEF RecordReads

LEMMA SoundJoined ==
    ASSUME NEW s, Sound(s), NEW t, Sound(t)
    PROVE  /\ Sound(s \o t) /\ Len(s \o t) = Len(s) + Len(t)
           /\ \A i \in 1 .. Len(s) : (s \o t)[i] = s[i]
           /\ \A i \in 1 .. Len(t) : (s \o t)[Len(s) + i] = t[i]
<1>1. s \in Seq(FieldType) /\ t \in Seq(FieldType)
    BY Zenon DEF Sound
<1>2. PICK n \in Nat : n = Len(s)
    BY <1>1, LenProperties
<1>3. PICK m \in Nat : m = Len(t)
    BY <1>1, LenProperties
<1>4. PICK u : u = s \o t
    OBVIOUS
<1>5. /\ u \in Seq(FieldType) /\ Len(u) = n + m /\ \A i \in 1 .. n : u[i] = s[i]
      /\ \A i \in 1 .. m : u[n + i] = t[i]
    BY <1>1, <1>2, <1>3, <1>4, ConcatProperties
<1>6. \A i \in 1 .. n : WellFormed(u[i])
    BY <1>2, <1>5, Zenon DEF Sound
<1>7. \A i \in 1 .. m : WellFormed(u[n + i])
    BY <1>3, <1>5, Zenon DEF Sound
<1>8. \A i \in 1 .. n + m : WellFormed(u[i])
    <2>1. ASSUME NEW i \in 1 .. n + m, i \notin 1 .. n PROVE i - n \in 1 .. m /\ i = n + (i - n)
        BY <2>1
    <2>2. ASSUME NEW i \in 1 .. n + m, i \notin 1 .. n PROVE WellFormed(u[i])
        BY <1>7, <2>1, <2>2, Zenon
    <2> QED BY <1>6, <2>2, Zenon
<1>9. Sound(u)
    BY <1>5, <1>8, Zenon DEF Sound
<1> QED BY <1>2, <1>3, <1>4, <1>5, <1>9, Zenon

LEMMA AgreesJoined ==
    ASSUME NEW p \in Seq(ReadType), NEW s, Sound(s), Matches(p, s),
           NEW g \in Seq(ReadType), NEW t, Sound(t), Matches(g, t)
    PROVE  Matches(p \o g, s \o t) /\ p \o g \in Seq(ReadType)
<1>1. PICK n \in Nat : n = Len(s)
    BY LenProperties DEF Sound
<1>2. PICK m \in Nat : m = Len(t)
    BY LenProperties DEF Sound
<1>3. PICK u : u = s \o t
    OBVIOUS
<1>4. Len(u) = n + m /\ (\A i \in 1 .. n : u[i] = s[i]) /\ \A i \in 1 .. m : u[n + i] = t[i]
    BY <1>1, <1>2, <1>3, SoundJoined
<1>5. PICK r : r = p \o g
    OBVIOUS
<1>6. Len(p) = n /\ Len(g) = m
    BY <1>1, <1>2, Zenon DEF Matches
<1>7. /\ r \in Seq(ReadType) /\ Len(r) = n + m
      /\ \A i \in 1 .. n : r[i] = p[i]
      /\ \A i \in 1 .. m : r[n + i] = g[i]
    BY <1>5, <1>6, ConcatProperties
<1>8. \A i \in 1 .. n : Agrees(r[i], u[i])
    BY <1>1, <1>4, <1>7, Zenon DEF Matches
<1>9. \A i \in 1 .. m : Agrees(r[n + i], u[n + i])
    BY <1>2, <1>4, <1>7, Zenon DEF Matches
<1>10. \A i \in 1 .. n + m : Agrees(r[i], u[i])
    <2>1. ASSUME NEW i \in 1 .. n + m, i \notin 1 .. n PROVE i - n \in 1 .. m /\ i = n + (i - n)
        BY <2>1
    <2>2. ASSUME NEW i \in 1 .. n + m, i \notin 1 .. n PROVE Agrees(r[i], u[i])
        BY <1>9, <2>1, <2>2, Zenon
    <2> QED BY <1>8, <2>2, Zenon
<1>11. Matches(r, u)
    BY <1>4, <1>7, <1>10, Zenon DEF Matches
<1> QED BY <1>3, <1>5, <1>7, <1>11, Zenon

LEMMA MatchesJoined ==
    ASSUME NEW p \in Seq(ReadType), NEW s, Sound(s), Matches(p, s),
           NEW g \in Seq(ReadType), NEW t, Sound(t), Matches(g, t)
    PROVE  Sound(s \o t) /\ Matches(p \o g, s \o t) /\ p \o g \in Seq(ReadType)
BY SoundJoined, AgreesJoined

LEMMA ReadingJoined ==
    ASSUME NEW k \in Seq(AnyCall), NEW l \in Seq(AnyCall), NEW typed \in BOOLEAN
    PROVE  Reading(k \o l, typed) = Reading(k, typed) \o Reading(l, typed)
<1>1. PICK n \in Nat : n = Len(k)
    BY LenProperties
<1>2. PICK m \in Nat : m = Len(l)
    BY LenProperties
<1>3. PICK kl : kl = k \o l
    OBVIOUS
<1>4. /\ kl \in Seq(AnyCall) /\ Len(kl) = n + m /\ \A i \in 1 .. n : kl[i] = k[i]
      /\ \A i \in 1 .. m : kl[n + i] = l[i]
    BY <1>1, <1>2, <1>3, ConcatProperties
<1>5. PICK p \in Seq(ReadType) : p = Reading(kl, typed)
    BY <1>4, ReadingIs
<1>6. PICK g \in Seq(ReadType) : g = Reading(k, typed)
    BY ReadingIs
<1>7. PICK h \in Seq(ReadType) : h = Reading(l, typed)
    BY ReadingIs
<1>8. Len(p) = n + m /\ \A i \in 1 .. n + m : p[i] = Entry(kl[i], typed)
    BY <1>4, <1>5, ReadingIs
<1>9. Len(g) = n /\ \A i \in 1 .. n : g[i] = Entry(k[i], typed)
    BY <1>1, <1>6, ReadingIs
<1>10. Len(h) = m /\ \A i \in 1 .. m : h[i] = Entry(l[i], typed)
    BY <1>2, <1>7, ReadingIs
<1>11. PICK gh : gh = g \o h
    OBVIOUS
<1>12. /\ gh \in Seq(ReadType) /\ Len(gh) = n + m /\ \A i \in 1 .. n : gh[i] = g[i]
       /\ \A i \in 1 .. m : gh[n + i] = h[i]
    <2>1. Len(g) = n /\ Len(h) = m
        BY <1>9, <1>10
    <2>2. /\ gh \in Seq(ReadType) /\ Len(gh) = Len(g) + Len(h) /\ \A i \in 1 .. Len(g) : gh[i] = g[i]
          /\ \A i \in 1 .. Len(h) : gh[Len(g) + i] = h[i]
        BY <1>11, ConcatProperties
    <2> QED BY <2>1, <2>2, Zenon
<1>13. \A i \in 1 .. n : p[i] = gh[i]
    <2>1. ASSUME NEW i \in 1 .. n PROVE p[i] = gh[i]
        <3>1. i \in 1 .. n + m
            OBVIOUS
        <3>2. p[i] = Entry(kl[i], typed)
            BY <1>8, <3>1, Zenon
        <3>3. gh[i] = Entry(k[i], typed)
            BY <1>9, <1>12, Zenon
        <3>4. kl[i] = k[i]
            BY <1>4, Zenon
        <3> QED BY <3>2, <3>3, <3>4, Zenon
    <2> QED BY <2>1, Zenon
<1>14. \A i \in 1 .. m : p[n + i] = gh[n + i]
    <2>1. ASSUME NEW i \in 1 .. m PROVE p[n + i] = gh[n + i]
        <3>1. n + i \in 1 .. n + m
            OBVIOUS
        <3>2. p[n + i] = Entry(kl[n + i], typed)
            BY <1>8, <3>1, Zenon
        <3>3. gh[n + i] = Entry(l[i], typed)
            BY <1>10, <1>12, Zenon
        <3>4. kl[n + i] = l[i]
            BY <1>4, Zenon
        <3> QED BY <3>2, <3>3, <3>4, Zenon
    <2> QED BY <2>1, Zenon
<1>15. \A i \in 1 .. n + m : p[i] = gh[i]
    <2>1. ASSUME NEW i \in 1 .. n + m, i \notin 1 .. n PROVE i - n \in 1 .. m /\ n + (i - n) = i
        BY <2>1
    <2>2. ASSUME NEW i \in 1 .. n + m, i \notin 1 .. n PROVE p[i] = gh[i]
        BY <1>14, <2>1, <2>2, Zenon
    <2> QED BY <1>13, <2>2, Zenon
<1>16. p = gh
    BY <1>8, <1>12, <1>15, SeqEqual
<1> QED BY <1>3, <1>5, <1>6, <1>7, <1>11, <1>16, Zenon

(* The numbers in front: calls with a value of their width each.              *)
NumberCall == [kind : Fixed, member : Members]

LEMMA NumberCalls ==
    NumberCall \subseteq AnyCall /\ NumberCall \subseteq CallOf(TRUE)
        /\ \A c \in NumberCall : c.kind \in Fixed /\ c.kind # "tags"
<1>1. \A c \in NumberCall : c.kind \in Fixed /\ c.kind # "tags"
    BY KindsDiffer DEF NumberCall
<1> QED BY <1>1 DEF NumberCall, AnyCall, CallOf, TypedCall, TypedKinds, Kinds

LEMMA TypedMatch ==
    ASSUME NEW on \in BOOLEAN, on = TRUE, NEW items \in Seq(NumberCall), NEW vals,
           \A i \in 1 .. Len(items) : vals[i] \in Seq(Nat) /\ Len(vals[i]) = Width[items[i].kind]
    PROVE  /\ Sound(Typed(items, vals)) /\ Reading(items, on) \in Seq(ReadType)
           /\ Matches(Reading(items, on), Typed(items, vals))
<1>1. PICK n \in Nat : n = Len(items)
    BY LenProperties
<1>2. DOMAIN items = 1 .. n /\ \A i \in 1 .. n : items[i] \in NumberCall
    BY <1>1
<1>3. items \in Seq(AnyCall)
    BY NumberCalls, SubsetSeq
<1>5. PICK s : s = Typed(items, vals)
    OBVIOUS
<1>6. s = [i \in 1 .. n |-> Field(items[i], on, vals[i])]
    BY <1>2, <1>5, Zenon DEF Typed
<1>7. \A i \in 1 .. n : s[i] = Field(items[i], on, vals[i])
    BY <1>6, Zenon
<1>8. ASSUME NEW i \in 1 .. n PROVE WellFormed(s[i]) /\ s[i] \in FieldType
    <2>1. PICK f : f = s[i]
        OBVIOUS
    <2>2. PICK item \in NumberCall : item = items[i]
        BY <1>2, Zenon
    <2>3. PICK val \in Seq(Nat) : val = vals[i] /\ Len(val) = Width[item.kind]
        BY <1>1, <2>2, Zenon
    <2>4. f = Field(item, on, val)
        BY <1>7, <2>1, <2>2, <2>3, Zenon
    <2>5. f.kind = item.kind /\ f.typed = on /\ f.val = val
        BY <2>4, Zenon DEF Field
    <2>6. item.kind \in Fixed /\ item.kind \in Kinds /\ item.member \in Members
        BY DEF NumberCall, Kinds
    <2>7. WellFormed(f)
        BY <2>3, <2>5, <2>6, Zenon DEF WellFormed, IsField, NumberField
    <2>8. f \in FieldType
        BY <2>4, <2>6 DEF FieldType, Field
    <2> QED BY <2>1, <2>7, <2>8, Zenon
<1>9. s \in Seq(FieldType) /\ Len(s) = n
    <2>1. DOMAIN s = 1 .. n /\ s = [i \in 1 .. n |-> s[i]]
        BY <1>6
    <2>2. \A i \in 1 .. n : s[i] \in FieldType
        BY <1>8, Zenon
    <2> QED BY <2>1, <2>2
<1>10. Sound(s)
    BY <1>8, <1>9, Zenon DEF Sound
<1>11. PICK p : p = Reading(items, on)
    OBVIOUS
<1>12. p \in Seq(ReadType) /\ Len(p) = n /\ \A i \in 1 .. n : p[i] = Entry(items[i], on)
    BY <1>1, <1>3, <1>11, ReadingIs
<1>13. \A i \in 1 .. n : Agrees(p[i], s[i])
    <2>1. ASSUME NEW i \in 1 .. n PROVE Agrees(Entry(items[i], on), Field(items[i], on, vals[i]))
        <3>1. SameCall(items[i], items[i], on)
            BY <1>2, NumberCalls, Zenon DEF SameCall
        <3> QED BY <3>1, ReadAgrees
    <2> QED BY <1>7, <1>12, <2>1, Zenon
<1>14. Matches(p, s)
    BY <1>9, <1>12, <1>13, Zenon DEF Matches
<1> QED BY <1>5, <1>10, <1>11, <1>12, <1>14, Zenon

LEMMA NumbersMatch ==
    ASSUME NEW on \in BOOLEAN, on = TRUE, NEW a \in NumberCall, NEW b \in NumberCall, NEW c \in NumberCall,
           NEW u \in Seq(Nat), NEW v \in Seq(Nat), NEW w \in Seq(Nat),
           Len(u) = Width[a.kind], Len(v) = Width[b.kind], Len(w) = Width[c.kind]
    PROVE  /\ Sound(Typed(<<a>>, <<u>>)) /\ Reading(<<a>>, on) \in Seq(ReadType)
           /\ Matches(Reading(<<a>>, on), Typed(<<a>>, <<u>>))
           /\ Sound(Typed(<<a, b>>, <<u, v>>)) /\ Reading(<<a, b>>, on) \in Seq(ReadType)
           /\ Matches(Reading(<<a, b>>, on), Typed(<<a, b>>, <<u, v>>))
           /\ Sound(Typed(<<a, b, c>>, <<u, v, w>>)) /\ Reading(<<a, b, c>>, on) \in Seq(ReadType)
           /\ Matches(Reading(<<a, b, c>>, on), Typed(<<a, b, c>>, <<u, v, w>>))
<1>1. /\ Sound(Typed(<<a>>, <<u>>)) /\ Reading(<<a>>, on) \in Seq(ReadType)
      /\ Matches(Reading(<<a>>, on), Typed(<<a>>, <<u>>))
    <2>1. <<a>> \in Seq(NumberCall)
        OBVIOUS
    <2>2. PICK vals : vals = <<u>>
        OBVIOUS
    <2>3. PICK items \in Seq(NumberCall) : items = <<a>>
        BY <2>1, Zenon
    <2>4. Len(items) = 1 /\ \A i \in 1 .. 1 : vals[i] \in Seq(Nat) /\ Len(vals[i]) = Width[items[i].kind]
        BY <2>2, <2>3
    <2>5. \A i \in 1 .. Len(items) : vals[i] \in Seq(Nat) /\ Len(vals[i]) = Width[items[i].kind]
        BY <2>4, Zenon
    <2> QED BY <2>2, <2>3, <2>5, TypedMatch, Zenon
<1>2. /\ Sound(Typed(<<a, b>>, <<u, v>>)) /\ Reading(<<a, b>>, on) \in Seq(ReadType)
      /\ Matches(Reading(<<a, b>>, on), Typed(<<a, b>>, <<u, v>>))
    <2>1. <<a, b>> \in Seq(NumberCall)
        OBVIOUS
    <2>2. PICK vals : vals = <<u, v>>
        OBVIOUS
    <2>3. PICK items \in Seq(NumberCall) : items = <<a, b>>
        BY <2>1, Zenon
    <2>4. Len(items) = 2 /\ \A i \in 1 .. 2 : vals[i] \in Seq(Nat) /\ Len(vals[i]) = Width[items[i].kind]
        BY <2>2, <2>3
    <2>5. \A i \in 1 .. Len(items) : vals[i] \in Seq(Nat) /\ Len(vals[i]) = Width[items[i].kind]
        BY <2>4, Zenon
    <2> QED BY <2>2, <2>3, <2>5, TypedMatch, Zenon
<1>3. /\ Sound(Typed(<<a, b, c>>, <<u, v, w>>)) /\ Reading(<<a, b, c>>, on) \in Seq(ReadType)
      /\ Matches(Reading(<<a, b, c>>, on), Typed(<<a, b, c>>, <<u, v, w>>))
    <2>1. <<a, b, c>> \in Seq(NumberCall)
        OBVIOUS
    <2>2. PICK vals : vals = <<u, v, w>>
        OBVIOUS
    <2>3. PICK items \in Seq(NumberCall) : items = <<a, b, c>>
        BY <2>1, Zenon
    <2>4. Len(items) = 3 /\ \A i \in 1 .. 3 : vals[i] \in Seq(Nat) /\ Len(vals[i]) = Width[items[i].kind]
        BY <2>2, <2>3
    <2>5. \A i \in 1 .. Len(items) : vals[i] \in Seq(Nat) /\ Len(vals[i]) = Width[items[i].kind]
        BY <2>4, Zenon
    <2> QED BY <2>2, <2>3, <2>5, TypedMatch, Zenon
<1> QED BY <1>1, <1>2, <1>3

LEMMA PartsMatch ==
    ASSUME NEW on \in BOOLEAN, NEW k \in Seq(AnyCall), NEW l \in Seq(AnyCall), NEW s, NEW t,
           Sound(s), Matches(Reading(k, on), s), Sound(t), Matches(Reading(l, on), t)
    PROVE  Sound(s \o t) /\ Matches(Reading(k \o l, on), s \o t) /\ Reading(k \o l, on) \in Seq(ReadType)
<1>1. Reading(k, on) \in Seq(ReadType) /\ Reading(l, on) \in Seq(ReadType)
    BY ReadingIs
<1>2. /\ Sound(s \o t) /\ Matches(Reading(k, on) \o Reading(l, on), s \o t)
      /\ Reading(k, on) \o Reading(l, on) \in Seq(ReadType)
    BY <1>1, MatchesJoined
<1> QED BY <1>2, ReadingJoined, Zenon

LEMMA NumbersInFront ==
    ASSUME NEW n \in Nat
    PROVE  /\ Word(7) \o Word(0) \in Seq(Nat) /\ Len(Word(7) \o Word(0)) = Width["uint64"]
           /\ Word(n) \in Seq(Nat) /\ Len(Word(n)) = Width["uint32"]
           /\ << 5 >> \in Seq(Nat) /\ Len(<< 5 >>) = Width["ubyte"]
<1>1. PICK u : u = Word(7)
    OBVIOUS
<1>2. PICK v : v = Word(0)
    OBVIOUS
<1>3. Word(7) \o Word(0) \in Seq(Nat) /\ Len(Word(7) \o Word(0)) = Width["uint64"]
    <2>1. u \in Seq(Nat) /\ Len(u) = 4
        BY <1>1, WordNumber
    <2>2. v \in Seq(Nat) /\ Len(v) = 4
        BY <1>2, WordNumber
    <2>3. u \o v \in Seq(Nat) /\ Len(u \o v) = 8
        <3>1. u \o v \in Seq(Nat) /\ Len(u \o v) = Len(u) + Len(v)
            BY <2>1, <2>2, Joined, Zenon
        <3> QED BY <2>1, <2>2, <3>1
    <2>4. Word(7) \o Word(0) = u \o v
        BY <1>1, <1>2, Zenon
    <2>5. Width["uint64"] = 8
        BY KindIs
    <2> QED BY <2>3, <2>4, <2>5, Zenon
<1>4. Word(n) \in Seq(Nat) /\ Len(Word(n)) = Width["uint32"]
    BY WordNumber, KindIs
<1>5. << 5 >> \in Seq(Nat) /\ Len(<< 5 >>) = Width["ubyte"]
    BY KindIs
<1> QED BY <1>3, <1>4, <1>5

LEMMA FrontCalls ==
    /\ Uint64("transaction_id") \in NumberCall /\ Uint64("transaction_id").kind = "uint64"
    /\ Uint32("error") \in NumberCall /\ Uint32("error").kind = "uint32"
    /\ Ubyte("type") \in NumberCall /\ Ubyte("type").kind = "ubyte"
    /\ Uint32("size") \in NumberCall /\ Uint32("size").kind = "uint32"
<1>1. \A m \in Members : /\ Uint64(m) \in NumberCall /\ Uint64(m).kind = "uint64"
                         /\ Uint32(m) \in NumberCall /\ Uint32(m).kind = "uint32"
                         /\ Ubyte(m) \in NumberCall /\ Ubyte(m).kind = "ubyte"
    BY KindIs DEF NumberCall, Uint64, Uint32, Ubyte
<1>2. "transaction_id" \in Members /\ "error" \in Members /\ "type" \in Members /\ "size" \in Members
    BY DEF Members
<1> QED BY <1>1, <1>2, Zenon

LEMMA PreambleMatch ==
    ASSUME NEW on \in BOOLEAN, on = TRUE, NEW error \in {0, 1}, NEW structed \in BOOLEAN,
           NEW names, NEW some \in BOOLEAN, Len(names) \in Nat, some <=> Len(names) # 0
    PROVE  /\ Sound(Preamble(error, structed, names))
           /\ Matches(Reading(ClientPreamble(error, structed, some), on), Preamble(error, structed, names))
           /\ Reading(ClientPreamble(error, structed, some), on) \in Seq(ReadType)
<1>id. PICK id \in NumberCall : id = Uint64("transaction_id") /\ id.kind = "uint64"
    BY FrontCalls, Zenon
<1>er. PICK er \in NumberCall : er = Uint32("error") /\ er.kind = "uint32"
    BY FrontCalls, Zenon
<1>ty. PICK ty \in NumberCall : ty = Ubyte("type") /\ ty.kind = "ubyte"
    BY FrontCalls, Zenon
<1>sz. PICK sz \in NumberCall : sz = Uint32("size") /\ sz.kind = "uint32"
    BY FrontCalls, Zenon
<1>1. id \in AnyCall /\ er \in AnyCall /\ ty \in AnyCall /\ sz \in AnyCall
    BY NumberCalls
<1>2. PICK h : h = Header(error)
    OBVIOUS
<1>3. PICK k : k = <<id, er, ty>>
    OBVIOUS
<1>4. k \in Seq(AnyCall)
    BY <1>1, <1>3
<1>5. Sound(h) /\ Matches(Reading(k, on), h)
    <2>1. /\ Word(7) \o Word(0) \in Seq(Nat) /\ Len(Word(7) \o Word(0)) = Width["uint64"]
          /\ << 5 >> \in Seq(Nat) /\ Len(<< 5 >>) = Width["ubyte"]
        BY NumbersInFront
    <2>2. Word(error) \in Seq(Nat) /\ Len(Word(error)) = Width["uint32"]
        BY NumbersInFront
    <2>3. PICK u \in Seq(Nat) : u = Word(7) \o Word(0) /\ Len(u) = Width["uint64"]
        BY <2>1, Zenon
    <2>4. PICK v \in Seq(Nat) : v = Word(error) /\ Len(v) = Width["uint32"]
        BY <2>2, Zenon
    <2>5. PICK w \in Seq(Nat) : w = << 5 >> /\ Len(w) = Width["ubyte"]
        BY <2>1, Zenon
    <2>6. h = Typed(k, <<u, v, w>>)
        BY <1>id, <1>er, <1>ty, <1>2, <1>3, <2>3, <2>4, <2>5, Zenon DEF Header
    <2>7. /\ Sound(Typed(<<id, er, ty>>, <<u, v, w>>))
          /\ Matches(Reading(<<id, er, ty>>, on),
                     Typed(<<id, er, ty>>, <<u, v, w>>))
        <3>1. Len(u) = Width[id.kind] /\ Len(v) = Width[er.kind] /\ Len(w) = Width[ty.kind]
            BY <1>id, <1>er, <1>ty, <2>3, <2>4, <2>5, Zenon
        <3> QED BY <3>1, NumbersMatch
    <2> QED BY <1>3, <2>6, <2>7, Zenon
<1>6. CASE error # 0
    <2>1. PICK l : l = <<id>>
        OBVIOUS
    <2>2. PICK t : t = Typed(l, <<Word(7) \o Word(0)>>)
        OBVIOUS
    <2>3. Preamble(error, structed, names) = h \o t
        BY <1>id, <1>2, <1>6, <2>1, <2>2, Zenon DEF Preamble
    <2>4. ClientPreamble(error, structed, some) = k \o l
        BY <1>id, <1>er, <1>ty, <1>3, <1>6, <2>1, Zenon DEF ClientPreamble
    <2>5. l \in Seq(AnyCall) /\ Sound(t) /\ Matches(Reading(l, on), t)
        <3>1. Word(7) \o Word(0) \in Seq(Nat) /\ Len(Word(7) \o Word(0)) = Width["uint64"]
            BY NumbersInFront
        <3>2. PICK u \in Seq(Nat) : u = Word(7) \o Word(0) /\ Len(u) = Width["uint64"]
            BY <3>1, Zenon
        <3>3. Sound(Typed(<<id>>, <<u>>)) /\ Matches(Reading(<<id>>, on), Typed(<<id>>, <<u>>))
            <4>1. Len(u) = Width[id.kind]
                BY <1>id, <3>2, Zenon
            <4> QED BY <4>1, NumbersMatch
        <3>4. l \in Seq(AnyCall)
            BY <1>1, <2>1
        <3> QED BY <2>1, <2>2, <3>2, <3>3, <3>4, Zenon
    <2> QED BY <1>4, <1>5, <2>3, <2>4, <2>5, PartsMatch, Zenon
<1>7. CASE error = 0 /\ structed
    <2>1. Preamble(error, structed, names) = h \o <<>>
        BY <1>2, <1>7, Zenon DEF Preamble
    <2>2. ClientPreamble(error, structed, some) = k \o <<>>
        BY <1>id, <1>er, <1>ty, <1>3, <1>7, Zenon DEF ClientPreamble
    <2>3. h \o <<>> = h /\ k \o <<>> = k
        <3>1. h \in Seq(FieldType)
            BY <1>5, Zenon DEF Sound
        <3>2. h \o <<>> = h
            BY <3>1
        <3>3. k \o <<>> = k
            BY <1>4
        <3> QED BY <3>2, <3>3
    <2>4. Reading(k, on) \in Seq(ReadType)
        BY <1>4, ReadingIs
    <2> QED BY <1>5, <2>1, <2>2, <2>3, <2>4, Zenon
<1>8. CASE error = 0 /\ ~structed
    <2>1. PICK n \in Nat : n = Len(names)
        OBVIOUS
    <2>2. PICK l : l = IF some THEN <<sz, sz>> ELSE <<sz>>
        OBVIOUS
    <2>3. PICK t : t = Counts(n)
        OBVIOUS
    <2>4. Preamble(error, structed, names) = h \o t
        BY <1>2, <1>8, <2>1, <2>3, Zenon DEF Preamble
    <2>5. ClientPreamble(error, structed, some) = k \o l
        BY <1>id, <1>er, <1>ty, <1>sz, <1>3, <1>8, <2>2, Zenon DEF ClientPreamble
    <2>6. PICK w \in Seq(Nat) : w = Word(n) /\ Len(w) = Width["uint32"]
        BY NumbersInFront
    <2>7. /\ Sound(Typed(<<sz>>, <<w>>)) /\ Matches(Reading(<<sz>>, on), Typed(<<sz>>, <<w>>))
          /\ Sound(Typed(<<sz, sz>>, <<w, w>>))
          /\ Matches(Reading(<<sz, sz>>, on), Typed(<<sz, sz>>, <<w, w>>))
        <3>1. Len(w) = Width[sz.kind]
            BY <1>sz, <2>6, Zenon
        <3> QED BY <3>1, NumbersMatch
    <2>9. <<sz>> \in Seq(AnyCall) /\ <<sz, sz>> \in Seq(AnyCall)
        BY <1>1
    <2>10. CASE n = 0
        <3>1. l = <<sz>>
            BY <2>1, <2>2, <2>10
        <3>2. t = Typed(<<sz>>, <<w>>)
            BY <1>sz, <2>3, <2>6, <2>10, Zenon DEF Counts
        <3> QED BY <1>4, <1>5, <2>4, <2>5, <2>7, <2>9, <3>1, <3>2, PartsMatch, Zenon
    <2>11. CASE n # 0
        <3>1. l = <<sz, sz>>
            BY <2>1, <2>2, <2>11
        <3>2. t = Typed(<<sz, sz>>, <<w, w>>)
            BY <1>sz, <2>3, <2>6, <2>11, Zenon DEF Counts
        <3> QED BY <1>4, <1>5, <2>4, <2>5, <2>7, <2>9, <3>1, <3>2, PartsMatch, Zenon
    <2> QED BY <2>10, <2>11
<1> QED BY <1>6, <1>7, <1>8

(* The part of the plan in front of the first record that is not read as it   *)
(* is written keeps step with the fields; the whole plan if there is none.    *)
KeepsStep(p, s, n, stray) ==
    /\ n \in Nat /\ n <= Len(p) /\ n <= Len(s)
    /\ \A i \in 1 .. n : Agrees(p[i], s[i])
    /\ ~stray => Len(p) = n /\ Len(s) = n

LEMMA StepKept ==
    ASSUME NEW p \in Seq(ReadType), NEW s, Sound(s), NEW n, NEW stray \in BOOLEAN, KeepsStep(p, s, n, stray),
           NEW g \in Seq(ReadType), NEW t, Sound(t), NEW stray2 \in BOOLEAN, stray => stray2,
           ~stray2 => Matches(g, t), NEW n2, n2 = IF stray2 THEN n ELSE Len(p \o g)
    PROVE  Sound(s \o t) /\ KeepsStep(p \o g, s \o t, n2, stray2) /\ p \o g \in Seq(ReadType)
<1>1. PICK u : u = s \o t
    OBVIOUS
<1>2. PICK r : r = p \o g
    OBVIOUS
<1>3. Sound(u) /\ Len(u) = Len(s) + Len(t) /\ \A i \in 1 .. Len(s) : u[i] = s[i]
    BY <1>1, SoundJoined
<1>4. r \in Seq(ReadType) /\ Len(r) = Len(p) + Len(g) /\ \A i \in 1 .. Len(p) : r[i] = p[i]
    BY <1>2, ConcatProperties
<1>5. Len(s) \in Nat /\ Len(t) \in Nat /\ Len(p) \in Nat /\ Len(g) \in Nat
    BY LenProperties DEF Sound
<1>6. n \in Nat /\ n <= Len(p) /\ n <= Len(s)
    BY Zenon DEF KeepsStep
<1>7. CASE stray2
    <2>1. n <= Len(r) /\ n <= Len(u)
        BY <1>3, <1>4, <1>5, <1>6
    <2>2. \A i \in 1 .. n : i \in 1 .. Len(p) /\ i \in 1 .. Len(s)
        BY <1>5, <1>6
    <2>3. \A i \in 1 .. n : Agrees(r[i], u[i])
        BY <1>3, <1>4, <2>2, Zenon DEF KeepsStep
    <2>4. n2 = n
        BY <1>7
    <2>5. KeepsStep(r, u, n2, stray2)
        BY <1>6, <1>7, <2>1, <2>3, <2>4, Zenon DEF KeepsStep
    <2> QED BY <1>1, <1>2, <1>3, <1>4, <2>5, Zenon
<1>8. CASE ~stray2
    <2>1. ~stray /\ Matches(g, t)
        BY <1>8
    <2>2. Matches(p, s)
        BY <2>1, Zenon DEF KeepsStep, Matches
    <2>3. Matches(r, u)
        BY <1>1, <1>2, <2>1, <2>2, AgreesJoined
    <2>4. n2 = Len(r)
        BY <1>2, <1>8
    <2>5. n2 \in Nat /\ n2 <= Len(r) /\ n2 = Len(u)
        BY <1>4, <1>5, <2>3, <2>4 DEF Matches
    <2>6. n2 <= Len(u)
        BY <2>5
    <2>7. KeepsStep(r, u, n2, stray2)
        BY <2>3, <2>4, <2>5, <2>6, Zenon DEF KeepsStep, Matches
    <2> QED BY <1>1, <1>2, <1>3, <1>4, <2>7, Zenon
<1> QED BY <1>7, <1>8

(* The whole of the exchange.                                                 *)

SentType == [field : FieldType, at : Nat]
FieldsOf(s, u) == [i \in 1 .. Len(s) |-> s[i].field] \o u
Fields == FieldsOf(sent, unwritten)

(* What each variable holds.                                                  *)
ReplyTypes ==
    /\ unwritten \in Seq(FieldType) /\ objects \in Seq(DOMAIN Records)
    /\ sent \in Seq(SentType) /\ plan \in Seq(ReadType)
    /\ strayed \in BOOLEAN /\ whole \in BOOLEAN
    /\ \E S : log \in Seq(S)

(* Nothing is read before the answer arrived, nothing written afterwards.     *)
Phases ==
    /\ state = "none" => /\ unwritten = <<>> /\ objects = <<>> /\ sent = <<>> /\ wire = Buffer(<<>>)
                         /\ strayed = FALSE
    /\ state # "arrived" => log = <<>>
    /\ state = "arrived" => unwritten = <<>> /\ objects = <<>>

(* The fields sent and still to write are what the reads to come expect.      *)
PlanMatches == Sound(Fields) /\ KeepsStep(plan, Fields, inStep, strayed)

(* A field that was sent stands where sent says, and the next one behind it.  *)
Place(i) == IF i <= Len(sent) THEN sent[i].at ELSE Len(wire.bytes)
Stands(q, e) == /\ e.at + Len(Encoded(e.field)) <= Len(q)
                /\ Begins(q, e.at, Encoded(e.field))
WireHolds ==
    /\ wire.bytes \in Seq(Nat) /\ wire = At(wire.bytes, Len(wire.bytes)) /\ Place(1) = 0
    /\ \A i \in 1 .. Len(sent) : /\ Stands(wire.bytes, sent[i])
                                 /\ Place(i + 1) = sent[i].at + Len(Encoded(sent[i].field))

(* Every read so far was in step, succeeded and stayed inside the answer.     *)
Undisturbed ==
    /\ Len(log) <= Len(sent) /\ Len(log) <= inStep
    /\ \A i \in 1 .. Len(log) : log[i].ok /\ log[i].inside
Cut(q, p) == p \in Seq(Nat) /\ Len(p) <= Len(q) /\ \A i \in 1 .. Len(p) : p[i] = q[i]
(* Then the cursor stands at the next field, or behind a cut answer's end.    *)
CursorStands ==
    state = "arrived" /\ Undisturbed =>
        \E p : /\ Cut(wire.bytes, p) /\ (whole => p = wire.bytes)
               /\ \/ buffer = At(p, Place(Len(log) + 1))
                  \/ ~whole /\ buffer = At(p, Len(p) + 1)

(* A whole answer without a record out of step disturbs none of its reads.    *)
AllIsRead == state = "arrived" /\ whole /\ ~strayed => Undisturbed

ReplyInv ==
    ReplyTypes /\ Phases /\ PlanMatches /\ WireHolds /\ CursorStands /\ FieldsComeBack /\ AllIsRead

LEMMA Appended ==
    ASSUME NEW S, NEW s \in Seq(S), NEW x
    PROVE  /\ Append(s, x) \in Seq(S \cup {x}) /\ Len(Append(s, x)) = Len(s) + 1
           /\ \A i \in 1 .. Len(s) : Append(s, x)[i] = s[i]
           /\ Append(s, x)[Len(s) + 1] = x
<1>1. s \in Seq(S \cup {x})
    BY SubsetSeq
<1>2. PICK T : T = S \cup {x}
    OBVIOUS
<1>3. s \in Seq(T) /\ x \in T
    BY <1>1, <1>2
<1>4. PICK r : r = Append(s, x)
    OBVIOUS
<1>5. /\ r \in Seq(T) /\ Len(r) = Len(s) + 1
      /\ \A i \in 1 .. Len(s) : r[i] = s[i]
      /\ r[Len(s) + 1] = x
    BY <1>3, <1>4, AppendProperties
<1> QED BY <1>2, <1>4, <1>5, Zenon

LEMMA StandsLonger ==
    ASSUME NEW q \in Seq(Nat), NEW w \in Seq(Nat), NEW e, e.at \in Nat,
           Encoded(e.field) \in Seq(Nat), Stands(q, e)
    PROVE  Stands(q \o w, e)
<1>1. PICK c \in Seq(Nat) : c = Encoded(e.field)
    OBVIOUS
<1>2. PICK m \in Nat : m = e.at
    OBVIOUS
<1>3. m + Len(c) <= Len(q) /\ Begins(q, m, c)
    BY <1>1, <1>2, Zenon DEF Stands
<1>4. PICK u : u = q \o w
    OBVIOUS
<1>5. Len(u) = Len(q) + Len(w) /\ \A i \in 1 .. Len(q) : u[i] = q[i]
    BY <1>4, ConcatProperties
<1>6. m + Len(c) <= Len(u)
    BY <1>3, <1>5
<1>7. Begins(u, m, c)
    <2>1. ASSUME NEW i \in 1 .. Len(c) PROVE u[m + i] = c[i]
        <3>1. m + i \in 1 .. Len(q) /\ m + i <= Len(q)
            BY <1>3
        <3>2. u[m + i] = q[m + i]
            BY <1>5, <3>1, Zenon
        <3>3. q[m + i] = c[i]
            BY <1>3, <3>1, Zenon DEF Begins
        <3> QED BY <3>2, <3>3, Zenon
    <2> QED BY <2>1, Zenon DEF Begins
<1> QED BY <1>1, <1>2, <1>4, <1>6, <1>7, Zenon DEF Stands

LEMMA WrittenBehind ==
    ASSUME NEW q \in Seq(Nat), NEW f, Encoded(f) \in Seq(Nat), NEW e, e = [field |-> f, at |-> Len(q)]
    PROVE  Stands(q \o Encoded(f), e) /\ Len(q \o Encoded(f)) = Len(q) + Len(Encoded(f))
<1>1. PICK c \in Seq(Nat) : c = Encoded(f)
    OBVIOUS
<1>2. e.field = f /\ e.at = Len(q)
    BY Zenon
<1>3. PICK u : u = q \o c
    OBVIOUS
<1>4. Len(u) = Len(q) + Len(c) /\ \A i \in 1 .. Len(c) : u[Len(q) + i] = c[i]
    BY <1>3, ConcatProperties
<1>5. Len(q) + Len(c) <= Len(u)
    BY <1>4
<1>6. Begins(u, Len(q), c)
    BY <1>4, Zenon DEF Begins
<1> QED BY <1>1, <1>2, <1>3, <1>4, <1>5, <1>6, Zenon DEF Stands

LEMMA BeginsShorter ==
    ASSUME NEW q \in Seq(Nat), NEW p \in Seq(Nat), Len(p) <= Len(q), \A i \in 1 .. Len(p) : p[i] = q[i],
           NEW m \in Nat, NEW w \in Seq(Nat), Begins(q, m, w)
    PROVE  Begins(p, m, w)
<1>1. ASSUME NEW i \in 1 .. Len(w), m + i <= Len(p) PROVE p[m + i] = w[i]
    <2>1. m + i \in 1 .. Len(p) /\ m + i <= Len(q)
        BY <1>1
    <2> QED BY <2>1, Zenon DEF Begins
<1> QED BY <1>1, Zenon DEF Begins

LEMMA FieldsJoined ==
    ASSUME NEW s \in Seq(FieldType), NEW t \in Seq(FieldType), NEW r, r = s \o t
    PROVE  /\ r \in Seq(FieldType) /\ Len(r) = Len(s) + Len(t) /\ \A i \in 1 .. Len(s) : r[i] = s[i]
           /\ \A i \in 1 .. Len(t) : r[Len(s) + i] = t[i]
BY ConcatProperties

LEMMA FieldsAre ==
    ASSUME NEW s \in Seq(SentType), NEW u \in Seq(FieldType)
    PROVE  /\ FieldsOf(s, u) \in Seq(FieldType) /\ Len(FieldsOf(s, u)) = Len(s) + Len(u)
           /\ \A i \in 1 .. Len(s) : FieldsOf(s, u)[i] = s[i].field
           /\ \A i \in 1 .. Len(u) : FieldsOf(s, u)[Len(s) + i] = u[i]
<1>1. PICK t : t = [i \in 1 .. Len(s) |-> s[i].field]
    OBVIOUS
<1>2. \A i \in 1 .. Len(s) : s[i].field \in FieldType
    <2>1. \A i \in 1 .. Len(s) : s[i] \in SentType
        BY ElementOfSeq
    <2>2. \A e \in SentType : e.field \in FieldType
        BY DEF SentType
    <2> QED BY <2>1, <2>2, Zenon
<1>3. t \in Seq(FieldType) /\ Len(t) = Len(s) /\ \A i \in 1 .. Len(s) : t[i] = s[i].field
    BY <1>1, <1>2
<1>4. PICK r : r = FieldsOf(s, u)
    OBVIOUS
<1>5. r = t \o u
    BY <1>1, <1>4, Zenon DEF FieldsOf
<1>6. /\ r \in Seq(FieldType) /\ Len(r) = Len(t) + Len(u) /\ \A i \in 1 .. Len(t) : r[i] = t[i]
      /\ \A i \in 1 .. Len(u) : r[Len(t) + i] = u[i]
    <2>1. t \in Seq(FieldType)
        BY <1>3
    <2> QED BY <1>5, <2>1, FieldsJoined
<1>7. \A i \in 1 .. Len(s) : r[i] = s[i].field
    BY <1>3, <1>6, Zenon
<1> QED BY <1>3, <1>4, <1>6, <1>7, Zenon

LEMMA FieldsEqual ==
    ASSUME NEW u \in Seq(FieldType), NEW v \in Seq(FieldType), Len(u) = Len(v),
           \A i \in 1 .. Len(u) : u[i] = v[i]
    PROVE  u = v
BY SeqEqual

LEMMA FieldsBegin ==
    ASSUME NEW u \in Seq(FieldType)
    PROVE  FieldsOf(<<>>, u) = u
<1>1. PICK s : s = <<>>
    OBVIOUS
<1>2. s \in Seq(SentType) /\ Len(s) = 0
    BY <1>1
<1>3. PICK t : t = FieldsOf(s, u)
    OBVIOUS
<1>4. /\ t \in Seq(FieldType) /\ Len(t) = Len(s) + Len(u)
      /\ \A i \in 1 .. Len(u) : t[Len(s) + i] = u[i]
    BY <1>2, <1>3, FieldsAre
<1>5. Len(t) = Len(u) /\ \A i \in 1 .. Len(t) : t[i] = u[i]
    BY <1>2, <1>4
<1>6. t = u
    BY <1>4, <1>5, FieldsEqual
<1> QED BY <1>1, <1>3, <1>6, Zenon

LEMMA FieldsMore ==
    ASSUME NEW s \in Seq(SentType), NEW u \in Seq(FieldType)
    PROVE  FieldsOf(s, u) = FieldsOf(s, <<>>) \o u
<1>1. PICK n : n = <<>>
    OBVIOUS
<1>2. n \in Seq(FieldType) /\ Len(n) = 0
    BY <1>1
<1>3. PICK t : t = FieldsOf(s, n)
    OBVIOUS
<1>4. t \in Seq(FieldType) /\ Len(t) = Len(s) /\ \A i \in 1 .. Len(s) : t[i] = s[i].field
    <2>1. /\ t \in Seq(FieldType) /\ Len(t) = Len(s) + Len(n)
          /\ \A i \in 1 .. Len(s) : t[i] = s[i].field
        BY <1>2, <1>3, FieldsAre, Zenon
    <2>2. Len(s) \in Nat
        BY LenProperties
    <2> QED BY <1>2, <2>1, <2>2
<1>5. PICK tu : tu = t \o u
    OBVIOUS
<1>6. /\ tu \in Seq(FieldType) /\ Len(tu) = Len(s) + Len(u) /\ \A i \in 1 .. Len(s) : tu[i] = t[i]
      /\ \A i \in 1 .. Len(u) : tu[Len(s) + i] = u[i]
    <2>1. /\ tu \in Seq(FieldType) /\ Len(tu) = Len(t) + Len(u) /\ \A i \in 1 .. Len(t) : tu[i] = t[i]
          /\ \A i \in 1 .. Len(u) : tu[Len(t) + i] = u[i]
        <3>1. t \in Seq(FieldType)
            BY <1>4
        <3> QED BY <1>5, <3>1, FieldsJoined
    <2> QED BY <1>4, <2>1, Zenon
<1>7. PICK f : f = FieldsOf(s, u)
    OBVIOUS
<1>8. /\ f \in Seq(FieldType) /\ Len(f) = Len(s) + Len(u) /\ \A i \in 1 .. Len(s) : f[i] = s[i].field
      /\ \A i \in 1 .. Len(u) : f[Len(s) + i] = u[i]
    BY <1>7, FieldsAre
<1>9. \A i \in 1 .. Len(f) : f[i] = tu[i]
    <2>1. ASSUME NEW i \in 1 .. Len(f), i \notin 1 .. Len(s)
          PROVE  \E j \in 1 .. Len(u) : Len(s) + j = i
        <3>1. i - Len(s) \in 1 .. Len(u) /\ Len(s) + (i - Len(s)) = i
            BY <1>8, <2>1
        <3> QED BY <3>1, Zenon
    <2>2. ASSUME NEW i \in 1 .. Len(f), i \notin 1 .. Len(s) PROVE f[i] = tu[i]
        <3>1. PICK j \in 1 .. Len(u) : Len(s) + j = i
            BY <2>1, <2>2, Zenon
        <3>2. f[Len(s) + j] = u[j] /\ tu[Len(s) + j] = u[j]
            BY <1>6, <1>8, Zenon
        <3> QED BY <3>1, <3>2, Zenon
    <2> QED BY <1>4, <1>6, <1>8, <2>2, Zenon
<1>10. f = tu
    BY <1>6, <1>8, <1>9, FieldsEqual
<1> QED BY <1>1, <1>3, <1>5, <1>7, <1>10, Zenon

LEMMA FieldsMove ==
    ASSUME NEW s \in Seq(SentType), NEW u \in Seq(FieldType), u # <<>>, NEW e \in SentType, e.field = Head(u)
    PROVE  FieldsOf(Append(s, e), Tail(u)) = FieldsOf(s, u)
<1>1. PICK n \in Nat : n = Len(s)
    BY LenProperties
<1>2. PICK m \in Nat : Len(u) = m + 1
    <2>1. Len(u) \in Nat \ {0}
        OBVIOUS
    <2> QED BY <2>1
<1>3. PICK r : r = Append(s, e)
    OBVIOUS
<1>4. /\ r \in Seq(SentType) /\ Len(r) = n + 1 /\ r[n + 1] = e
      /\ \A i \in 1 .. n : r[i] = s[i]
    BY <1>1, <1>3
<1>5. PICK t : t = Tail(u)
    OBVIOUS
<1>6. t \in Seq(FieldType) /\ Len(t) = m /\ \A i \in 1 .. m : t[i] = u[i + 1]
    BY <1>2, <1>5
<1>7. Head(u) = u[1]
    OBVIOUS
<1>8. PICK f : f = FieldsOf(r, t)
    OBVIOUS
<1>9. /\ f \in Seq(FieldType) /\ Len(f) = n + 1 + m /\ \A i \in 1 .. n + 1 : f[i] = r[i].field
      /\ \A i \in 1 .. m : f[n + 1 + i] = t[i]
    <2>1. /\ f \in Seq(FieldType) /\ Len(f) = Len(r) + Len(t) /\ \A i \in 1 .. Len(r) : f[i] = r[i].field
          /\ \A i \in 1 .. Len(t) : f[Len(r) + i] = t[i]
        BY <1>4, <1>6, <1>8, FieldsAre
    <2> QED BY <1>4, <1>6, <2>1, Zenon
<1>10. PICK g : g = FieldsOf(s, u)
    OBVIOUS
<1>11. /\ g \in Seq(FieldType) /\ Len(g) = n + (m + 1) /\ \A i \in 1 .. n : g[i] = s[i].field
       /\ \A i \in 1 .. m + 1 : g[n + i] = u[i]
    <2>1. /\ g \in Seq(FieldType) /\ Len(g) = Len(s) + Len(u) /\ \A i \in 1 .. Len(s) : g[i] = s[i].field
          /\ \A i \in 1 .. Len(u) : g[Len(s) + i] = u[i]
        BY <1>10, FieldsAre
    <2> QED BY <1>1, <1>2, <2>1, Zenon
<1>12. \A i \in 1 .. n : f[i] = g[i]
    <2>1. \A i \in 1 .. n : i \in 1 .. n + 1
        OBVIOUS
    <2>2. ASSUME NEW i \in 1 .. n PROVE f[i] = g[i]
        <3>1. f[i] = r[i].field
            BY <1>9, <2>1, Zenon
        <3>2. r[i] = s[i]
            BY <1>4, Zenon
        <3>3. g[i] = s[i].field
            BY <1>11, Zenon
        <3> QED BY <3>1, <3>2, <3>3, Zenon
    <2> QED BY <2>2, Zenon
<1>13. f[n + 1] = g[n + 1]
    <2>1. n + 1 \in 1 .. n + 1 /\ 1 \in 1 .. m + 1
        OBVIOUS
    <2> QED BY <1>4, <1>7, <1>9, <1>11, <2>1, Zenon
<1>14. \A i \in 1 .. m : f[n + 1 + i] = g[n + 1 + i]
    <2>1. ASSUME NEW i \in 1 .. m PROVE i + 1 \in 1 .. m + 1 /\ n + (i + 1) = n + 1 + i
        OBVIOUS
    <2>2. ASSUME NEW i \in 1 .. m PROVE f[n + 1 + i] = g[n + 1 + i]
        <3>1. f[n + 1 + i] = u[i + 1]
            BY <1>6, <1>9, Zenon
        <3>2. g[n + (i + 1)] = u[i + 1]
            BY <1>11, <2>1, Zenon
        <3> QED BY <2>1, <3>1, <3>2, Zenon
    <2> QED BY <2>2, Zenon
<1>15. \A i \in 1 .. Len(f) : f[i] = g[i]
    <2>1. ASSUME NEW i \in 1 .. n + 1 + m, i \notin 1 .. n, i # n + 1
          PROVE  i - n - 1 \in 1 .. m /\ n + 1 + (i - n - 1) = i
        BY <2>1
    <2>2. ASSUME NEW i \in 1 .. n + 1 + m, i \notin 1 .. n, i # n + 1 PROVE f[i] = g[i]
        BY <1>14, <2>1, <2>2, Zenon
    <2> QED BY <1>9, <1>12, <1>13, <2>2, Zenon
<1>16. Len(f) = Len(g)
    BY <1>9, <1>11
<1>17. f = g
    BY <1>9, <1>11, <1>15, <1>16, FieldsEqual
<1> QED BY <1>3, <1>5, <1>8, <1>10, <1>17, Zenon

LEMMA EmptyIs ==
    /\ Len(<<>>) = 0 /\ DOMAIN <<>> = {} /\ \A S : <<>> \in Seq(S)
    /\ Buffer(<<>>) = At(<<>>, 0)
<1>1. Buffer(<<>>) = At(<<>>, 0)
    BY Zenon DEF Buffer, At
<1> QED BY <1>1

(* Before the answer arrives there is nothing to say of the reads.            *)
LEMMA NothingRead ==
    ASSUME state # "arrived", log = <<>>
    PROVE  CursorStands /\ FieldsComeBack /\ AllIsRead
<1>1. DOMAIN log = {}
    BY EmptyIs, Zenon
<1>2. CursorStands /\ AllIsRead
    BY Zenon DEF CursorStands, AllIsRead
<1>3. FieldsComeBack
    BY <1>1, Zenon DEF FieldsComeBack
<1> QED BY <1>2, <1>3

LEMMA NothingReadYet ==
    ASSUME state' # "arrived", log' = <<>>
    PROVE  CursorStands' /\ FieldsComeBack' /\ AllIsRead'
<1>1. DOMAIN log' = {}
    BY EmptyIs, Zenon
<1>2. CursorStands' /\ AllIsRead'
    BY Zenon DEF CursorStands, AllIsRead
<1>3. FieldsComeBack'
    BY <1>1, Zenon DEF FieldsComeBack
<1> QED BY <1>2, <1>3

LEMMA InitHolds ==
    ASSUME ReplyInit
    PROVE  ReplyInv
<1>1. /\ state = "none" /\ unwritten = <<>> /\ objects = <<>> /\ wire = At(<<>>, 0) /\ sent = <<>>
      /\ plan = <<>> /\ strayed = FALSE /\ inStep = 0 /\ whole = TRUE /\ log = <<>> /\ wire = Buffer(<<>>)
    BY EmptyIs, Zenon DEF ReplyInit
<1>2. ReplyTypes
    <2>1. whole \in BOOLEAN /\ strayed \in BOOLEAN
        BY <1>1
    <2>2. /\ unwritten \in Seq(FieldType) /\ objects \in Seq(DOMAIN Records)
          /\ sent \in Seq(SentType) /\ plan \in Seq(ReadType) /\ log \in Seq({})
        BY <1>1, EmptyIs, Zenon
    <2> QED BY <2>1, <2>2, Zenon DEF ReplyTypes
<1>3. Phases
    BY <1>1, Zenon DEF Phases
<1>4. PlanMatches
    <2>1. Fields = <<>>
        BY <1>1, EmptyIs, FieldsBegin, Zenon DEF Fields
    <2>2. PICK s : s = <<>>
        OBVIOUS
    <2>3. Len(s) = 0 /\ \A i \in 1 .. Len(s) : FALSE
        BY <2>2
    <2>4. Sound(s)
        BY <2>2, <2>3, EmptyIs, Zenon DEF Sound
    <2>5. KeepsStep(s, s, 0, strayed)
        BY <2>3 DEF KeepsStep
    <2> QED BY <1>1, <2>1, <2>2, <2>4, <2>5, Zenon DEF PlanMatches
<1>5. WireHolds
    <2>1. wire.bytes = <<>>
        <3>1. At(<<>>, 0).bytes = <<>>
            BY AtIs
        <3> QED BY <1>1, <3>1, Zenon
    <2>2. wire.bytes \in Seq(Nat) /\ wire = At(wire.bytes, Len(wire.bytes))
        BY <1>1, <2>1, EmptyIs, Zenon
    <2>3. Place(1) = 0 /\ \A i \in 1 .. Len(sent) : FALSE
        BY <1>1, <2>1, EmptyIs DEF Place
    <2> QED BY <2>2, <2>3, Zenon DEF WireHolds
<1>6. state # "arrived"
    BY <1>1
<1>7. CursorStands /\ FieldsComeBack /\ AllIsRead
    BY <1>1, <1>6, NothingRead, Zenon
<1> QED BY <1>2, <1>3, <1>4, <1>5, <1>7 DEF ReplyInv

LEMMA AnswersAreSequences ==
    ASSUME NEW names \in Answers
    PROVE  names \in Seq(DOMAIN Records)
<1>1. PICK n \in 0 .. MaxObjects : names \in [1 .. n -> DOMAIN Records]
    BY Zenon DEF Answers
<1>2. n \in Nat
    BY SampleAssumption
<1> QED BY <1>1, <1>2

LEMMA SendBeginsHolds ==
    ASSUME ReplyInv, NEW error \in {0, 1}, NEW structed \in BOOLEAN, NEW names \in Answers,
           SendBegins(error, structed, names)
    PROVE  ReplyInv'
<1>1. /\ state = "none" /\ state' = "sending"
      /\ unwritten' = Preamble(error, structed, names)
      /\ objects' = Written(error, structed, names)
      /\ plan' = Reading(ClientPreamble(error, structed, names # <<>>), TRUE)
      /\ inStep' = Len(plan') /\ strayed' = strayed
      /\ wire' = wire /\ sent' = sent /\ log' = log
    BY Zenon DEF SendBegins
<1>2. whole' \in BOOLEAN
    <2>1. whole' \in (IF Len(names) <= CutObjects THEN BOOLEAN ELSE {TRUE})
        BY Zenon DEF SendBegins
    <2> QED BY <2>1
<1>3. sent = <<>> /\ log = <<>>
    <2>1. state # "arrived"
        BY <1>1
    <2> QED BY <1>1, <2>1, Zenon DEF ReplyInv, Phases
<1>4. PICK some \in BOOLEAN : some = (names # <<>>)
    OBVIOUS
<1>5. PICK on \in BOOLEAN : on = TRUE
    OBVIOUS
<1>6. names \in Seq(DOMAIN Records) /\ Len(names) \in Nat /\ (some <=> Len(names) # 0)
    <2>1. names \in Seq(DOMAIN Records)
        BY AnswersAreSequences
    <2>2. Len(names) \in Nat /\ (Len(names) = 0 <=> names = <<>>)
        BY <2>1, EmptySeq
    <2>3. some <=> names # <<>>
        BY <1>4
    <2> QED BY <2>1, <2>2, <2>3
<1>7. plan' = Reading(ClientPreamble(error, structed, some), on)
    BY <1>1, <1>4, <1>5
<1>8. Sound(unwritten') /\ Matches(plan', unwritten') /\ plan' \in Seq(ReadType)
    <2>1. /\ Sound(Preamble(error, structed, names))
          /\ Matches(Reading(ClientPreamble(error, structed, some), on), Preamble(error, structed, names))
          /\ Reading(ClientPreamble(error, structed, some), on) \in Seq(ReadType)
        BY <1>5, <1>6, PreambleMatch
    <2> QED BY <1>1, <1>7, <2>1
<1>9. unwritten' \in Seq(FieldType)
    BY <1>8, Zenon DEF Sound
<1>10. objects' \in Seq(DOMAIN Records)
    <2>1. <<>> \in Seq(DOMAIN Records)
        BY EmptyIs
    <2>2. names # <<>> => <<Head(names)>> \in Seq(DOMAIN Records)
        BY <1>6
    <2> QED BY <1>1, <1>6, <2>1, <2>2, Zenon DEF Written
<1>11. ReplyTypes'
    <2>1. sent' \in Seq(SentType) /\ log' \in Seq({})
        BY <1>1, <1>3, EmptyIs, Zenon
    <2>2. strayed' \in BOOLEAN
        BY <1>1, Zenon DEF ReplyInv, ReplyTypes
    <2> QED BY <1>2, <1>8, <1>9, <1>10, <2>1, <2>2, Zenon DEF ReplyTypes
<1>12. Phases'
    <2>1. state' # "none" /\ state' # "arrived"
        BY <1>1
    <2> QED BY <1>1, <1>3, <2>1, Zenon DEF Phases
<1>13. PlanMatches'
    <2>1. Fields' = unwritten'
        BY <1>1, <1>3, <1>9, FieldsBegin, Zenon DEF Fields
    <2>2. PICK n \in Nat : n = Len(plan')
        BY <1>8, LenProperties
    <2>3. n <= n /\ n = Len(unwritten')
        BY <1>8, <2>2 DEF Matches
    <2>4. KeepsStep(plan', unwritten', n, strayed')
        BY <1>8, <2>2, <2>3, Zenon DEF KeepsStep, Matches
    <2> QED BY <1>1, <1>8, <2>1, <2>2, <2>4, Zenon DEF PlanMatches
<1>14. WireHolds'
    BY <1>1 DEF ReplyInv, WireHolds, Place
<1>15. CursorStands' /\ FieldsComeBack' /\ AllIsRead'
    <2>1. state' # "arrived"
        BY <1>1
    <2> QED BY <1>1, <1>3, <2>1, NothingReadYet, Zenon
<1> QED BY <1>11, <1>12, <1>13, <1>14, <1>15 DEF ReplyInv

LEMMA SerializeHolds ==
    ASSUME ReplyInv, NEW v \in Variants, Serialize(v)
    PROVE  ReplyInv'
<1>1. /\ unwritten = <<>> /\ objects # <<>>
      /\ unwritten' = RecordFields(Head(objects), v)
      /\ plan' = plan \o RecordReads(Head(objects))
      /\ (strayed' <=> strayed \/ Head(objects) \in OutOfStep)
      /\ inStep' = (IF strayed' THEN inStep ELSE Len(plan'))
      /\ objects' = Tail(objects)
      /\ state' = state /\ wire' = wire /\ sent' = sent /\ whole' = whole /\ log' = log
    BY Zenon DEF Serialize
<1>stray. strayed' \in BOOLEAN
    BY Zenon DEF Serialize
<1>2. state # "none" /\ state # "arrived" /\ log = <<>>
    BY <1>1, Zenon DEF ReplyInv, Phases
<1>3. /\ objects \in Seq(DOMAIN Records) /\ sent \in Seq(SentType) /\ plan \in Seq(ReadType)
      /\ whole \in BOOLEAN /\ strayed \in BOOLEAN
    BY Zenon DEF ReplyInv, ReplyTypes
<1>4. PICK name : name = Head(objects)
    OBVIOUS
<1>5. name \in DOMAIN Records /\ Tail(objects) \in Seq(DOMAIN Records)
    BY <1>1, <1>3, <1>4
<1>6. /\ Sound(RecordFields(name, v)) /\ RecordReads(name) \in Seq(ReadType)
      /\ name \notin OutOfStep => Matches(RecordReads(name), RecordFields(name, v))
    BY <1>5, RecordFieldsMatch
<1>7. unwritten' = RecordFields(name, v) /\ plan' = plan \o RecordReads(name)
    BY <1>1, <1>4, Zenon
<1>8. unwritten' \in Seq(FieldType)
    BY <1>6, <1>7, Zenon DEF Sound
<1>9. Sound(Fields') /\ KeepsStep(plan', Fields', inStep', strayed') /\ plan' \in Seq(ReadType)
    <2>1. Sound(Fields) /\ KeepsStep(plan, Fields, inStep, strayed)
        BY Zenon DEF ReplyInv, PlanMatches
    <2>2. Fields' = Fields \o unwritten'
        BY <1>1, <1>3, <1>8, FieldsMore, Zenon DEF Fields
    <2>3. PICK s, n, st, st2, n2 :
             /\ s = Fields /\ n = inStep /\ st = strayed /\ st2 = strayed' /\ n2 = inStep'
        OBVIOUS
    <2>4. PICK g, t : g = RecordReads(name) /\ t = RecordFields(name, v)
        OBVIOUS
    <2>5. /\ st \in BOOLEAN /\ st2 \in BOOLEAN /\ (st => st2) /\ (~st2 => Matches(g, t))
          /\ n2 = IF st2 THEN n ELSE Len(plan \o g)
        BY <1>1, <1>stray, <1>3, <1>4, <1>6, <1>7, <2>3, <2>4, Zenon
    <2>6. Sound(s \o t) /\ KeepsStep(plan \o g, s \o t, n2, st2) /\ plan \o g \in Seq(ReadType)
        <3>1. Sound(s) /\ KeepsStep(plan, s, n, st) /\ g \in Seq(ReadType) /\ Sound(t)
            BY <1>6, <2>1, <2>3, <2>4, Zenon
        <3> QED BY <1>3, <2>5, <3>1, StepKept
    <2> QED BY <1>7, <2>2, <2>3, <2>4, <2>6, Zenon
<1>10. ReplyTypes'
    <2>1. sent' \in Seq(SentType) /\ log' \in Seq({}) /\ whole' \in BOOLEAN /\ objects' \in Seq(DOMAIN Records)
        BY <1>1, <1>2, <1>3, <1>5, EmptyIs, Zenon
    <2> QED BY <1>stray, <1>8, <1>9, <2>1, Zenon DEF ReplyTypes
<1>11. Phases'
    BY <1>1, <1>2, Zenon DEF Phases
<1>12. PlanMatches'
    BY <1>9, Zenon DEF PlanMatches
<1>13. WireHolds'
    BY <1>1 DEF ReplyInv, WireHolds, Place
<1>14. CursorStands' /\ FieldsComeBack' /\ AllIsRead'
    BY <1>1, <1>2, NothingReadYet, Zenon
<1> QED BY <1>10, <1>11, <1>12, <1>13, <1>14 DEF ReplyInv

LEMMA PlannedField ==
    ASSUME ReplyInv, NEW i \in 1 .. Len(sent)
    PROVE  /\ sent[i].at \in Nat /\ WellFormed(sent[i].field)
           /\ i <= inStep => i <= Len(plan) /\ Agrees(plan[i], sent[i].field)
<1>1. sent \in Seq(SentType) /\ unwritten \in Seq(FieldType) /\ plan \in Seq(ReadType)
    BY Zenon DEF ReplyInv, ReplyTypes
<1>2. sent[i] \in SentType /\ Len(sent) \in Nat /\ Len(unwritten) \in Nat /\ Len(plan) \in Nat
    BY <1>1, ElementOfSeq, LenProperties
<1>3. sent[i].at \in Nat
    BY <1>2 DEF SentType
<1>4. PICK t : t = Fields
    OBVIOUS
<1>5. Len(t) = Len(sent) + Len(unwritten) /\ \A j \in 1 .. Len(sent) : t[j] = sent[j].field
    BY <1>1, <1>4, FieldsAre, Zenon DEF Fields
<1>6. i \in 1 .. Len(t)
    BY <1>2, <1>5
<1>7. Sound(t) /\ KeepsStep(plan, t, inStep, strayed)
    BY <1>4, Zenon DEF ReplyInv, PlanMatches
<1>8. WellFormed(sent[i].field)
    BY <1>5, <1>6, <1>7, Zenon DEF Sound
<1>9. ASSUME i <= inStep PROVE i <= Len(plan) /\ Agrees(plan[i], sent[i].field)
    <2>1. inStep \in Nat /\ inStep <= Len(plan) /\ \A j \in 1 .. inStep : Agrees(plan[j], t[j])
        BY <1>7, Zenon DEF KeepsStep
    <2>2. i \in 1 .. inStep /\ i <= Len(plan)
        BY <1>2, <1>9, <2>1
    <2> QED BY <1>5, <2>1, <2>2, Zenon
<1> QED BY <1>3, <1>8, <1>9

LEMMA PlanIsLong ==
    ASSUME ReplyInv, unwritten = <<>>
    PROVE  /\ inStep \in Nat /\ inStep <= Len(sent)
           /\ ~strayed => Len(plan) = Len(sent) /\ inStep = Len(sent)
<1>1. sent \in Seq(SentType) /\ unwritten \in Seq(FieldType)
    BY Zenon DEF ReplyInv, ReplyTypes
<1>2. PICK t : t = Fields
    OBVIOUS
<1>3. Len(t) = Len(sent) + Len(unwritten)
    BY <1>1, <1>2, FieldsAre, Zenon DEF Fields
<1>4. Len(t) = Len(sent)
    <2>1. Len(sent) \in Nat /\ Len(unwritten) = 0
        BY <1>1, LenProperties, EmptyIs
    <2> QED BY <1>3, <2>1
<1>5. KeepsStep(plan, t, inStep, strayed)
    BY <1>2, Zenon DEF ReplyInv, PlanMatches
<1> QED BY <1>4, <1>5, Zenon DEF KeepsStep

LEMMA WriteNextHolds ==
    ASSUME ReplyInv, WriteNext
    PROVE  ReplyInv'
<1>1. /\ unwritten # <<>> /\ wire' = WriteField(wire, Head(unwritten))
      /\ sent' = Append(sent, [field |-> Head(unwritten), at |-> wire.at])
      /\ unwritten' = Tail(unwritten)
      /\ state' = state /\ objects' = objects /\ plan' = plan /\ strayed' = strayed /\ inStep' = inStep
      /\ whole' = whole /\ log' = log
    BY Zenon DEF WriteNext, client
<1>2. state # "none" /\ state # "arrived" /\ log = <<>>
    BY <1>1, Zenon DEF ReplyInv, Phases
<1>3. /\ unwritten \in Seq(FieldType) /\ objects \in Seq(DOMAIN Records) /\ sent \in Seq(SentType)
      /\ plan \in Seq(ReadType) /\ strayed \in BOOLEAN /\ whole \in BOOLEAN
    BY Zenon DEF ReplyInv, ReplyTypes
<1>4. PICK q : q = wire.bytes
    OBVIOUS
<1>5. q \in Seq(Nat) /\ wire = At(q, Len(q)) /\ wire.at = Len(q) /\ Len(q) \in Nat
    <2>1. q \in Seq(Nat) /\ wire = At(q, Len(q))
        BY <1>4, Zenon DEF ReplyInv, WireHolds
    <2>2. wire.at = Len(q)
        BY <2>1, AtIs, Zenon
    <2> QED BY <2>1, <2>2, LenProperties
<1>6. PICK f : f = Head(unwritten)
    OBVIOUS
<1>7. f \in FieldType /\ f = unwritten[1] /\ 1 \in 1 .. Len(unwritten) /\ Tail(unwritten) \in Seq(FieldType)
    BY <1>1, <1>3, <1>6
<1>8. WellFormed(f)
    <2>1. PICK t : t = Fields
        OBVIOUS
    <2>2. /\ Len(t) = Len(sent) + Len(unwritten)
          /\ \A i \in 1 .. Len(unwritten) : t[Len(sent) + i] = unwritten[i]
        BY <1>3, <2>1, FieldsAre, Zenon DEF Fields
    <2>3. Len(sent) + 1 \in 1 .. Len(t)
        <3>1. Len(sent) \in Nat /\ Len(unwritten) \in Nat
            BY <1>3, LenProperties
        <3> QED BY <1>7, <2>2, <3>1
    <2>4. Sound(t)
        BY <2>1, Zenon DEF ReplyInv, PlanMatches
    <2> QED BY <1>7, <2>2, <2>3, <2>4, Zenon DEF Sound
<1>9. PICK e : e = [field |-> f, at |-> Len(q)]
    OBVIOUS
<1>10. e \in SentType /\ e.field = f /\ e.at = Len(q)
    BY <1>5, <1>7, <1>9 DEF SentType
<1>11. PICK c : c = Encoded(f)
    OBVIOUS
<1>12. c \in Seq(Nat)
    BY <1>8, <1>11, EncodedBytes
<1>13. PICK w : w = q \o c
    OBVIOUS
<1>14. wire' = At(w, Len(q) + Len(c)) /\ Len(w) = Len(q) + Len(c) /\ w \in Seq(Nat)
    <2>1. WriteField(At(q, Len(q)), f) = With(q, Len(q), Encoded(f))
        BY <1>5, <1>8, FieldWritten
    <2>2. w \in Seq(Nat) /\ Len(w) = Len(q) + Len(c)
        BY <1>5, <1>12, <1>13, Joined, Zenon
    <2> QED BY <1>1, <1>5, <1>6, <1>11, <1>13, <2>1, <2>2, Zenon DEF With
<1>15. wire'.bytes = w /\ wire' = At(w, Len(w))
    BY <1>14, AtIs, Zenon
<1>16. sent' = Append(sent, e)
    BY <1>1, <1>5, <1>6, <1>9, Zenon
<1>17. PICK n \in Nat : n = Len(sent)
    BY <1>3, LenProperties
<1>18. /\ sent' \in Seq(SentType) /\ Len(sent') = n + 1 /\ sent'[n + 1] = e
       /\ \A i \in 1 .. n : sent'[i] = sent[i]
    BY <1>3, <1>10, <1>16, <1>17
<1>19. ReplyTypes'
    <2>1. /\ log' \in Seq({}) /\ objects' \in Seq(DOMAIN Records) /\ plan' \in Seq(ReadType)
          /\ strayed' \in BOOLEAN /\ whole' \in BOOLEAN
        BY <1>1, <1>2, <1>3, EmptyIs, Zenon
    <2>2. unwritten' \in Seq(FieldType)
        BY <1>1, <1>7, Zenon
    <2> QED BY <1>18, <2>1, <2>2, Zenon DEF ReplyTypes
<1>20. Phases'
    BY <1>1, <1>2, Zenon DEF Phases
<1>21. PlanMatches'
    <2>1. FieldsOf(Append(sent, e), Tail(unwritten)) = FieldsOf(sent, unwritten)
        BY <1>1, <1>3, <1>6, <1>10, FieldsMove
    <2>2. Fields' = Fields
        BY <1>1, <1>16, <2>1, Zenon DEF Fields
    <2> QED BY <1>1, <2>2, Zenon DEF ReplyInv, PlanMatches
<1>22. Place(1)' = 0
    <2>1. Place(1) = 0
        BY Zenon DEF ReplyInv, WireHolds
    <2>2. CASE n = 0
        BY <1>4, <1>10, <1>17, <1>18, <2>1, <2>2 DEF Place
    <2>3. CASE n # 0
        <3>1. 1 \in 1 .. n /\ 1 <= n /\ 1 <= n + 1
            BY <2>3
        <3>2. Place(1) = sent[1].at
            BY <1>17, <3>1, Zenon DEF Place
        <3>3. Place(1)' = sent'[1].at
            BY <1>18, <3>1, Zenon DEF Place
        <3> QED BY <1>18, <2>1, <3>1, <3>2, <3>3, Zenon
    <2> QED BY <2>2, <2>3
<1>23. ASSUME NEW i \in 1 .. n
       PROVE  Stands(w, sent'[i]) /\ Place(i + 1)' = sent'[i].at + Len(Encoded(sent'[i].field))
    <2>1. /\ Stands(q, sent[i]) /\ Place(i + 1) = sent[i].at + Len(Encoded(sent[i].field))
        BY <1>4, <1>17, Zenon DEF ReplyInv, WireHolds
    <2>2. sent[i].at \in Nat /\ WellFormed(sent[i].field)
        BY <1>17, PlannedField
    <2>3. Stands(w, sent[i])
        BY <1>5, <1>12, <1>13, <2>1, <2>2, EncodedBytes, StandsLonger
    <2>4. Place(i + 1)' = Place(i + 1)
        <3>1. CASE i = n
            BY <1>4, <1>10, <1>17, <1>18, <3>1 DEF Place
        <3>2. CASE i # n
            <4>1. i + 1 \in 1 .. n /\ i + 1 <= n /\ i + 1 <= n + 1
                BY <3>2
            <4>2. Place(i + 1) = sent[i + 1].at
                BY <1>17, <4>1, Zenon DEF Place
            <4>3. Place(i + 1)' = sent'[i + 1].at
                BY <1>18, <4>1, Zenon DEF Place
            <4> QED BY <1>18, <4>1, <4>2, <4>3, Zenon
        <3> QED BY <3>1, <3>2
    <2> QED BY <1>18, <2>1, <2>3, <2>4, Zenon
<1>24. Stands(w, e) /\ Place(n + 1 + 1)' = Len(q) + Len(c)
    <2>1. Stands(w, e)
        BY <1>5, <1>9, <1>11, <1>12, <1>13, WrittenBehind, Zenon
    <2>2. ~(n + 1 + 1 <= Len(sent'))
        BY <1>18
    <2>3. Place(n + 1 + 1)' = Len(w)
        BY <1>15, <2>2, Zenon DEF Place
    <2> QED BY <1>14, <2>1, <2>3, Zenon
<1>25. WireHolds'
    <2>1. \A i \in 1 .. n + 1 : i \in 1 .. n \/ i = n + 1
        OBVIOUS
    <2>2. e.at + Len(Encoded(e.field)) = Len(q) + Len(c)
        BY <1>10, <1>11, Zenon
    <2>3. \A i \in 1 .. n + 1 : /\ Stands(w, sent'[i])
                                /\ Place(i + 1)' = sent'[i].at + Len(Encoded(sent'[i].field))
        BY <1>18, <1>23, <1>24, <2>1, <2>2, Zenon
    <2> QED BY <1>14, <1>15, <1>18, <1>22, <2>3, Zenon DEF WireHolds
<1>26. CursorStands' /\ FieldsComeBack' /\ AllIsRead'
    BY <1>1, <1>2, NothingReadYet, Zenon
<1> QED BY <1>19, <1>20, <1>21, <1>25, <1>26 DEF ReplyInv

LEMMA ArriveHolds ==
    ASSUME ReplyInv, Arrive
    PROVE  ReplyInv'
<1>1. /\ state = "sending" /\ unwritten = <<>> /\ objects = <<>> /\ state' = "arrived"
      /\ unwritten' = unwritten /\ objects' = objects /\ wire' = wire /\ sent' = sent
      /\ plan' = plan /\ strayed' = strayed /\ inStep' = inStep /\ whole' = whole /\ log' = log
    BY Zenon DEF Arrive, writer, client
<1>2. PICK n \in 0 .. Len(wire.bytes) : /\ whole <=> n = Len(wire.bytes)
                                       /\ buffer' = Buffer(SubSeq(wire.bytes, 1, n))
    BY Zenon DEF Arrive
<1>3. log = <<>>
    <2>1. state # "arrived"
        BY <1>1
    <2> QED BY <2>1, Zenon DEF ReplyInv, Phases
<1>4. ReplyTypes' /\ PlanMatches' /\ WireHolds'
    <2>1. ReplyTypes'
        BY <1>1, Zenon DEF ReplyInv, ReplyTypes
    <2>2. PlanMatches'
        BY <1>1, Zenon DEF ReplyInv, PlanMatches, Fields
    <2>3. WireHolds'
        BY <1>1 DEF ReplyInv, WireHolds, Place
    <2> QED BY <2>1, <2>2, <2>3
<1>5. Phases'
    <2>1. state' # "none"
        BY <1>1
    <2> QED BY <1>1, <2>1, Zenon DEF Phases
<1>6. PICK q : q = wire.bytes
    OBVIOUS
<1>7. q \in Seq(Nat)
    BY <1>6, Zenon DEF ReplyInv, WireHolds
<1>8. PICK p : p = SubSeq(q, 1, n)
    OBVIOUS
<1>9. p \in Seq(Nat) /\ Len(p) = n /\ \A i \in 1 .. n : p[i] = q[i]
    BY <1>2, <1>6, <1>7, <1>8
<1>10. n = Len(q) => p = q
    BY <1>7, <1>9, SameSequence
<1>11. Cut(wire'.bytes, p) /\ (whole' => p = wire'.bytes)
    <2>1. Len(p) <= Len(q)
        BY <1>2, <1>6, <1>9
    <2>2. Cut(q, p)
        BY <1>9, <2>1, Zenon DEF Cut
    <2>3. whole => p = q
        BY <1>2, <1>6, <1>10, Zenon
    <2> QED BY <1>1, <1>6, <2>2, <2>3, Zenon
<1>12. buffer' = At(p, 0)
    BY <1>2, <1>6, <1>8, Zenon DEF Buffer, At
<1>13. Len(log') = 0 /\ DOMAIN log' = {} /\ Place(Len(log) + 1)' = 0
    <2>1. Len(log') = 0 /\ DOMAIN log' = {} /\ Len(log') + 1 = 1
        BY <1>1, <1>3
    <2>2. Place(1)' = 0
        BY <1>4, Zenon DEF WireHolds
    <2>3. Place(Len(log) + 1)' = Place(1)'
        BY <2>1, Zenon DEF Place
    <2> QED BY <2>1, <2>2, <2>3, Zenon
<1>14. CursorStands'
    BY <1>11, <1>12, <1>13, Zenon DEF CursorStands
<1>15. FieldsComeBack'
    BY <1>13, Zenon DEF FieldsComeBack
<1>16. AllIsRead'
    <2>1. Len(sent') \in Nat /\ inStep' \in Nat
        BY <1>4, LenProperties DEF ReplyTypes, PlanMatches, KeepsStep
    <2>2. \A i \in 1 .. 0 : FALSE
        OBVIOUS
    <2>3. 0 <= Len(sent') /\ 0 <= inStep'
        BY <2>1
    <2> QED BY <1>13, <2>2, <2>3, Zenon DEF AllIsRead, Undisturbed
<1> QED BY <1>4, <1>5, <1>14, <1>15, <1>16 DEF ReplyInv

(* A read of the field that was written there, or of what is left of it.      *)
LEMMA ReadOfField ==
    ASSUME NEW q \in Seq(Nat), NEW p, Cut(q, p), NEW e, e.at \in Nat, NEW f, f = e.field, WellFormed(f),
           Stands(q, e), NEW g, Agrees(g, f),
           NEW m \in Nat, m = e.at \/ m = Len(p) + 1, NEW r \in ReadField(At(p, m), g)
    PROVE  \/ r = Done(f.val, At(p, e.at + Len(Encoded(f))))
           \/ (m # e.at \/ Len(p) < Len(q)) /\ (~r.ok \/ CutShort(f, p, r))
<1>1. p \in Seq(Nat) /\ Len(p) <= Len(q) /\ \A i \in 1 .. Len(p) : p[i] = q[i]
    BY Zenon DEF Cut
<1>2. PICK c \in Seq(Nat) : c = Encoded(f)
    BY EncodedBytes
<1>3. e.at + Len(c) <= Len(q) /\ Begins(q, e.at, c)
    BY <1>2, Zenon DEF Stands
<1>4. Begins(p, m, c)
    <2>1. CASE m = e.at
        BY <1>1, <1>3, <2>1, BeginsShorter
    <2>2. CASE m = Len(p) + 1
        <3>1. \A i \in 1 .. Len(c) : ~(m + i <= Len(p))
            BY <1>1, <2>2
        <3> QED BY <3>1, Zenon DEF Begins
    <2> QED BY <2>1, <2>2
<1>5. Back(f, p, m, r)
    BY <1>1, <1>2, <1>4, FieldBack
<1>6. /\ m + Len(c) <= Len(p) => r = Done(f.val, At(p, m + Len(c)))
      /\ m + Len(c) > Len(p) => ~r.ok \/ CutShort(f, p, r)
    BY <1>2, <1>5, Zenon DEF Back
<1>7. m + Len(c) <= Len(p) => m = e.at
    BY <1>1, <1>2
<1>8. m + Len(c) > Len(p) => m # e.at \/ Len(p) < Len(q)
    BY <1>1, <1>2, <1>3
<1>9. m + Len(c) <= Len(p) \/ m + Len(c) > Len(p)
    BY <1>1, <1>2
<1> QED BY <1>2, <1>6, <1>7, <1>8, <1>9, Zenon

(* The place of the next field is where the client stands, unless it has read *)
(* past the end of what it has.                                               *)
LEMMA NextRead ==
    ASSUME ReplyInv, state = "arrived", Undisturbed, NEW i, i = Len(log) + 1, i \in 1 .. Len(sent),
           i <= inStep, NEW r \in ReadField(buffer, plan[i]), NEW f, f = sent[i].field
    PROVE  /\ r.ok => ComesBack(r, f) /\ plan[i].member = f.member
           /\ r.ok /\ r.inside =>
                 \E p : /\ Cut(wire.bytes, p) /\ (whole => p = wire.bytes)
                        /\ (r.b = At(p, Place(i + 1)) \/ (~whole /\ r.b = At(p, Len(p) + 1)))
           /\ whole => r.ok /\ r.inside
<1>1. PICK p : /\ Cut(wire.bytes, p) /\ (whole => p = wire.bytes)
               /\ (buffer = At(p, Place(i)) \/ (~whole /\ buffer = At(p, Len(p) + 1)))
    BY Zenon DEF ReplyInv, CursorStands
<1>2. PICK q : q = wire.bytes
    OBVIOUS
<1>3. q \in Seq(Nat)
    BY <1>2, Zenon DEF ReplyInv, WireHolds
<1>4. PICK e : e = sent[i]
    OBVIOUS
<1>5. e.at \in Nat /\ WellFormed(f) /\ f = e.field /\ Agrees(plan[i], f)
    BY <1>4, PlannedField
<1>6. Stands(q, e) /\ Place(i + 1) = e.at + Len(Encoded(f))
    <2>1. Stands(wire.bytes, sent[i]) /\ Place(i + 1) = sent[i].at + Len(Encoded(sent[i].field))
        BY Zenon DEF ReplyInv, WireHolds
    <2> QED BY <1>2, <1>4, <2>1, Zenon
<1>7. Place(i) = e.at
    <2>1. i <= Len(sent)
        BY LenProperties DEF ReplyInv, ReplyTypes
    <2> QED BY <1>4, <2>1, Zenon DEF Place
<1>8. Cut(q, p) /\ p \in Seq(Nat) /\ Len(p) + 1 \in Nat
    <2>1. Cut(q, p) /\ p \in Seq(Nat)
        BY <1>1, <1>2, Zenon DEF Cut
    <2>2. Len(p) + 1 \in Nat
        BY <2>1, LenProperties
    <2> QED BY <2>1, <2>2
<1>9. PICK m \in Nat : buffer = At(p, m) /\ (m = e.at \/ (~whole /\ m = Len(p) + 1))
    BY <1>1, <1>5, <1>7, <1>8, Zenon
<1>10. \/ r = Done(f.val, At(p, e.at + Len(Encoded(f))))
       \/ (m # e.at \/ Len(p) < Len(q)) /\ (~r.ok \/ CutShort(f, p, r))
    <2>1. r \in ReadField(At(p, m), plan[i])
        BY <1>9, Zenon
    <2> QED BY <1>3, <1>5, <1>6, <1>8, <1>9, <2>1, ReadOfField
<1>same. plan[i].member = f.member
    BY <1>5, Zenon DEF Agrees
<1>11. CASE r = Done(f.val, At(p, e.at + Len(Encoded(f))))
    <2>1. PICK b, v : b = At(p, Place(i + 1)) /\ v = f.val
        OBVIOUS
    <2>2. r = Done(v, b)
        BY <1>6, <1>11, <2>1, Zenon
    <2>3. r.ok /\ r.val = v /\ r.b = b /\ r.inside
        BY <2>2, ResultIs
    <2> QED BY <1>1, <1>same, <2>1, <2>3, Zenon DEF ComesBack
<1>13. CASE (m # e.at \/ Len(p) < Len(q)) /\ (~r.ok \/ CutShort(f, p, r))
    <2>1. ~whole
        <3>1. ~whole \/ (m = e.at /\ p = q)
            BY <1>1, <1>2, <1>9, Zenon
        <3>2. p = q => ~(Len(p) < Len(q))
            BY <1>8, LenProperties
        <3> QED BY <1>13, <3>1, <3>2, Zenon
    <2>2. IsPrefix(<<>>, f.val)
        <3>1. f.val \in Seq(Nat)
            BY <1>5, Zenon DEF WellFormed, IsField
        <3>2. IsPrefix(SubSeq(f.val, 1, 0), f.val)
            BY <3>1, FrontIsPrefix
        <3>3. SubSeq(f.val, 1, 0) = <<>>
            BY <3>1
        <3> QED BY <3>2, <3>3, Zenon
    <2>3. r.ok => ComesBack(r, f)
        BY <1>13, <2>1, <2>2, Zenon DEF CutShort, ComesBack
    <2>4. r.ok /\ r.inside => r.b = At(p, Len(p) + 1)
        BY <1>13, Zenon DEF CutShort
    <2> QED BY <1>1, <1>same, <2>1, <2>3, <2>4, Zenon
<1> QED BY <1>10, <1>11, <1>13, Zenon

LEMMA ReadNextHolds ==
    ASSUME ReplyInv, ReadNext
    PROVE  ReplyInv'
<1>1. /\ state = "arrived" /\ state' = state /\ Len(log) < Len(plan)
      /\ \A j \in DOMAIN log : log[j].inside
      /\ unwritten' = unwritten /\ objects' = objects /\ wire' = wire /\ sent' = sent
      /\ plan' = plan /\ strayed' = strayed /\ inStep' = inStep /\ whole' = whole
    BY Zenon DEF ReadNext, MoreToRead, writer, client
<1>2. PICK i : i = Len(log) + 1
    OBVIOUS
<1>3. PICK r \in ReadField(buffer, plan[i]) :
         buffer' = r.b /\ log' = Append(log, [ok |-> r.ok, val |-> r.val, inside |-> r.inside])
    BY <1>2, Zenon DEF ReadNext
<1>4. PICK x : x = [ok |-> r.ok, val |-> r.val, inside |-> r.inside]
    OBVIOUS
<1>5. (x.ok <=> r.ok) /\ x.val = r.val /\ (x.inside <=> r.inside)
    BY <1>4, Zenon
<1>6. PICK S : log \in Seq(S)
    BY Zenon DEF ReplyInv, ReplyTypes
<1>7. PICK n \in Nat : n = Len(log)
    BY <1>6, LenProperties
<1>8. /\ log' \in Seq(S \cup {x}) /\ Len(log') = i /\ i = n + 1 /\ log'[i] = x
      /\ \A j \in 1 .. n : log'[j] = log[j]
    <2>1. /\ Append(log, x) \in Seq(S \cup {x}) /\ Len(Append(log, x)) = Len(log) + 1
          /\ \A j \in 1 .. Len(log) : Append(log, x)[j] = log[j]
          /\ Append(log, x)[Len(log) + 1] = x
        BY <1>6, Appended
    <2> QED BY <1>2, <1>3, <1>4, <1>7, <2>1, Zenon
<1>9. DOMAIN log = 1 .. n /\ DOMAIN log' = 1 .. i
    BY <1>6, <1>7, <1>8
<1>10. i \in 1 .. i /\ \A j \in 1 .. i : j \in 1 .. n \/ j = i
    BY <1>7, <1>8
<1>11. unwritten = <<>> /\ sent \in Seq(SentType)
    BY <1>1, Zenon DEF ReplyInv, Phases, ReplyTypes
<1>12. Len(sent) \in Nat
    BY <1>11, LenProperties
<1>13. ReplyTypes' /\ Phases' /\ PlanMatches' /\ WireHolds'
    <2>1. ReplyTypes'
        BY <1>1, <1>8, Zenon DEF ReplyInv, ReplyTypes
    <2>2. Phases'
        <3>1. state' # "none"
            BY <1>1
        <3> QED BY <1>1, <3>1, Zenon DEF ReplyInv, Phases
    <2>3. PlanMatches'
        BY <1>1, Zenon DEF ReplyInv, PlanMatches, Fields
    <2>4. WireHolds'
        BY <1>1 DEF ReplyInv, WireHolds, Place
    <2> QED BY <2>1, <2>2, <2>3, <2>4
<1>step. inStep \in Nat /\ inStep <= Len(sent) /\ (~strayed => Len(plan) = Len(sent) /\ inStep = Len(sent))
    BY <1>11, PlanIsLong
<1>14. ASSUME i <= inStep, \A j \in 1 .. n : log[j].ok
       PROVE  Undisturbed /\ i \in 1 .. Len(sent)
    <2>1. Len(log) <= Len(sent) /\ Len(log) <= inStep /\ i \in 1 .. Len(sent)
        BY <1>7, <1>8, <1>12, <1>step, <1>14
    <2> QED BY <1>1, <1>7, <1>9, <1>14, <2>1, Zenon DEF Undisturbed
<1>15. PICK f : f = sent[i].field
    OBVIOUS
<1>16. ASSUME Undisturbed, i \in 1 .. Len(sent), i <= inStep
       PROVE  /\ r.ok => ComesBack(r, f) /\ plan[i].member = f.member
              /\ r.ok /\ r.inside =>
                    \E p : /\ Cut(wire.bytes, p) /\ (whole => p = wire.bytes)
                           /\ (r.b = At(p, Place(i + 1)) \/ (~whole /\ r.b = At(p, Len(p) + 1)))
              /\ whole => r.ok /\ r.inside
    BY <1>1, <1>2, <1>15, <1>16, NextRead
<1>17. \A j \in 1 .. n : j \in 1 .. i
    BY <1>8
<1>18. CursorStands'
    <2>1. ASSUME Undisturbed'
          PROVE  \E p : /\ Cut(wire.bytes, p) /\ (whole => p = wire.bytes)
                        /\ (buffer' = At(p, Place(i + 1)) \/ (~whole /\ buffer' = At(p, Len(p) + 1)))
        <3>1. i <= inStep /\ \A j \in 1 .. i : log'[j].ok /\ log'[j].inside
            BY <1>1, <1>8, <2>1, Zenon DEF Undisturbed
        <3>2. \A j \in 1 .. n : log[j].ok
            BY <1>8, <1>17, <3>1, Zenon
        <3>3. r.ok /\ r.inside
            BY <1>5, <1>8, <1>10, <3>1, Zenon
        <3> QED BY <1>3, <1>14, <1>16, <3>1, <3>2, <3>3, Zenon
    <2>2. Place(Len(log) + 1)' = Place(i + 1)
        BY <1>1, <1>8, Zenon DEF Place
    <2> QED BY <1>1, <2>1, <2>2, Zenon DEF CursorStands
<1>19. FieldsComeBack'
    <2>1. ASSUME NEW j \in 1 .. i, j <= inStep, \A k \in 1 .. j : log'[k].ok
          PROVE  j <= Len(sent) /\ plan[j].member = sent[j].field.member /\ ComesBack(log'[j], sent[j].field)
        <3>1. CASE j \in 1 .. n
            <4>1. \A k \in 1 .. j : k \in 1 .. n
                BY <1>7, <3>1
            <4>2. \A k \in 1 .. j : log[k].ok
                BY <1>8, <2>1, <4>1, Zenon
            <4>3. /\ j <= Len(sent) /\ plan[j].member = sent[j].field.member
                  /\ ComesBack(log[j], sent[j].field)
                BY <1>9, <2>1, <3>1, <4>2, Zenon DEF ReplyInv, FieldsComeBack
            <4> QED BY <1>8, <3>1, <4>3, Zenon
        <3>2. CASE j = i
            <4>1. \A k \in 1 .. n : log[k].ok
                BY <1>8, <1>17, <2>1, <3>2, Zenon
            <4>2. Undisturbed /\ i \in 1 .. Len(sent) /\ i <= inStep
                BY <1>14, <2>1, <3>2, <4>1, Zenon
            <4>3. r.ok
                BY <1>5, <1>8, <1>10, <2>1, <3>2, Zenon
            <4>4. ComesBack(r, f) /\ plan[i].member = f.member
                BY <1>16, <4>2, <4>3, Zenon
            <4>5. ComesBack(x, f)
                BY <1>5, <4>4, Zenon DEF ComesBack
            <4>6. i <= Len(sent)
                BY <1>12, <4>2
            <4> QED BY <1>8, <1>15, <3>2, <4>4, <4>5, <4>6, Zenon
        <3> QED BY <1>10, <3>1, <3>2, Zenon
    <2> QED BY <1>1, <1>9, <2>1, Zenon DEF FieldsComeBack, ComesBack
<1>20. AllIsRead'
    <2>1. ASSUME whole, ~strayed PROVE Undisturbed'
        <3>1. Undisturbed
            BY <1>1, <2>1, Zenon DEF ReplyInv, AllIsRead
        <3>2. Len(plan) = Len(sent) /\ inStep = Len(sent)
            BY <1>step, <2>1
        <3>3. i <= Len(sent) /\ i <= inStep /\ i \in 1 .. Len(sent)
            BY <1>1, <1>7, <1>8, <1>12, <3>2
        <3>4. r.ok /\ r.inside
            BY <1>16, <2>1, <3>1, <3>3, Zenon
        <3>5. \A j \in 1 .. n : log'[j].ok /\ log'[j].inside
            BY <1>7, <1>8, <3>1, Zenon DEF Undisturbed
        <3>6. \A j \in 1 .. i : log'[j].ok /\ log'[j].inside
            BY <1>5, <1>8, <1>10, <3>4, <3>5, Zenon
        <3> QED BY <1>1, <1>8, <3>3, <3>6, Zenon DEF Undisturbed
    <2> QED BY <1>1, <2>1, Zenon DEF AllIsRead
<1> QED BY <1>13, <1>18, <1>19, <1>20 DEF ReplyInv

LEMMA ReplyInvHolds == ReplySpec => []ReplyInv
<1>1. ReplyInit => ReplyInv
    BY InitHolds
<1>2. ReplyInv /\ [ReplyNext]_replyVars => ReplyInv'
    <2>1. ASSUME ReplyInv, UNCHANGED replyVars PROVE ReplyInv'
        BY <2>1, Zenon DEF replyVars, writer, client, ReplyInv, ReplyTypes, Phases, PlanMatches, Fields,
                           WireHolds, Place, CursorStands, Undisturbed, FieldsComeBack, ComesBack, AllIsRead
    <2>2. ASSUME ReplyInv, ReplyNext PROVE ReplyInv'
        BY <2>2, SendBeginsHolds, SerializeHolds, WriteNextHolds, ArriveHolds, ReadNextHolds, Zenon DEF ReplyNext
    <2> QED BY <2>1, <2>2
<1> QED BY <1>1, <1>2, PTL DEF ReplySpec

(* However many records service_reply::send writes and wherever the bytes are *)
(* cut: until the first read that fails, and in front of the first record     *)
(* whose deserialize does not read what its serialize wrote, a value that is  *)
(* read into a member is the one that was written from that member.           *)
THEOREM FieldsAreKept == ReplySpec => []FieldsComeBack
<1>1. ReplyInv => FieldsComeBack
    BY DEF ReplyInv
<1> QED BY <1>1, ReplyInvHolds, PTL

(* The counts that service_reply::send writes are those of the records behind *)
(* them: a client that gets the whole of an answer without a record out of    *)
(* step reads it to its last byte, and none of its reads fails.               *)
THEOREM AnswersAreUsedUp == ReplySpec => []AnswerIsUsedUp
<1>1. ASSUME ReplyInv PROVE AnswerIsUsedUp
    <2>1. SUFFICES ASSUME state = "arrived", whole, ~MoreToRead, ~strayed
                   PROVE  /\ buffer.at = Len(buffer.bytes)
                          /\ \A i \in DOMAIN log : log[i].ok
        BY Zenon DEF AnswerIsUsedUp
    <2>2. Undisturbed
        BY <1>1, <2>1, Zenon DEF ReplyInv, AllIsRead
    <2>3. unwritten = <<>> /\ sent \in Seq(SentType)
        BY <1>1, <2>1, Zenon DEF ReplyInv, Phases, ReplyTypes
    <2>4. Len(plan) = Len(sent)
        BY <1>1, <2>1, <2>3, PlanIsLong
    <2>5. PICK S : log \in Seq(S)
        BY <1>1, Zenon DEF ReplyInv, ReplyTypes
    <2>6. DOMAIN log = 1 .. Len(log) /\ Len(log) \in Nat /\ Len(sent) \in Nat
        BY <2>3, <2>5, LenProperties
    <2>7. \A i \in DOMAIN log : log[i].ok /\ log[i].inside
        BY <2>2, <2>6, Zenon DEF Undisturbed
    <2>8. Len(log) = Len(sent)
        <3>1. ~(Len(log) < Len(plan))
            BY <2>1, <2>7, Zenon DEF MoreToRead
        <3>2. Len(log) <= Len(sent)
            BY <2>2, Zenon DEF Undisturbed
        <3> QED BY <2>4, <2>6, <3>1, <3>2
    <2>9. buffer = At(wire.bytes, Place(Len(log) + 1))
        BY <1>1, <2>1, <2>2, Zenon DEF ReplyInv, CursorStands
    <2>10. Place(Len(log) + 1) = Len(wire.bytes)
        <3>1. ~(Len(log) + 1 <= Len(sent))
            BY <2>6, <2>8
        <3> QED BY <3>1, Zenon DEF Place
    <2>11. buffer.at = Len(buffer.bytes)
        <3>1. PICK w : w = wire.bytes
            OBVIOUS
        <3>2. buffer = At(w, Len(w))
            BY <2>9, <2>10, <3>1, Zenon
        <3>3. At(w, Len(w)).at = Len(w) /\ At(w, Len(w)).bytes = w
            BY AtIs
        <3> QED BY <3>2, <3>3, Zenon
    <2> QED BY <2>7, <2>11
<1> QED BY <1>1, ReplyInvHolds, PTL
==============================================================================
