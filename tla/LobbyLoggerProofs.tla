------------------------- MODULE LobbyLoggerProofs --------------------------
(* Theorems about LobbySession, for any number of messages, and about Logger, *)
(* for any games, threads, files and keys.  The two components have nothing   *)
(* to do with each other; they share a module of proofs.                      *)
EXTENDS LobbySession, Logger, SequenceTheorems, FiniteSetTheorems, TLAPS

(* What is hashed: the messages of a packet, or the acknowledgement.          *)
Kinds == {"header", "auth", "task", "zero", "short", "unknown"}
PartRecords == [kind : Kinds, from : Sockets, n : Nat]
Entries == {Ack} \cup Seq(PartRecords)

Messages == [kind : Kinds, from : Sockets, n : Nat, key : Seq(Entries)]
Packets == {p \in Seq(Messages) : p # <<>>}
Replies == [kind : {"zero", "ack"}] \cup [kind : {"done"}, key : Seq(Entries)]
             \cup [kind : {"task"}, key : Seq(Entries), count : Nat, task : Nat]
States == {"out", "hello", "acked", "auth", "ready", "refused"}

SessionTypes ==
    /\ packetBuffer \in Seq(Entries) /\ keys \in Seq(Entries) /\ msgCount \in Nat
    /\ inQueue \in Seq(Packets) /\ outQueue \in Seq(Replies)
    /\ state \in [Sockets -> States] /\ transcript \in [Sockets -> Seq(Entries)]
    /\ sentCount \in Nat /\ hellos \in Nat /\ coalesced \in BOOLEAN

-----------------------------------------------------------------------------
(* Sequences and packets.                                                     *)

LEMMA Appended ==
    ASSUME NEW S, NEW q \in Seq(S), NEW x \in S
    PROVE  /\ Append(q, x) \in Seq(S) /\ Append(q, x) # <<>>
           /\ Append(q, x)[Len(Append(q, x))] = x
           /\ \A i \in DOMAIN Append(q, x) :
                 \/ i \in DOMAIN q /\ Append(q, x)[i] = q[i]
                 \/ i = Len(q) + 1 /\ Append(q, x)[i] = x
BY AppendProperties

LEMMA Taken ==
    ASSUME NEW S, NEW q \in Seq(S), q # <<>>
    PROVE  /\ Tail(q) \in Seq(S) /\ Head(q) \in S /\ Head(q) = q[1] /\ 1 \in DOMAIN q
           /\ \A i \in DOMAIN Tail(q) : i + 1 \in DOMAIN q /\ i \in Nat /\ Tail(q)[i] = q[i + 1]
BY HeadTailProperties

(* The parts of a packet are what is hashed of it.                            *)
LEMMA PartsOfPacket ==
    ASSUME NEW p \in Packets
    PROVE  /\ Parts(p) \in Entries /\ Parts(p)[1] = Part(p[1])
           /\ p[1] \in Messages /\ Parts(p)[1].n = p[1].n
<1>1. p \in Seq(Messages) /\ 1 \in DOMAIN p /\ p[1] \in Messages
    <2>1. p \in Seq(Messages) /\ p # <<>>
        BY DEF Packets
    <2> QED BY <2>1, Taken
<1>2. \A i \in DOMAIN p : Part(p[i]) \in PartRecords
    <2>1. \A i \in DOMAIN p : p[i] \in Messages
        BY <1>1
    <2>2. \A m \in Messages : Part(m) \in PartRecords
        BY DEF Part, Messages, PartRecords
    <2> QED BY <2>1, <2>2
<1>3. Parts(p) \in Seq(PartRecords)
    <2>1. Len(p) \in Nat /\ DOMAIN p = 1 .. Len(p)
        BY <1>1
    <2>2. Parts(p) \in [1 .. Len(p) -> PartRecords]
        BY <1>2, <2>1 DEF Parts
    <2> QED BY <2>1, <2>2, IsASeq
<1>4. Parts(p)[1] = Part(p[1])
    BY <1>1 DEF Parts
<1> QED BY <1>1, <1>3, <1>4 DEF Entries, Part

(* What a send adds to the queue.                                             *)
LEMMA SentPacket ==
    ASSUME SessionTypes, NEW s \in Sockets, NEW kind \in Kinds, SendMessage(kind, s)
    PROVE  /\ sentCount' = sentCount + 1
           /\ \E p \in Packets :
                 /\ inQueue' = Append(inQueue, p)
                 /\ p[1].n = sentCount + 1 /\ p[1].kind \in {kind, "zero"}
                 /\ ~coalesced' =>
                       /\ ~coalesced /\ p[1].kind = kind /\ Len(p) = 1
                       /\ Parts(p) = <<[kind |-> kind, from |-> s, n |-> sentCount + 1]>>
                       /\ p[1].key = transcript[s]
<1> DEFINE m == Message(kind, s, sentCount + 1)
           z == Message("zero", s, sentCount + 1)
<1>1. m \in Messages /\ z \in Messages
    BY DEF Message, Messages, Kinds, SessionTypes
<1>2. /\ m.kind = kind /\ m.n = sentCount + 1 /\ z.kind = "zero" /\ z.n = sentCount + 1
      /\ Part(m) = [kind |-> kind, from |-> s, n |-> sentCount + 1] /\ m.key = transcript[s]
    BY DEF Message, Part
<1>3. PICK p \in {<<m>>, <<z, m>>, <<m, z>>} :
         /\ inQueue' = Append(inQueue, p)
         /\ coalesced' = (coalesced \/ Len(p) = 2)
    BY DEF SendMessage
<1>4. sentCount' = sentCount + 1
    BY DEF SendMessage
<1> HIDE DEF m, z
<1>5. p \in Packets /\ p[1].n = sentCount + 1 /\ p[1].kind \in {kind, "zero"}
    <2>1. /\ <<m>> \in Seq(Messages) /\ <<m, z>> \in Seq(Messages) /\ <<z, m>> \in Seq(Messages)
          /\ Len(<<m>>) = 1 /\ Len(<<m, z>>) = 2 /\ Len(<<z, m>>) = 2
          /\ <<m>>[1] = m /\ <<m, z>>[1] = m /\ <<z, m>>[1] = z
        BY <1>1
    <2>2. <<m>> # <<>> /\ <<m, z>> # <<>> /\ <<z, m>> # <<>>
        BY <2>1
    <2>3. <<m>> \in Packets /\ <<m, z>> \in Packets /\ <<z, m>> \in Packets
        BY <2>1, <2>2 DEF Packets
    <2>4. CASE p = <<m>>
        BY <1>2, <2>1, <2>3, <2>4
    <2>5. CASE p = <<z, m>>
        BY <1>2, <2>1, <2>3, <2>5
    <2>6. CASE p = <<m, z>>
        BY <1>2, <2>1, <2>3, <2>6
    <2> QED BY <2>4, <2>5, <2>6
<1>6. ~coalesced' => ~coalesced /\ p = <<m>>
    <2>1. Len(<<m, z>>) = 2 /\ Len(<<z, m>>) = 2
        OBVIOUS
    <2> QED BY <1>3, <2>1 DEF SessionTypes
<1>7. Parts(<<m>>) = <<Part(m)>>
    BY DEF Parts
<1> QED BY <1>2, <1>3, <1>4, <1>5, <1>6, <1>7

-----------------------------------------------------------------------------
(* Equal keys.  Packets, keys and answers are told apart by the number of the *)
(* message they come from.                                                    *)

NumberOf(k) == k[Len(k)][1].n

QueueInOrder ==
    /\ \A i, j \in DOMAIN inQueue : i < j => inQueue[i][1].n < inQueue[j][1].n
    /\ \A i \in DOMAIN inQueue : inQueue[i][1].n <= sentCount

(* The keys come from a packet before all that are still to be handled.       *)
KeysInOrder ==
    keys # <<>> =>
        /\ NumberOf(keys) \in Nat /\ NumberOf(keys) <= sentCount
        /\ \A i \in DOMAIN inQueue : NumberOf(keys) < inQueue[i][1].n

(* A response was encrypted with the keys of now or with older ones.          *)
ResponsesInOrder ==
    \A i \in DOMAIN outQueue : outQueue[i].kind = "done" =>
        /\ keys # <<>> /\ NumberOf(outQueue[i].key) \in Nat
        /\ outQueue[i].key = keys \/ NumberOf(outQueue[i].key) < NumberOf(keys)

(* The last authentication of the client is the last of all.                  *)
AuthIsLast(s) ==
    state[s] \in {"auth", "ready"} =>
        /\ NumberOf(transcript[s]) \in Nat
        /\ keys # <<>> => NumberOf(keys) <= NumberOf(transcript[s])
        /\ \A i \in DOMAIN inQueue :
              inQueue[i][1].kind = "auth" => inQueue[i][1].n <= NumberOf(transcript[s])

KeysAreEqual(s) == state[s] = "ready" => keys = transcript[s] /\ keys # <<>>

KeysInv ==
    /\ SessionTypes /\ QueueInOrder /\ KeysInOrder /\ ResponsesInOrder
    /\ \A s \in Sockets : AuthIsLast(s) /\ KeysAreEqual(s)

LEMMA TypesKept == SessionTypes /\ [Next]_vars => SessionTypes'
<1> SUFFICES ASSUME SessionTypes, [Next]_vars PROVE SessionTypes'
    OBVIOUS
<1> USE DEF SessionTypes
<1>1. ASSUME NEW s \in Sockets, NEW kind \in Kinds, SendMessage(kind, s)
      PROVE  inQueue' \in Seq(Packets) /\ sentCount' \in Nat /\ coalesced' \in BOOLEAN
    <2>1. inQueue' \in Seq(Packets) /\ sentCount' \in Nat
        <3>1. PICK p \in Packets : inQueue' = Append(inQueue, p)
            BY <1>1, SentPacket
        <3> QED BY <1>1, <3>1 DEF SendMessage
    <2>2. coalesced' \in BOOLEAN
        BY <1>1 DEF SendMessage
    <2> QED BY <2>1, <2>2
<1>2. ASSUME NEW s \in Sockets, Hello(s) PROVE SessionTypes'
    <2>1. <<[kind |-> "header", from |-> s, n |-> sentCount']>> \in Entries
        BY <1>1, <1>2 DEF Hello, Entries, PartRecords, Kinds
    <2>2. inQueue' \in Seq(Packets) /\ sentCount' \in Nat /\ coalesced' \in BOOLEAN
        BY <1>1, <1>2 DEF Hello, Kinds
    <2> QED BY <1>2, <2>1, <2>2 DEF Hello, States, service
<1>3. ASSUME NEW s \in Sockets, Auth(s) PROVE SessionTypes'
    <2> DEFINE a == <<[kind |-> "auth", from |-> s, n |-> sentCount']>>
    <2>1. a \in Entries /\ Ack \in Entries
        BY <1>1, <1>3 DEF Auth, Entries, PartRecords, Kinds
    <2>2. inQueue' \in Seq(Packets) /\ sentCount' \in Nat /\ coalesced' \in BOOLEAN
        BY <1>1, <1>3 DEF Auth, Kinds
    <2>3. transcript' = [transcript EXCEPT ![s] = transcript[s] \o <<Ack, a>>]
        BY <1>3 DEF Auth
    <2> HIDE DEF a
    <2>4. transcript[s] \o <<Ack, a>> \in Seq(Entries)
        BY <2>1
    <2>5. transcript' \in [Sockets -> Seq(Entries)]
        BY <2>3, <2>4
    <2> QED BY <1>3, <2>2, <2>5 DEF Auth, States, service
<1>4. ASSUME NEW s \in Sockets, Task(s) \/ Noise(s) PROVE SessionTypes'
    <2>1. inQueue' \in Seq(Packets) /\ sentCount' \in Nat /\ coalesced' \in BOOLEAN
        BY <1>1, <1>4 DEF Task, Noise, Kinds
    <2> QED BY <1>4, <2>1 DEF Task, Noise, service, client
<1>5. ASSUME NEW s \in Sockets, Read(s) PROVE SessionTypes'
    <2>1. outQueue' \in Seq(Replies)
        BY <1>5, Taken DEF Read
    <2>2. state' \in [Sockets -> States]
        BY <1>5 DEF Read, States
    <2> QED BY <1>5, <2>1, <2>2 DEF Read, service
<1>6. ASSUME NEW s \in Sockets, Close(s) PROVE SessionTypes'
    BY <1>6 DEF Close, States, service
<1>7. CASE Handle
    <2>1. inQueue # <<>> /\ inQueue' = Tail(inQueue)
          /\ UNCHANGED <<state, transcript, sentCount, hellos, coalesced>>
        BY <1>7 DEF Handle, HandleZero, HandleHeader, HandleAuth, HandleTask, HandleOther,
                    Handles, Consume, client
    <2>2. inQueue' \in Seq(Packets) /\ Head(inQueue) \in Packets
        BY <2>1, Taken
    <2>3. /\ packetBuffer' \in Seq(Entries)
          /\ Append(packetBuffer, Parts(Head(inQueue))) \in Seq(Entries)
          /\ packetBuffer \o <<Parts(Head(inQueue)), Ack>> \in Seq(Entries)
          /\ keys' \in Seq(Entries) /\ msgCount' \in Nat
        <3>1. Parts(Head(inQueue)) \in Entries /\ Ack \in Entries
            BY <2>2, PartsOfPacket DEF Entries
        <3>2. /\ Append(packetBuffer, Parts(Head(inQueue))) \in Seq(Entries)
              /\ packetBuffer \o <<Parts(Head(inQueue)), Ack>> \in Seq(Entries)
            BY <3>1
        <3>3. CASE HandleZero \/ HandleOther
            BY <3>2, <3>3 DEF HandleZero, HandleOther, service
        <3>4. CASE HandleHeader
            BY <3>2, <3>4 DEF HandleHeader
        <3>5. CASE HandleAuth
            BY <3>2, <3>5 DEF HandleAuth
        <3>6. CASE HandleTask
            BY <3>2, <3>6 DEF HandleTask
        <3> QED BY <1>7, <3>2, <3>3, <3>4, <3>5, <3>6 DEF Handle
    <2>4. outQueue' \in Seq(Replies)
        <3>1. ASSUME NEW r \in Replies, SendReply(r) PROVE outQueue' \in Seq(Replies)
            BY <3>1 DEF SendReply
        <3>2. CASE HandleZero \/ HandleHeader
            BY <3>1, <3>2 DEF HandleZero, HandleHeader, Replies
        <3>3. CASE HandleAuth
            BY <2>3, <3>1, <3>3 DEF HandleAuth, Replies
        <3>4. CASE HandleTask
            <4> DEFINE m == Head(inQueue)[1]
                       r == [kind |-> "task", key |-> keys, count |-> msgCount',
                             task |-> IF m.key = keys THEN m.n ELSE 0]
            <4>1. m \in Messages
                BY <2>2, PartsOfPacket
            <4>2. r \in Replies
                BY <2>3, <4>1 DEF Replies, Messages
            <4> QED BY <3>1, <3>4, <4>2 DEF HandleTask
        <3>5. CASE HandleOther
            BY <3>5 DEF HandleOther
        <3> QED BY <1>7, <3>2, <3>3, <3>4, <3>5 DEF Handle
    <2> QED BY <2>1, <2>2, <2>3, <2>4
<1>8. CASE UNCHANGED vars
    BY <1>8 DEF vars, service, client
<1> QED BY <1>2, <1>3, <1>4, <1>5, <1>6, <1>7, <1>8 DEF Next, Client

LEMMA OneClient ==
    ASSUME Alone, NEW s \in Sockets
    PROVE  \A t \in Sockets : t = s
BY LobbyAssumption, FS_Singleton DEF Alone

(* The number of the message that a packet begins with.                       *)
LEMMA NumberOfPacket ==
    ASSUME NEW p \in Packets, NEW k \in Seq(Entries)
    PROVE  /\ Append(k, Parts(p)) # <<>>
           /\ NumberOf(Append(k, Parts(p))) = p[1].n /\ p[1].n \in Nat
<1>1. Parts(p) \in Entries /\ Parts(p)[1].n = p[1].n /\ p[1] \in Messages
    BY PartsOfPacket
<1>2. Append(k, Parts(p)) # <<>> /\ Append(k, Parts(p))[Len(Append(k, Parts(p)))] = Parts(p)
    BY <1>1, Appended
<1> QED BY <1>1, <1>2 DEF NumberOf, Messages

LEMMA PacketInQueue ==
    ASSUME SessionTypes, NEW i \in DOMAIN inQueue
    PROVE  inQueue[i] \in Packets /\ inQueue[i][1] \in Messages /\ inQueue[i][1].n \in Nat
<1>1. inQueue[i] \in Packets
    BY DEF SessionTypes
<1> QED BY <1>1, PartsOfPacket DEF Messages

(* A message joins the queue behind all others.                               *)
LEMMA SendKeepsOrder ==
    ASSUME KeysInv, NEW s \in Sockets, NEW kind \in Kinds, SendMessage(kind, s), keys' = keys
    PROVE  QueueInOrder' /\ KeysInOrder'
<1>1. PICK p \in Packets : inQueue' = Append(inQueue, p) /\ p[1].n = sentCount + 1
    BY SentPacket DEF KeysInv
<1>2. sentCount' = sentCount + 1 /\ sentCount \in Nat /\ inQueue \in Seq(Packets)
    BY SentPacket DEF KeysInv, SessionTypes
<1>3. \A i \in DOMAIN inQueue' : \/ i \in DOMAIN inQueue /\ inQueue'[i] = inQueue[i]
                                 \/ i = Len(inQueue) + 1 /\ inQueue'[i][1].n = sentCount + 1
    BY <1>1, <1>2, Appended
<1>4. \A i \in DOMAIN inQueue : /\ i \in 1 .. Len(inQueue)
                                /\ inQueue[i][1].n \in Nat /\ inQueue[i][1].n <= sentCount
    BY <1>2, PacketInQueue DEF KeysInv, QueueInOrder
<1>5. QueueInOrder'
    BY <1>2, <1>3, <1>4 DEF KeysInv, QueueInOrder
<1>6. KeysInOrder'
    BY <1>2, <1>3, <1>4 DEF KeysInv, KeysInOrder
<1> QED BY <1>5, <1>6

(* A message that is no authentication leaves the last one the last.          *)
LEMMA SendKeepsAuth ==
    ASSUME KeysInv, NEW s \in Sockets, NEW kind \in Kinds \ {"auth"}, SendMessage(kind, s),
           keys' = keys, NEW t \in Sockets, state'[t] \in {"auth", "ready"} => state'[t] = state[t],
           state'[t] = state[t] => transcript'[t] = transcript[t]
    PROVE  AuthIsLast(t)' /\ KeysAreEqual(t)'
<1>1. PICK p \in Packets : inQueue' = Append(inQueue, p) /\ p[1].kind \in {kind, "zero"}
    BY SentPacket DEF KeysInv
<1>2. \A i \in DOMAIN inQueue' : \/ i \in DOMAIN inQueue /\ inQueue'[i] = inQueue[i]
                                 \/ inQueue'[i][1].kind # "auth"
    BY <1>1, Appended DEF KeysInv, SessionTypes
<1>3. AuthIsLast(t)'
    BY <1>2 DEF KeysInv, AuthIsLast, NumberOf
<1>4. KeysAreEqual(t)'
    BY DEF KeysInv, KeysAreEqual
<1> QED BY <1>3, <1>4

(* A new authentication.                                                      *)
LEMMA AuthKeepsKeys ==
    ASSUME Alone, KeysInv, NEW s \in Sockets, Auth(s)
    PROVE  KeysInv'
<1>1. SessionTypes'
    BY TypesKept DEF KeysInv, Next, Client
<1>2. SendMessage("auth", s) /\ keys' = keys /\ outQueue' = outQueue
      /\ "auth" \in Kinds /\ state' = [state EXCEPT ![s] = "auth"]
    BY DEF Auth, service, Kinds
<1>3. QueueInOrder' /\ KeysInOrder'
    BY <1>2, SendKeepsOrder
<1>4. ResponsesInOrder'
    BY <1>2 DEF KeysInv, ResponsesInOrder
<1>5. ASSUME NEW t \in Sockets PROVE AuthIsLast(t)' /\ KeysAreEqual(t)'
    <2>1. t = s
        BY OneClient
    <2> DEFINE a == <<[kind |-> "auth", from |-> s, n |-> sentCount']>>
    <2>2. transcript'[s] = transcript[s] \o <<Ack, a>> /\ transcript[s] \in Seq(Entries)
        BY DEF Auth, KeysInv, SessionTypes
    <2>3. a[1].n = sentCount' /\ a \in Entries /\ Ack \in Entries
        BY <1>1 DEF Entries, PartRecords, Kinds, SessionTypes
    <2> HIDE DEF a
    <2>4. NumberOf(transcript'[s]) = sentCount'
        <3>1. Len(transcript[s] \o <<Ack, a>>) = Len(transcript[s]) + 2
              /\ (transcript[s] \o <<Ack, a>>)[Len(transcript[s]) + 2] = a
            BY <2>2, <2>3
        <3> QED BY <2>2, <2>3, <3>1 DEF NumberOf
    <2>5. state'[s] = "auth"
        BY <1>2 DEF KeysInv, SessionTypes
    <2>6. AuthIsLast(s)'
        BY <1>1, <1>3, <2>4 DEF AuthIsLast, KeysInOrder, QueueInOrder, SessionTypes, NumberOf
    <2> QED BY <2>1, <2>5, <2>6 DEF KeysAreEqual
<1> QED BY <1>1, <1>3, <1>4, <1>5 DEF KeysInv

LEMMA OtherSendsKeepKeys ==
    ASSUME Alone, KeysInv, NEW s \in Sockets, Hello(s) \/ Task(s) \/ Noise(s)
    PROVE  KeysInv'
<1>1. SessionTypes'
    BY TypesKept DEF KeysInv, Next, Client
<1>2. PICK kind \in Kinds \ {"auth"} : SendMessage(kind, s)
    BY DEF Hello, Task, Noise, Kinds
<1>3. keys' = keys /\ outQueue' = outQueue
    BY DEF Hello, Task, Noise, service
<1>4. QueueInOrder' /\ KeysInOrder'
    BY <1>2, <1>3, SendKeepsOrder
<1>5. ResponsesInOrder'
    BY <1>3 DEF KeysInv, ResponsesInOrder
<1>6. ASSUME NEW t \in Sockets PROVE AuthIsLast(t)' /\ KeysAreEqual(t)'
    <2>1. t = s
        BY OneClient
    <2>2. \/ state'[s] = "hello" /\ state[s] # "hello"
          \/ state'[s] = state[s] /\ transcript'[s] = transcript[s]
        BY DEF Hello, Task, Noise, client, KeysInv, SessionTypes
    <2> QED BY <1>2, <1>3, <2>1, <2>2, SendKeepsAuth
<1> QED BY <1>1, <1>4, <1>5, <1>6 DEF KeysInv

(* A response that is accepted was encrypted with the keys of now.            *)
LEMMA ReadKeepsKeys ==
    ASSUME Alone, KeysInv, NEW s \in Sockets, Read(s) \/ Close(s)
    PROVE  KeysInv'
<1>1. SessionTypes'
    BY TypesKept DEF KeysInv, Next, Client
<1>2. UNCHANGED <<keys, inQueue, sentCount>>
    BY DEF Read, Close, service
<1>3. QueueInOrder' /\ KeysInOrder'
    BY <1>2 DEF KeysInv, QueueInOrder, KeysInOrder
<1>4. outQueue \in Seq(Replies)
    BY DEF KeysInv, SessionTypes
<1>5. ResponsesInOrder'
    <2>1. CASE outQueue' = outQueue
        BY <1>2, <2>1 DEF KeysInv, ResponsesInOrder
    <2>2. CASE outQueue # <<>> /\ outQueue' = Tail(outQueue)
        <3>1. \A i \in DOMAIN outQueue' : i + 1 \in DOMAIN outQueue /\ outQueue'[i] = outQueue[i + 1]
            BY <1>4, <2>2, Taken
        <3> QED BY <1>2, <3>1 DEF KeysInv, ResponsesInOrder
    <2> QED BY <2>1, <2>2 DEF Read, Close
<1>6. ASSUME NEW t \in Sockets PROVE AuthIsLast(t)' /\ KeysAreEqual(t)'
    <2>1. t = s
        BY OneClient
    <2>2. \/ state'[s] \in {"out", "acked", "refused"}
          \/ state'[s] = state[s] /\ transcript'[s] = transcript[s]
          \/ /\ state[s] = "auth" /\ state'[s] = "ready" /\ transcript'[s] = transcript[s]
             /\ outQueue # <<>> /\ Head(outQueue).kind = "done" /\ Head(outQueue).key = transcript[s]
        BY DEF Read, Close, KeysInv, SessionTypes
    <2>3. CASE state'[s] \in {"out", "acked", "refused"}
        BY <2>1, <2>3 DEF AuthIsLast, KeysAreEqual
    <2>4. CASE state'[s] = state[s] /\ transcript'[s] = transcript[s]
        BY <1>2, <2>1, <2>4 DEF KeysInv, AuthIsLast, KeysAreEqual, NumberOf
    <2>5. CASE /\ state[s] = "auth" /\ state'[s] = "ready" /\ transcript'[s] = transcript[s]
               /\ outQueue # <<>> /\ Head(outQueue).kind = "done" /\ Head(outQueue).key = transcript[s]
        <3>1. AuthIsLast(s)'
            BY <1>2, <2>5 DEF KeysInv, AuthIsLast, NumberOf
        <3>2. 1 \in DOMAIN outQueue /\ outQueue[1].kind = "done" /\ outQueue[1].key = transcript[s]
            BY <1>4, <2>5, Taken
        <3>3. /\ keys # <<>> /\ NumberOf(keys) <= NumberOf(transcript[s])
              /\ NumberOf(transcript[s]) \in Nat /\ NumberOf(keys) \in Nat
              /\ transcript[s] = keys \/ NumberOf(transcript[s]) < NumberOf(keys)
            BY <2>5, <3>2 DEF KeysInv, ResponsesInOrder, AuthIsLast, KeysInOrder
        <3>4. transcript[s] = keys
            BY <3>3
        <3> QED BY <1>2, <2>1, <2>5, <3>1, <3>3, <3>4 DEF KeysAreEqual
    <2> QED BY <2>2, <2>3, <2>4, <2>5
<1> QED BY <1>1, <1>3, <1>5, <1>6 DEF KeysInv

(* The service takes the packet in front.                                     *)
LEMMA FrontIsTaken ==
    ASSUME SessionTypes, Handle
    PROVE  /\ inQueue # <<>> /\ UNCHANGED <<state, transcript, sentCount, hellos, coalesced>>
           /\ Head(inQueue) = inQueue[1] /\ 1 \in DOMAIN inQueue /\ inQueue[1] \in Packets
           /\ \A i \in DOMAIN inQueue' :
                 i + 1 \in DOMAIN inQueue /\ i \in Nat /\ 1 < i + 1 /\ inQueue'[i] = inQueue[i + 1]
<1>1. inQueue # <<>> /\ inQueue' = Tail(inQueue)
      /\ UNCHANGED <<state, transcript, sentCount, hellos, coalesced>>
    BY DEF Handle, HandleZero, HandleHeader, HandleAuth, HandleTask, HandleOther,
           Handles, Consume, client
<1>2. inQueue \in Seq(Packets)
    BY DEF SessionTypes
<1>3. /\ Head(inQueue) = inQueue[1] /\ 1 \in DOMAIN inQueue /\ inQueue[1] \in Packets
      /\ \A i \in DOMAIN inQueue' : i + 1 \in DOMAIN inQueue /\ i \in Nat /\ inQueue'[i] = inQueue[i + 1]
    BY <1>1, <1>2, Taken
<1>4. \A i \in DOMAIN inQueue' : 1 < i + 1
    BY <1>1, <1>2
<1> QED BY <1>1, <1>3, <1>4

LEMMA HandleKeepsKeys ==
    ASSUME KeysInv, Handle
    PROVE  KeysInv'
<1>1. SessionTypes'
    BY TypesKept DEF KeysInv, Next
<1>2. /\ inQueue # <<>> /\ UNCHANGED <<state, transcript, sentCount>>
      /\ Head(inQueue) = inQueue[1] /\ 1 \in DOMAIN inQueue /\ inQueue[1] \in Packets
      /\ \A i \in DOMAIN inQueue' :
            i + 1 \in DOMAIN inQueue /\ i \in Nat /\ 1 < i + 1 /\ inQueue'[i] = inQueue[i + 1]
    BY FrontIsTaken DEF KeysInv
<1>3. \A i \in DOMAIN inQueue' : inQueue[1][1].n < inQueue'[i][1].n
    BY <1>2 DEF KeysInv, QueueInOrder
<1>4. QueueInOrder'
    <2>1. ASSUME NEW i \in DOMAIN inQueue', NEW j \in DOMAIN inQueue', i < j
          PROVE  inQueue'[i][1].n < inQueue'[j][1].n
        <3>1. i + 1 \in DOMAIN inQueue /\ j + 1 \in DOMAIN inQueue /\ i + 1 < j + 1
            BY <1>2, <2>1
        <3> QED BY <1>2, <3>1 DEF KeysInv, QueueInOrder
    <2>2. ASSUME NEW i \in DOMAIN inQueue' PROVE inQueue'[i][1].n <= sentCount'
        BY <1>2 DEF KeysInv, QueueInOrder
    <2> QED BY <2>1, <2>2 DEF QueueInOrder
<1>5. CASE HandleAuth
    <2> DEFINE p == inQueue[1]
    <2>1. /\ packetBuffer' = Append(packetBuffer, Parts(p)) /\ keys' = packetBuffer'
          /\ outQueue' = Append(outQueue, [kind |-> "done", key |-> keys']) /\ p[1].kind = "auth"
        BY <1>2, <1>5 DEF HandleAuth, SendReply, Handles
    <2>2. keys' # <<>> /\ NumberOf(keys') = p[1].n /\ p[1].n \in Nat
        BY <1>2, <2>1, NumberOfPacket DEF KeysInv, SessionTypes
    <2>3. sentCount' = sentCount /\ p[1].n <= sentCount
        BY <1>2 DEF KeysInv, QueueInOrder
    <2>4. KeysInOrder'
        BY <1>3, <2>2, <2>3 DEF KeysInOrder, NumberOf
    <2>5. keys # <<>> => NumberOf(keys) \in Nat /\ NumberOf(keys) < NumberOf(keys')
        BY <1>2, <2>2 DEF KeysInv, KeysInOrder
    <2>6. ResponsesInOrder'
        <3>1. ASSUME NEW i \in DOMAIN outQueue', outQueue'[i].kind = "done"
              PROVE  /\ NumberOf(outQueue'[i].key) \in Nat
                     /\ outQueue'[i].key = keys' \/ NumberOf(outQueue'[i].key) < NumberOf(keys')
            <4>1. \/ i \in DOMAIN outQueue /\ outQueue'[i] = outQueue[i]
                  \/ outQueue'[i] = [kind |-> "done", key |-> keys']
                <5>1. [kind |-> "done", key |-> keys'] \in Replies
                    BY <1>1 DEF Replies, SessionTypes
                <5> QED BY <2>1, <5>1, Appended DEF KeysInv, SessionTypes
            <4>2. CASE i \in DOMAIN outQueue /\ outQueue'[i] = outQueue[i]
                <5>1. /\ keys # <<>> /\ NumberOf(outQueue[i].key) \in Nat
                      /\ outQueue[i].key = keys \/ NumberOf(outQueue[i].key) < NumberOf(keys)
                    BY <3>1, <4>2 DEF KeysInv, ResponsesInOrder
                <5> QED BY <2>2, <2>5, <4>2, <5>1
            <4>3. CASE outQueue'[i] = [kind |-> "done", key |-> keys']
                BY <2>2, <4>3
            <4> QED BY <4>1, <4>2, <4>3
        <3> QED BY <2>2, <3>1 DEF ResponsesInOrder, NumberOf
    <2>7. ASSUME NEW s \in Sockets PROVE AuthIsLast(s)' /\ KeysAreEqual(s)'
        <3>1. state[s] \in {"auth", "ready"} => NumberOf(keys') <= NumberOf(transcript[s])
            BY <1>2, <2>1, <2>2 DEF KeysInv, AuthIsLast
        <3>2. state[s] # "ready"
            <4> SUFFICES ASSUME state[s] = "ready" PROVE FALSE
                OBVIOUS
            <4>1. keys = transcript[s] /\ keys # <<>>
                BY DEF KeysInv, KeysAreEqual
            <4> QED BY <2>2, <2>5, <3>1, <4>1
        <3>3. AuthIsLast(s)'
            BY <1>2, <3>1 DEF KeysInv, AuthIsLast, NumberOf
        <3> QED BY <1>2, <3>2, <3>3 DEF KeysAreEqual
    <2> QED BY <1>1, <1>4, <2>4, <2>6, <2>7 DEF KeysInv
<1>6. CASE HandleZero \/ HandleHeader \/ HandleTask \/ HandleOther
    <2>1. keys' = keys
        BY <1>6 DEF HandleZero, HandleHeader, HandleTask, HandleOther, service
    <2>2. KeysInOrder'
        BY <1>2, <2>1 DEF KeysInv, KeysInOrder, NumberOf
    <2>3. ResponsesInOrder'
        <3>1. outQueue' = outQueue \/ \E r : r.kind \in {"zero", "ack", "task"} /\ outQueue' = Append(outQueue, r)
            BY <1>6 DEF HandleZero, HandleHeader, HandleTask, HandleOther, SendReply, service
        <3>2. outQueue \in Seq(Replies) /\ outQueue' \in Seq(Replies)
            BY <1>1 DEF KeysInv, SessionTypes
        <3>3. \A i \in DOMAIN outQueue' : outQueue'[i].kind = "done" => i \in DOMAIN outQueue /\ outQueue'[i] = outQueue[i]
            BY <3>1, <3>2
        <3> QED BY <2>1, <3>3 DEF KeysInv, ResponsesInOrder, NumberOf
    <2>4. ASSUME NEW s \in Sockets PROVE AuthIsLast(s)' /\ KeysAreEqual(s)'
        BY <1>2, <2>1 DEF KeysInv, AuthIsLast, KeysAreEqual, NumberOf
    <2> QED BY <1>1, <1>4, <2>2, <2>3, <2>4 DEF KeysInv
<1> QED BY <1>5, <1>6 DEF Handle

LEMMA KeysStart == Init => KeysInv
<1> SUFFICES ASSUME Init PROVE KeysInv
    OBVIOUS
<1>1. \A S : <<>> \in Seq(S)
    OBVIOUS
<1>2. SessionTypes
    BY <1>1 DEF Init, SessionTypes, States
<1> QED BY <1>2 DEF Init, KeysInv, QueueInOrder, KeysInOrder, ResponsesInOrder, AuthIsLast, KeysAreEqual

LEMMA KeysGoOn ==
    ASSUME Alone, KeysInv, [Next]_vars
    PROVE  KeysInv'
<1>1. CASE UNCHANGED vars
    BY <1>1 DEF vars, service, client, KeysInv, SessionTypes, QueueInOrder, KeysInOrder,
                ResponsesInOrder, AuthIsLast, KeysAreEqual, NumberOf
<1> QED BY <1>1, AuthKeepsKeys, OtherSendsKeepKeys, ReadKeepsKeys, HandleKeepsKeys DEF Next, Client

(* A client that takes the service for its own talks to it under equal keys,  *)
(* as long as it is the only one, however often it connects again and         *)
(* whatever shares a packet (lobby_server.cpp, keys.cpp).                     *)
THEOREM KeysAgree == Spec => []ReadyMeansEqualKeys
<1> DEFINE Inv == Alone => KeysInv
<1>1. Init => Inv
    BY KeysStart
<1>2. Inv /\ [Next]_vars => Inv'
    BY KeysGoOn DEF Alone
<1>3. Inv => ReadyMeansEqualKeys
    BY DEF ReadyMeansEqualKeys, KeysInv, KeysAreEqual
<1> QED BY <1>1, <1>2, <1>3, PTL DEF Spec

-----------------------------------------------------------------------------
(* The first conversation.                                                    *)

NoneSent(K) == \A i \in DOMAIN inQueue : inQueue[i][1].kind \notin K
NoneSaid(K) == \A i \in DOMAIN outQueue : outQueue[i].kind \notin K

(* At most one packet of a kind is on its way, and it is hashed as e.         *)
OnlySent(kind, e) ==
    /\ \A i \in DOMAIN inQueue : inQueue[i][1].kind = kind => Parts(inQueue[i]) = e
    /\ \A i, j \in DOMAIN inQueue :
          inQueue[i][1].kind = kind /\ inQueue[j][1].kind = kind => i = j
OnceSaid(kind) ==
    \A i, j \in DOMAIN outQueue : outQueue[i].kind = kind /\ outQueue[j].kind = kind => i = j
SaidUnder(kind, k) == \A i \in DOMAIN outQueue : outQueue[i].kind = kind => outQueue[i].key = k

Greeting(s) ==
    /\ state[s] = "hello"
    /\ NoneSent({"auth", "task"}) /\ NoneSaid({"done", "task"})
    /\ \E x \in Entries :
          /\ transcript[s] = <<x>>
          /\ \/ packetBuffer = <<>> /\ OnlySent("header", x) /\ NoneSaid({"ack"})
             \/ packetBuffer = <<x, Ack>> /\ NoneSent({"header"}) /\ OnceSaid("ack")

Acknowledged(s) ==
    /\ state[s] = "acked"
    /\ NoneSent({"header", "auth", "task"}) /\ NoneSaid({"ack", "done", "task"})
    /\ \E x \in Entries : transcript[s] = <<x>> /\ packetBuffer = <<x, Ack>>

Authenticating(s) ==
    /\ state[s] = "auth"
    /\ NoneSent({"header", "task"}) /\ NoneSaid({"ack", "task"})
    /\ \/ /\ \E a \in Entries : transcript[s] = Append(packetBuffer, a) /\ OnlySent("auth", a)
          /\ NoneSaid({"done"})
       \/ /\ keys = transcript[s] /\ NoneSent({"auth"})
          /\ OnceSaid("done") /\ SaidUnder("done", transcript[s])

Served(s) ==
    /\ state[s] = "ready" /\ keys = transcript[s]
    /\ NoneSent({"header", "auth"}) /\ NoneSaid({"ack", "done"})
    /\ SaidUnder("task", transcript[s])

Conversing(s) == Greeting(s) \/ Acknowledged(s) \/ Authenticating(s) \/ Served(s)

FirstInv ==
    /\ hellos = 0 => /\ \A s \in Sockets : state[s] = "out"
                     /\ inQueue = <<>> /\ outQueue = <<>> /\ packetBuffer = <<>>
    /\ hellos = 1 /\ ~coalesced => \A s \in Sockets : state[s] = "out" \/ Conversing(s)

(* A packet that joins the queue.                                             *)
LEMMA SendSent ==
    ASSUME SessionTypes, NEW s \in Sockets, NEW kind \in Kinds, SendMessage(kind, s), ~coalesced'
    PROVE  /\ ~coalesced
           /\ \A K : kind \notin K /\ NoneSent(K) => NoneSent(K)'
           /\ \A e : NoneSent({kind}) /\ e = <<[kind |-> kind, from |-> s, n |-> sentCount']>>
                    => OnlySent(kind, e)'
<1>1. PICK p \in Packets :
         /\ inQueue' = Append(inQueue, p) /\ ~coalesced /\ p[1].kind = kind
         /\ Parts(p) = <<[kind |-> kind, from |-> s, n |-> sentCount + 1]>>
    BY SentPacket
<1>2. sentCount' = sentCount + 1
    BY SentPacket
<1>3. \A i \in DOMAIN inQueue' : \/ i \in DOMAIN inQueue /\ inQueue'[i] = inQueue[i]
                                 \/ i = Len(inQueue) + 1 /\ inQueue'[i] = p
    BY <1>1, Appended DEF SessionTypes
<1>4. \A K : kind \notin K /\ NoneSent(K) => NoneSent(K)'
    BY <1>1, <1>3 DEF NoneSent
<1>5. ASSUME NEW e, NoneSent({kind}), e = <<[kind |-> kind, from |-> s, n |-> sentCount']>>
      PROVE  OnlySent(kind, e)'
    <2>1. \A i \in DOMAIN inQueue' : inQueue'[i][1].kind = kind => i = Len(inQueue) + 1 /\ inQueue'[i] = p
        BY <1>3, <1>5 DEF NoneSent
    <2>2. Parts(p) = e
        BY <1>1, <1>2, <1>5
    <2>3. \A i \in DOMAIN inQueue' : inQueue'[i][1].kind = kind => Parts(inQueue'[i]) = e
        BY <2>1, <2>2
    <2> QED BY <2>1, <2>3 DEF OnlySent
<1> QED BY <1>1, <1>4, <1>5

(* The packet in front leaves the queue.                                      *)
LEMMA HandleSent ==
    ASSUME SessionTypes, Handle
    PROVE  /\ \A K : NoneSent(K) => NoneSent(K)' /\ inQueue[1][1].kind \notin K
           /\ \A kind, e : OnlySent(kind, e) =>
                 /\ OnlySent(kind, e)'
                 /\ inQueue[1][1].kind = kind => NoneSent({kind})' /\ Parts(inQueue[1]) = e
<1>1. /\ 1 \in DOMAIN inQueue
      /\ \A i \in DOMAIN inQueue' :
            i + 1 \in DOMAIN inQueue /\ i \in Nat /\ 1 < i + 1 /\ inQueue'[i] = inQueue[i + 1]
    BY FrontIsTaken
<1>2. ASSUME NEW K, NoneSent(K) PROVE NoneSent(K)' /\ inQueue[1][1].kind \notin K
    BY <1>1, <1>2 DEF NoneSent
<1>3. ASSUME NEW kind, NEW e, OnlySent(kind, e)
      PROVE  /\ OnlySent(kind, e)'
             /\ inQueue[1][1].kind = kind => NoneSent({kind})' /\ Parts(inQueue[1]) = e
    <2>1. \A i \in DOMAIN inQueue' : inQueue'[i][1].kind = kind => Parts(inQueue'[i]) = e
        BY <1>1, <1>3 DEF OnlySent
    <2>2. ASSUME NEW i \in DOMAIN inQueue', NEW j \in DOMAIN inQueue',
                 inQueue'[i][1].kind = kind, inQueue'[j][1].kind = kind
          PROVE  i = j
        <3>1. i + 1 \in DOMAIN inQueue /\ j + 1 \in DOMAIN inQueue /\ i \in Nat /\ j \in Nat
              /\ inQueue[i + 1][1].kind = kind /\ inQueue[j + 1][1].kind = kind
            BY <1>1, <2>2
        <3>2. i + 1 = j + 1
            BY <1>3, <3>1 DEF OnlySent
        <3> QED BY <3>1, <3>2
    <2>3. ASSUME inQueue[1][1].kind = kind PROVE NoneSent({kind})' /\ Parts(inQueue[1]) = e
        <3>1. Parts(inQueue[1]) = e
            BY <1>1, <1>3, <2>3 DEF OnlySent
        <3>2. ASSUME NEW i \in DOMAIN inQueue', inQueue'[i][1].kind = kind PROVE FALSE
            <4>1. i + 1 \in DOMAIN inQueue /\ 1 < i + 1 /\ inQueue[i + 1][1].kind = kind /\ i \in Nat
                BY <1>1, <3>2
            <4>2. i + 1 = 1
                BY <1>1, <1>3, <2>3, <4>1 DEF OnlySent
            <4> QED BY <4>1, <4>2
        <3> QED BY <3>1, <3>2 DEF NoneSent
    <2> QED BY <2>1, <2>2, <2>3 DEF OnlySent
<1> QED BY <1>2, <1>3

(* A reply that is sent.                                                      *)
LEMMA ReplySaid ==
    ASSUME SessionTypes, NEW r \in Replies, SendReply(r)
    PROVE  /\ \A K : NoneSaid(K) /\ r.kind \notin K => NoneSaid(K)'
           /\ \A kind : OnceSaid(kind) /\ (r.kind = kind => NoneSaid({kind})) => OnceSaid(kind)'
           /\ \A kind, k : SaidUnder(kind, k) /\ (r.kind = kind => r.key = k) => SaidUnder(kind, k)'
<1>1. \A i \in DOMAIN outQueue' : \/ i \in DOMAIN outQueue /\ outQueue'[i] = outQueue[i]
                                  \/ i = Len(outQueue) + 1 /\ outQueue'[i] = r
    BY Appended DEF SendReply, SessionTypes
<1>2. ASSUME NEW K, NoneSaid(K), r.kind \notin K PROVE NoneSaid(K)'
    BY <1>1, <1>2 DEF NoneSaid
<1>3. ASSUME NEW kind, OnceSaid(kind), r.kind = kind => NoneSaid({kind}) PROVE OnceSaid(kind)'
    <2>1. CASE r.kind = kind
        BY <1>1, <1>3, <2>1 DEF OnceSaid, NoneSaid
    <2>2. CASE r.kind # kind
        BY <1>1, <1>3, <2>2 DEF OnceSaid
    <2> QED BY <2>1, <2>2
<1>4. ASSUME NEW kind, NEW k, SaidUnder(kind, k), r.kind = kind => r.key = k PROVE SaidUnder(kind, k)'
    BY <1>1, <1>4 DEF SaidUnder
<1> QED BY <1>2, <1>3, <1>4

(* A reply that is read.                                                      *)
LEMMA ReadSaid ==
    ASSUME SessionTypes, outQueue # <<>>, outQueue' = Tail(outQueue)
    PROVE  /\ \A K : NoneSaid(K) => NoneSaid(K)' /\ Head(outQueue).kind \notin K
           /\ \A kind : OnceSaid(kind) =>
                 OnceSaid(kind)' /\ (Head(outQueue).kind = kind => NoneSaid({kind})')
           /\ \A kind, k : SaidUnder(kind, k) =>
                 SaidUnder(kind, k)' /\ (Head(outQueue).kind = kind => Head(outQueue).key = k)
<1>1. /\ Head(outQueue) = outQueue[1] /\ 1 \in DOMAIN outQueue
      /\ \A i \in DOMAIN outQueue' : i + 1 \in DOMAIN outQueue /\ i \in Nat /\ outQueue'[i] = outQueue[i + 1]
    BY Taken DEF SessionTypes
<1>2. \A i \in DOMAIN outQueue' : i # 0
    BY DEF SessionTypes
<1>3. ASSUME NEW K, NoneSaid(K) PROVE NoneSaid(K)' /\ Head(outQueue).kind \notin K
    BY <1>1, <1>3 DEF NoneSaid
<1>4. ASSUME NEW kind, OnceSaid(kind)
      PROVE  OnceSaid(kind)' /\ (Head(outQueue).kind = kind => NoneSaid({kind})')
    <2>1. ASSUME NEW i \in DOMAIN outQueue', NEW j \in DOMAIN outQueue',
                 outQueue'[i].kind = kind, outQueue'[j].kind = kind
          PROVE  i = j
        <3>1. i + 1 \in DOMAIN outQueue /\ j + 1 \in DOMAIN outQueue /\ i \in Nat /\ j \in Nat
              /\ outQueue[i + 1].kind = kind /\ outQueue[j + 1].kind = kind
            BY <1>1, <2>1
        <3>2. i + 1 = j + 1
            BY <1>4, <3>1 DEF OnceSaid
        <3> QED BY <3>1, <3>2
    <2>2. ASSUME Head(outQueue).kind = kind, NEW i \in DOMAIN outQueue', outQueue'[i].kind = kind
          PROVE  FALSE
        <3>1. i + 1 \in DOMAIN outQueue /\ outQueue[i + 1].kind = kind /\ i \in Nat
            BY <1>1, <2>2
        <3>2. i + 1 = 1
            BY <1>1, <1>4, <2>2, <3>1 DEF OnceSaid
        <3> QED BY <1>2, <3>1, <3>2
    <2> QED BY <2>1, <2>2 DEF OnceSaid, NoneSaid
<1>5. ASSUME NEW kind, NEW k, SaidUnder(kind, k)
      PROVE  SaidUnder(kind, k)' /\ (Head(outQueue).kind = kind => Head(outQueue).key = k)
    BY <1>1, <1>5 DEF SaidUnder
<1> QED BY <1>3, <1>4, <1>5

(* The sends of the first conversation.                                       *)
LEMMA FirstSends ==
    ASSUME Alone, SessionTypes, FirstInv, NEW s \in Sockets,
           Hello(s) \/ Auth(s) \/ Task(s) \/ Noise(s)
    PROVE  FirstInv'
<1> USE DEF FirstInv
<1>1. UNCHANGED <<packetBuffer, keys, outQueue>> /\ hellos' \in Nat
    BY DEF Hello, Auth, Task, Noise, service, SessionTypes
<1>2. \A K : NoneSaid(K)' = NoneSaid(K)
    BY <1>1 DEF NoneSaid
<1>3. \A kind, k : OnceSaid(kind)' = OnceSaid(kind) /\ SaidUnder(kind, k)' = SaidUnder(kind, k)
    BY <1>1 DEF OnceSaid, SaidUnder
<1>4. hellos' # 0
    BY DEF Hello, Auth, Task, Noise, SessionTypes
<1>a. sentCount' \in Nat
    BY DEF Hello, Auth, Task, Noise, SendMessage, SessionTypes
<1> SUFFICES ASSUME hellos' = 1, ~coalesced' PROVE Conversing(s)'
    BY <1>4, OneClient
<1>5. CASE Hello(s)
    <2> DEFINE x == <<[kind |-> "header", from |-> s, n |-> sentCount']>>
    <2>1. SendMessage("header", s) /\ "header" \in Kinds
        BY <1>5 DEF Hello, Kinds
    <2>2. hellos = 0 /\ inQueue = <<>> /\ outQueue = <<>> /\ packetBuffer = <<>>
        BY <1>5 DEF Hello, SessionTypes
    <2>3. x \in Entries
        BY <1>a DEF Entries, PartRecords, Kinds
    <2>4. state'[s] = "hello" /\ transcript'[s] = <<x>>
        BY <1>5 DEF Hello, SessionTypes
    <2>5. NoneSent({"auth", "task", "header"})
        BY <2>2 DEF NoneSent
    <2>6. NoneSent({"auth", "task"}) /\ NoneSent({"header"})
        BY <2>5 DEF NoneSent
    <2> HIDE DEF x
    <2>7. PICK y : y = x
        OBVIOUS
    <2>8. NoneSent({"auth", "task"})' /\ OnlySent("header", y)'
        BY <2>1, <2>6, <2>7, SendSent DEF x
    <2>9. NoneSaid({"done", "task"})' /\ NoneSaid({"ack"})' /\ packetBuffer' = <<>>
        BY <1>1, <2>2 DEF NoneSaid
    <2> QED BY <2>3, <2>4, <2>7, <2>8, <2>9 DEF Conversing, Greeting
<1>6. CASE Auth(s)
    <2> DEFINE a == <<[kind |-> "auth", from |-> s, n |-> sentCount']>>
    <2>1. SendMessage("auth", s) /\ "auth" \in Kinds /\ state[s] = "acked" /\ hellos = 1
        BY <1>6 DEF Auth, Kinds
    <2>2. ~coalesced
        BY <2>1, SendSent
    <2>3. Acknowledged(s)
        BY <2>1, <2>2 DEF Conversing, Greeting, Authenticating, Served
    <2>4. a \in Entries
        BY <1>a DEF Entries, PartRecords, Kinds
    <2>5. state'[s] = "auth" /\ transcript'[s] = transcript[s] \o <<Ack, a>>
        BY <1>6 DEF Auth, SessionTypes
    <2> HIDE DEF a
    <2>6. PICK y : y = a
        OBVIOUS
    <2>7. PICK x \in Entries : transcript[s] = <<x>> /\ packetBuffer = <<x, Ack>>
        BY <2>3 DEF Acknowledged
    <2>8. transcript'[s] = Append(packetBuffer', y)
        <3>1. <<x>> \o <<Ack, y>> = Append(<<x, Ack>>, y)
            OBVIOUS
        <3> QED BY <1>1, <2>5, <2>6, <2>7, <3>1
    <2>9. NoneSent({"header", "task"}) /\ NoneSent({"auth"})
        BY <2>3 DEF Acknowledged, NoneSent
    <2>10. NoneSent({"header", "task"})' /\ OnlySent("auth", y)'
        BY <2>1, <2>6, <2>9, SendSent DEF a
    <2>11. NoneSaid({"ack", "task"})' /\ NoneSaid({"done"})'
        BY <1>2, <2>3 DEF Acknowledged, NoneSaid
    <2> QED BY <2>4, <2>5, <2>6, <2>8, <2>10, <2>11 DEF Conversing, Authenticating
<1>7. CASE Task(s)
    <2>1. SendMessage("task", s) /\ "task" \in Kinds /\ state[s] = "ready" /\ hellos = 1
          /\ state' = state /\ transcript' = transcript
        BY <1>7 DEF Task, Kinds
    <2>2. ~coalesced
        BY <2>1, SendSent
    <2>3. Served(s)
        BY <2>1, <2>2 DEF Conversing, Greeting, Authenticating, Acknowledged
    <2>4. NoneSent({"header", "auth"})'
        <3>1. NoneSent({"header", "auth"})
            BY <2>3 DEF Served
        <3>2. \A K : "task" \notin K /\ NoneSent(K) => NoneSent(K)'
            BY <2>1, SendSent
        <3> QED BY <3>1, <3>2
    <2>5. PICK k : k = transcript[s]
        OBVIOUS
    <2>6. NoneSaid({"ack", "done"})' /\ SaidUnder("task", k)'
        BY <1>2, <1>3, <2>3, <2>5 DEF Served
    <2> QED BY <1>1, <2>1, <2>3, <2>4, <2>5, <2>6 DEF Conversing, Served, SaidUnder
<1>8. CASE Noise(s)
    <2>1. PICK kind \in {"zero", "short", "unknown"} : SendMessage(kind, s)
        BY <1>8 DEF Noise
    <2>2. state[s] # "out" /\ hellos = 1 /\ state' = state /\ transcript' = transcript
        BY <1>8 DEF Noise, client
    <2>3. ~coalesced /\ \A K : kind \notin K /\ NoneSent(K) => NoneSent(K)'
        BY <2>1, SendSent DEF Kinds
    <2>4. \A k \in {"header", "auth"} : \A e : OnlySent(k, e) => OnlySent(k, e)'
        <3>1. PICK p \in Packets : inQueue' = Append(inQueue, p) /\ p[1].kind = kind
            BY <2>1, SentPacket DEF Kinds
        <3>2. \A i \in DOMAIN inQueue' : \/ i \in DOMAIN inQueue /\ inQueue'[i] = inQueue[i]
                                         \/ inQueue'[i][1].kind = kind
            BY <3>1, Appended DEF SessionTypes
        <3> QED BY <2>1, <3>2 DEF OnlySent
    <2>5. \A K \in SUBSET {"header", "auth", "task"} : NoneSent(K) => NoneSent(K)'
        BY <2>1, <2>3
    <2>6. Conversing(s)
        BY <2>2, <2>3
    <2>7. CASE Greeting(s)
        BY <1>1, <1>2, <1>3, <2>2, <2>4, <2>5, <2>7 DEF Conversing, Greeting
    <2>8. CASE Acknowledged(s)
        BY <1>1, <1>2, <2>2, <2>5, <2>8 DEF Conversing, Acknowledged
    <2>9. CASE Authenticating(s)
        BY <1>1, <1>2, <1>3, <2>2, <2>4, <2>5, <2>9 DEF Conversing, Authenticating, SaidUnder
    <2>10. CASE Served(s)
        BY <1>1, <1>2, <1>3, <2>2, <2>5, <2>10 DEF Conversing, Served, SaidUnder
    <2> QED BY <2>6, <2>7, <2>8, <2>9, <2>10 DEF Conversing
<1> QED BY <1>5, <1>6, <1>7, <1>8

(* The reads of the first conversation: no reply is refused.                  *)
LEMMA FirstReads ==
    ASSUME Alone, SessionTypes, FirstInv, NEW s \in Sockets, Read(s) \/ Close(s)
    PROVE  FirstInv'
<1> USE DEF FirstInv
<1>1. UNCHANGED <<packetBuffer, keys, inQueue, hellos, coalesced>> /\ state[s] # "out"
    BY DEF Read, Close, service
<1> SUFFICES ASSUME hellos = 1, ~coalesced PROVE state'[s] = "out" \/ Conversing(s)'
    BY <1>1, OneClient
<1>2. CASE Close(s)
    BY <1>2 DEF Close, SessionTypes
<1>3. CASE Read(s)
    <2> DEFINE reply == Head(outQueue)
    <2>1. outQueue # <<>> /\ outQueue' = Tail(outQueue) /\ transcript' = transcript
        BY <1>3 DEF Read
    <2>2. reply \in Replies
        BY <2>1, Taken DEF SessionTypes
    <2>3. /\ \A K : NoneSaid(K) => NoneSaid(K)' /\ reply.kind \notin K
          /\ \A kind : OnceSaid(kind) => OnceSaid(kind)' /\ (reply.kind = kind => NoneSaid({kind})')
          /\ \A kind, k : SaidUnder(kind, k) => SaidUnder(kind, k)' /\ (reply.kind = kind => reply.key = k)
        BY <2>1, ReadSaid
    <2>4. \A K, kind, e : NoneSent(K)' = NoneSent(K) /\ OnlySent(kind, e)' = OnlySent(kind, e)
        BY <1>1 DEF NoneSent, OnlySent
    <2>5. reply.kind \in {"zero", "ack", "done", "task"}
        BY <2>2 DEF Replies
    <2>6. /\ reply.kind = "zero" => state' = state
          /\ reply.kind = "ack" /\ state[s] = "hello" => state' = [state EXCEPT ![s] = "acked"]
          /\ reply.kind = "done" /\ state[s] = "auth" /\ reply.key = transcript[s]
                => state' = [state EXCEPT ![s] = "ready"]
          /\ reply.kind = "task" /\ state[s] = "ready" /\ reply.key = transcript[s]
                => state' = state
        BY <1>3, <2>5 DEF Read
    <2> HIDE DEF reply
    <2>7. Conversing(s)
        BY <1>1
    <2>8. CASE Greeting(s)
        <3>1. PICK x \in Entries :
                 /\ transcript[s] = <<x>>
                 /\ \/ packetBuffer = <<>> /\ OnlySent("header", x) /\ NoneSaid({"ack"})
                    \/ packetBuffer = <<x, Ack>> /\ NoneSent({"header"}) /\ OnceSaid("ack")
            BY <2>8 DEF Greeting
        <3>2. NoneSaid({"done", "task"})' /\ reply.kind \notin {"done", "task"}
              /\ NoneSent({"auth", "task"})' /\ state[s] = "hello"
            BY <2>3, <2>4, <2>8 DEF Greeting
        <3>3. CASE reply.kind = "zero"
            BY <1>1, <2>1, <2>3, <2>4, <2>6, <3>1, <3>2, <3>3 DEF Conversing, Greeting
        <3>4. CASE reply.kind = "ack"
            <4>1. packetBuffer = <<x, Ack>> /\ NoneSent({"header"})' /\ NoneSaid({"ack"})'
                BY <2>3, <2>4, <3>1, <3>4
            <4>2. NoneSent({"header", "auth", "task"})' /\ NoneSaid({"ack", "done", "task"})'
                BY <3>2, <4>1 DEF NoneSent, NoneSaid
            <4>3. state'[s] = "acked"
                BY <2>6, <3>2, <3>4 DEF SessionTypes
            <4> QED BY <1>1, <2>1, <3>1, <4>1, <4>2, <4>3 DEF Conversing, Acknowledged
        <3> QED BY <2>5, <3>2, <3>3, <3>4
    <2>9. CASE Acknowledged(s)
        <3>1. NoneSaid({"ack", "done", "task"})' /\ reply.kind = "zero"
            BY <2>3, <2>5, <2>9 DEF Acknowledged
        <3> QED BY <1>1, <2>1, <2>4, <2>6, <2>9, <3>1 DEF Conversing, Acknowledged
    <2>10. CASE Authenticating(s)
        <3>1. /\ NoneSent({"header", "task"})' /\ NoneSaid({"ack", "task"})'
              /\ reply.kind \in {"zero", "done"} /\ state[s] = "auth"
            BY <2>3, <2>4, <2>5, <2>10 DEF Authenticating
        <3>2. CASE reply.kind = "zero"
            <4>1. state' = state
                BY <2>6, <3>2
            <4>2. CASE /\ \E a \in Entries : transcript[s] = Append(packetBuffer, a) /\ OnlySent("auth", a)
                       /\ NoneSaid({"done"})
                BY <1>1, <2>1, <2>3, <2>4, <3>1, <4>1, <4>2 DEF Conversing, Authenticating
            <4>3. CASE /\ keys = transcript[s] /\ NoneSent({"auth"})
                       /\ OnceSaid("done") /\ SaidUnder("done", transcript[s])
                <5>1. PICK k : k = transcript[s]
                    OBVIOUS
                <5>2. NoneSent({"auth"})' /\ OnceSaid("done")' /\ SaidUnder("done", k)'
                    BY <2>3, <2>4, <4>3, <5>1
                <5> QED BY <1>1, <2>1, <3>1, <4>1, <4>3, <5>1, <5>2 DEF Conversing, Authenticating, SaidUnder
            <4> QED BY <2>10, <4>2, <4>3 DEF Authenticating
        <3>3. CASE reply.kind = "done"
            <4>1. /\ keys = transcript[s] /\ NoneSent({"auth"})
                  /\ OnceSaid("done") /\ SaidUnder("done", transcript[s])
                BY <2>3, <2>10, <3>3 DEF Authenticating
            <4>2. reply.key = transcript[s] /\ NoneSaid({"done"})' /\ NoneSent({"auth"})'
                BY <2>3, <2>4, <3>3, <4>1
            <4>3. state'[s] = "ready"
                BY <2>6, <3>1, <3>3, <4>2 DEF SessionTypes
            <4>4. NoneSent({"header", "auth"})' /\ NoneSaid({"ack", "done"})'
                BY <3>1, <4>2 DEF NoneSent, NoneSaid
            <4>5. SaidUnder("task", transcript[s])'
                BY <3>1 DEF NoneSaid, SaidUnder
            <4> QED BY <1>1, <2>1, <4>1, <4>3, <4>4, <4>5 DEF Conversing, Served
        <3> QED BY <3>1, <3>2, <3>3
    <2>11. CASE Served(s)
        <3>1. PICK k : k = transcript[s]
            OBVIOUS
        <3>2. /\ NoneSaid({"ack", "done"})' /\ reply.kind \in {"zero", "task"}
              /\ SaidUnder("task", k)' /\ (reply.kind = "task" => reply.key = k)
            BY <2>3, <2>5, <2>11, <3>1 DEF Served
        <3>3. state' = state /\ state[s] = "ready" /\ keys = k
            BY <2>6, <2>11, <3>1, <3>2 DEF Served
        <3>4. NoneSent({"header", "auth"})'
            BY <2>4, <2>11 DEF Served
        <3> QED BY <1>1, <2>1, <3>1, <3>2, <3>3, <3>4 DEF Conversing, Served, SaidUnder
    <2> QED BY <2>7, <2>8, <2>9, <2>10, <2>11 DEF Conversing
<1> QED BY <1>2, <1>3

(* A step that is none of the conversation leaves it where it is.             *)
LEMMA ConversationGoesOn ==
    ASSUME NEW s, NEW k, k = transcript[s], Conversing(s),
           UNCHANGED <<state, transcript, packetBuffer, keys>>,
           \A K : NoneSent(K) => NoneSent(K)',
           \A kind, e : OnlySent(kind, e) => OnlySent(kind, e)',
           \A K : NoneSaid(K) /\ "zero" \notin K => NoneSaid(K)',
           \A kind \in {"ack", "done"} : OnceSaid(kind) => OnceSaid(kind)',
           \A kind \in {"done", "task"} : SaidUnder(kind, k) => SaidUnder(kind, k)'
    PROVE  Conversing(s)'
<1>1. CASE Greeting(s)
    BY <1>1 DEF Conversing, Greeting
<1>2. CASE Acknowledged(s)
    BY <1>2 DEF Conversing, Acknowledged
<1>3. CASE Authenticating(s)
    <2>1. CASE /\ \E a \in Entries : transcript[s] = Append(packetBuffer, a) /\ OnlySent("auth", a)
               /\ NoneSaid({"done"})
        BY <1>3, <2>1 DEF Conversing, Authenticating
    <2>2. CASE /\ keys = transcript[s] /\ NoneSent({"auth"})
               /\ OnceSaid("done") /\ SaidUnder("done", transcript[s])
        <3>1. NoneSent({"auth"})' /\ OnceSaid("done")' /\ SaidUnder("done", k)'
            BY <2>2
        <3> QED BY <1>3, <2>2, <3>1 DEF Conversing, Authenticating, SaidUnder
    <2> QED BY <1>3, <2>1, <2>2 DEF Authenticating
<1>4. CASE Served(s)
    <2>1. SaidUnder("task", k)'
        BY <1>4 DEF Served
    <2> QED BY <1>4, <2>1 DEF Conversing, Served, SaidUnder
<1> QED BY <1>1, <1>2, <1>3, <1>4 DEF Conversing

(* What the service does in the first conversation.                           *)
LEMMA FirstHandles ==
    ASSUME Alone, SessionTypes, FirstInv, Handle
    PROVE  FirstInv'
<1> USE DEF FirstInv
<1> DEFINE p == inQueue[1]
<1>1. /\ UNCHANGED <<state, transcript, hellos, coalesced>> /\ inQueue # <<>>
      /\ Head(inQueue) = p /\ p \in Packets
    BY FrontIsTaken
<1>2. /\ \A K : NoneSent(K) => NoneSent(K)' /\ p[1].kind \notin K
      /\ \A kind, e : OnlySent(kind, e) =>
            /\ OnlySent(kind, e)'
            /\ p[1].kind = kind => NoneSent({kind})' /\ Parts(p) = e
    BY HandleSent
<1> SUFFICES ASSUME NEW s \in Sockets, hellos = 1, ~coalesced, Conversing(s)
             PROVE  Conversing(s)'
    BY <1>1
<1>3. PICK k : k = transcript[s]
    OBVIOUS
<1>4. CASE HandleZero
    <2>1. [kind |-> "zero"] \in Replies /\ SendReply([kind |-> "zero"])
          /\ UNCHANGED <<packetBuffer, keys>>
        BY <1>4 DEF HandleZero, Replies, service
    <2>2. /\ \A K : NoneSaid(K) /\ "zero" \notin K => NoneSaid(K)'
          /\ \A kind \in {"ack", "done"} : OnceSaid(kind) => OnceSaid(kind)'
          /\ \A kind \in {"done", "task"} : SaidUnder(kind, k) => SaidUnder(kind, k)'
        BY <2>1, ReplySaid
    <2> QED BY <1>1, <1>2, <1>3, <2>1, <2>2, ConversationGoesOn
<1>5. CASE HandleOther
    <2>1. UNCHANGED <<packetBuffer, keys, outQueue>>
        BY <1>5 DEF HandleOther, service
    <2>2. /\ \A K : NoneSaid(K) => NoneSaid(K)'
          /\ \A kind : OnceSaid(kind) => OnceSaid(kind)'
          /\ \A kind : SaidUnder(kind, k) => SaidUnder(kind, k)'
        BY <2>1 DEF NoneSaid, OnceSaid, SaidUnder
    <2> QED BY <1>1, <1>2, <1>3, <2>1, <2>2, ConversationGoesOn
<1>6. CASE HandleHeader
    <2>1. /\ [kind |-> "ack"] \in Replies /\ SendReply([kind |-> "ack"])
          /\ p[1].kind = "header"
          /\ packetBuffer' = packetBuffer \o <<Parts(p), Ack>>
        BY <1>1, <1>6 DEF HandleHeader, Replies, Handles
    <2>2. Greeting(s)
        BY <1>2, <2>1 DEF Conversing, Acknowledged, Authenticating, Served
    <2>3. PICK x \in Entries :
             /\ transcript[s] = <<x>>
             /\ packetBuffer = <<>> /\ OnlySent("header", x) /\ NoneSaid({"ack"})
        BY <1>2, <2>1, <2>2 DEF Greeting
    <2>4. Parts(p) = x /\ NoneSent({"header"})' /\ NoneSent({"auth", "task"})'
        BY <1>2, <2>1, <2>2, <2>3 DEF Greeting
    <2>5. packetBuffer' = <<x, Ack>>
        BY <2>1, <2>3, <2>4
    <2>6. OnceSaid("ack")
        BY <2>3 DEF OnceSaid, NoneSaid
    <2>7. OnceSaid("ack")' /\ NoneSaid({"done", "task"})'
        BY <2>1, <2>2, <2>3, <2>6, ReplySaid DEF Greeting
    <2> QED BY <1>1, <2>2, <2>3, <2>4, <2>5, <2>7 DEF Conversing, Greeting
<1>7. CASE HandleAuth
    <2>1. /\ packetBuffer' = Append(packetBuffer, Parts(p)) /\ keys' = packetBuffer'
          /\ SendReply([kind |-> "done", key |-> keys']) /\ p[1].kind = "auth"
        BY <1>1, <1>7 DEF HandleAuth, Handles
    <2>2. Authenticating(s)
        BY <1>2, <2>1 DEF Conversing, Acknowledged, Greeting, Served
    <2>3. PICK a \in Entries :
             transcript[s] = Append(packetBuffer, a) /\ OnlySent("auth", a) /\ NoneSaid({"done"})
        BY <1>2, <2>1, <2>2 DEF Authenticating
    <2>4. Parts(p) = a /\ NoneSent({"auth"})' /\ NoneSent({"header", "task"})'
        BY <1>2, <2>1, <2>2, <2>3 DEF Authenticating
    <2>5. keys' = k
        BY <1>3, <2>1, <2>3, <2>4
    <2>6. PICK r : r = [kind |-> "done", key |-> k]
        OBVIOUS
    <2>7. r \in Replies /\ SendReply(r) /\ r.kind = "done" /\ r.key = k
        <3>1. k \in Seq(Entries)
            BY <1>3 DEF SessionTypes
        <3> QED BY <2>1, <2>5, <2>6, <3>1 DEF Replies
    <2>8. OnceSaid("done") /\ SaidUnder("done", k)
        BY <2>3 DEF OnceSaid, SaidUnder, NoneSaid
    <2>9. OnceSaid("done")' /\ SaidUnder("done", k)' /\ NoneSaid({"ack", "task"})'
        BY <2>2, <2>3, <2>7, <2>8, ReplySaid DEF Authenticating
    <2> QED BY <1>1, <1>3, <2>2, <2>4, <2>5, <2>9 DEF Conversing, Authenticating, SaidUnder
<1>8. CASE HandleTask
    <2>1. /\ p[1].kind = "task" /\ UNCHANGED <<packetBuffer, keys>>
        BY <1>1, <1>8 DEF HandleTask, Handles
    <2>2. Served(s)
        BY <1>2, <2>1 DEF Conversing, Acknowledged, Greeting, Authenticating
    <2>3. PICK r \in Replies : SendReply(r) /\ r.kind = "task" /\ r.key = keys
        <3> DEFINE r == [kind |-> "task", key |-> keys, count |-> msgCount',
                         task |-> IF p[1].key = keys THEN p[1].n ELSE 0]
        <3>1. SendReply(r)
            BY <1>1, <1>8 DEF HandleTask
        <3>2. p[1] \in Messages
            BY <1>1, PartsOfPacket
        <3>3. r \in Replies
            BY <1>8, <3>2 DEF HandleTask, Replies, Messages, SessionTypes
        <3> QED BY <3>1, <3>3
    <2>4. NoneSaid({"ack", "done"})' /\ SaidUnder("task", k)'
        BY <1>3, <2>2, <2>3, ReplySaid DEF Served
    <2>5. NoneSent({"header", "auth"})'
        BY <1>2, <2>2 DEF Served
    <2> QED BY <1>1, <1>3, <2>1, <2>2, <2>4, <2>5 DEF Conversing, Served, SaidUnder
<1> QED BY <1>4, <1>5, <1>6, <1>7, <1>8 DEF Handle

LEMMA FirstGoesOn ==
    ASSUME Alone, SessionTypes, FirstInv, [Next]_vars
    PROVE  FirstInv'
<1>1. CASE UNCHANGED vars
    BY <1>1 DEF vars, service, client, FirstInv, Conversing, Greeting, Acknowledged, Authenticating,
                Served, NoneSent, NoneSaid, OnlySent, OnceSaid, SaidUnder
<1> QED BY <1>1, FirstSends, FirstReads, FirstHandles DEF Next, Client

(* The first conversation of the process is never refused, as long as every   *)
(* message comes in a packet of its own: its header is acknowledged, its      *)
(* response made with the keys of its own messages, its tasks answered under  *)
(* them (lobby_server.cpp).                                                   *)
THEOREM FirstIsNeverRefused == Spec => []FirstConversationIsAccepted
<1> DEFINE Inv == SessionTypes /\ (Alone => FirstInv)
<1>1. Init => Inv
    BY KeysStart DEF Init, KeysInv, FirstInv
<1>2. Inv /\ [Next]_vars => Inv'
    BY TypesKept, FirstGoesOn DEF Alone
<1>3. Inv => FirstConversationIsAccepted
    <2> SUFFICES ASSUME Inv, Alone, ~coalesced, NEW s \in Sockets, state[s] = "refused", ~(hellos > 1)
                 PROVE  FALSE
        BY DEF FirstConversationIsAccepted, OneMessageEach
    <2>1. hellos = 0 \/ hellos = 1
        BY DEF SessionTypes
    <2> QED BY <2>1 DEF FirstInv, Conversing, Greeting, Acknowledged, Authenticating, Served
<1> QED BY <1>1, <1>2, <1>3, PTL DEF Spec

-----------------------------------------------------------------------------
(* Tasks.  A conversation of later on is never accepted: what it has hashed   *)
(* begins with a header that is not the first of the process.                 *)

FirstOf(k) == k[1][1].n

(* The first header is hashed, or on its way, and its number is at most n.    *)
Greeted(n) ==
    IF packetBuffer # <<>> THEN FirstOf(packetBuffer) <= n
    ELSE \E i \in DOMAIN inQueue : inQueue[i][1].kind = "header" /\ inQueue[i][1].n <= n

IsLater(s) ==
    /\ transcript[s] # <<>> /\ FirstOf(transcript[s]) \in Nat /\ state[s] # "ready"
    /\ \E n \in Nat : n < FirstOf(transcript[s]) /\ Greeted(n)

EarlierInv ==
    /\ packetBuffer # <<>> => FirstOf(packetBuffer) \in Nat
    /\ \A i \in DOMAIN outQueue : outQueue[i].kind = "done" =>
          packetBuffer # <<>> /\ FirstOf(outQueue[i].key) = FirstOf(packetBuffer)
    /\ ~coalesced =>
          /\ hellos > 0 => \E n \in Nat : n <= sentCount /\ Greeted(n)
          /\ hellos > 1 => \A s \in Sockets : state[s] = "out" \/ IsLater(s)

LEMMA FirstStays ==
    ASSUME NEW k \in Seq(Entries), k # <<>>, NEW l \in Seq(Entries), NEW e \in Entries
    PROVE  /\ k \o l # <<>> /\ FirstOf(k \o l) = FirstOf(k)
           /\ Append(k, e) # <<>> /\ FirstOf(Append(k, e)) = FirstOf(k)
<1>1. /\ Len(k) \in Nat \ {0} /\ Len(k \o l) = Len(k) + Len(l) /\ (k \o l)[1] = k[1]
      /\ Len(Append(k, e)) = Len(k) + 1 /\ Append(k, e)[1] = k[1]
    OBVIOUS
<1> QED BY <1>1 DEF FirstOf

LEMMA BufferGrows ==
    ASSUME SessionTypes, Handle
    PROVE  /\ packetBuffer # <<>> =>
                 packetBuffer' # <<>> /\ FirstOf(packetBuffer') = FirstOf(packetBuffer)
           /\ packetBuffer = <<>> =>
                 \/ packetBuffer' = <<>> /\ inQueue[1][1].kind # "header"
                 \/ packetBuffer' # <<>> /\ FirstOf(packetBuffer') = inQueue[1][1].n
<1> DEFINE p == inQueue[1]
<1>1. Head(inQueue) = p /\ p \in Packets
    BY FrontIsTaken
<1>2. Parts(p) \in Entries /\ Parts(p)[1].n = p[1].n /\ Ack \in Entries /\ packetBuffer \in Seq(Entries)
    BY <1>1, PartsOfPacket DEF Entries, SessionTypes
<1>3. CASE HandleHeader
    <2>1. packetBuffer' = packetBuffer \o <<Parts(p), Ack>> /\ <<Parts(p), Ack>> \in Seq(Entries)
        BY <1>1, <1>2, <1>3 DEF HandleHeader
    <2>2. packetBuffer = <<>> => packetBuffer' = <<Parts(p), Ack>>
        BY <1>2, <2>1
    <2> QED BY <1>2, <2>1, <2>2, FirstStays DEF FirstOf
<1>4. CASE HandleAuth
    <2>1. packetBuffer' = Append(packetBuffer, Parts(p))
        BY <1>1, <1>4 DEF HandleAuth
    <2>2. packetBuffer = <<>> => packetBuffer' = <<Parts(p)>>
        BY <1>2, <2>1
    <2>3. <<>> \in Seq(Entries)
        OBVIOUS
    <2> QED BY <1>2, <2>1, <2>2, <2>3, FirstStays DEF FirstOf
<1>5. CASE HandleZero \/ HandleTask \/ HandleOther
    <2>1. packetBuffer' = packetBuffer /\ p[1].kind # "header"
        BY <1>1, <1>5 DEF HandleZero, HandleTask, HandleOther, Handles, service
    <2> QED BY <2>1
<1> QED BY <1>3, <1>4, <1>5 DEF Handle

(* The first header is handled before any message that came after it.         *)
LEMMA GreetedStays ==
    ASSUME SessionTypes, QueueInOrder, NEW n \in Nat, Greeted(n),
           \/ UNCHANGED <<packetBuffer, inQueue>>
           \/ packetBuffer' = packetBuffer /\ \E p \in Packets : inQueue' = Append(inQueue, p)
           \/ Handle
    PROVE  Greeted(n)'
<1>1. CASE UNCHANGED <<packetBuffer, inQueue>>
    BY <1>1 DEF Greeted
<1>2. CASE packetBuffer' = packetBuffer /\ \E p \in Packets : inQueue' = Append(inQueue, p)
    <2>1. \A i \in DOMAIN inQueue : i \in DOMAIN inQueue' /\ inQueue'[i] = inQueue[i]
        BY <1>2 DEF SessionTypes
    <2> QED BY <1>2, <2>1 DEF Greeted
<1>3. CASE Handle
    <2>1. CASE packetBuffer # <<>>
        BY <1>3, <2>1, BufferGrows DEF Greeted
    <2>2. CASE packetBuffer = <<>>
        <3>1. PICK i \in DOMAIN inQueue : inQueue[i][1].kind = "header" /\ inQueue[i][1].n <= n
            BY <2>2 DEF Greeted
        <3>2. 1 \in DOMAIN inQueue /\ inQueue' = Tail(inQueue) /\ inQueue \in Seq(Packets)
            BY <1>3, FrontIsTaken DEF Handle, HandleZero, HandleHeader, HandleAuth, HandleTask, HandleOther,
                                      Consume, SessionTypes
        <3>3. CASE packetBuffer' = <<>> /\ inQueue[1][1].kind # "header"
            <4>1. i # 1
                BY <3>1, <3>3
            <4>2. i - 1 \in DOMAIN inQueue' /\ inQueue'[i - 1] = inQueue[i]
                BY <3>2, <4>1
            <4> QED BY <3>1, <3>3, <4>2 DEF Greeted
        <3>4. CASE packetBuffer' # <<>> /\ FirstOf(packetBuffer') = inQueue[1][1].n
            <4>1. inQueue[1][1].n \in Nat /\ inQueue[i][1].n \in Nat
                BY <3>2, PacketInQueue
            <4>2. i = 1 \/ 1 < i
                BY <3>2
            <4>3. inQueue[1][1].n <= inQueue[i][1].n
                BY <3>2, <4>1, <4>2 DEF QueueInOrder
            <4>4. FirstOf(packetBuffer') <= n
                BY <3>1, <3>4, <4>1, <4>3
            <4> QED BY <3>4, <4>4 DEF Greeted
        <3> QED BY <1>3, <2>2, <3>3, <3>4, BufferGrows
    <2> QED BY <2>1, <2>2
<1> QED BY <1>1, <1>2, <1>3

LEMMA LaterSends ==
    ASSUME Alone, KeysInv, FirstInv, EarlierInv, NEW s \in Sockets,
           Hello(s) \/ Auth(s) \/ Task(s) \/ Noise(s)
    PROVE  EarlierInv'
<1>1. PICK kind \in Kinds : SendMessage(kind, s) /\ (Hello(s) => kind = "header")
    BY DEF Hello, Auth, Task, Noise, Kinds
<1>2. PICK p \in Packets :
         /\ inQueue' = Append(inQueue, p) /\ p[1].n = sentCount + 1
         /\ ~coalesced' => ~coalesced /\ p[1].kind = kind
    BY <1>1, SentPacket DEF KeysInv
<1>3. UNCHANGED <<packetBuffer, outQueue>> /\ sentCount' = sentCount + 1 /\ sentCount \in Nat
      /\ hellos \in Nat
    BY <1>1, SentPacket DEF Hello, Auth, Task, Noise, service, KeysInv, SessionTypes
<1>4. \A n \in Nat : Greeted(n) => Greeted(n)'
    BY <1>2, <1>3, GreetedStays DEF KeysInv
<1>5. ASSUME ~coalesced', hellos' > 0 PROVE \E n \in Nat : n <= sentCount' /\ Greeted(n)'
    <2>1. CASE hellos > 0
        <3>1. PICK n \in Nat : n <= sentCount /\ Greeted(n)
            BY <1>2, <1>5, <2>1 DEF EarlierInv
        <3> QED BY <1>3, <1>4, <3>1
    <2>2. CASE hellos = 0
        <3>1. Hello(s) /\ packetBuffer = <<>>
            BY <1>3, <2>2 DEF FirstInv, Hello, Auth, Task, Noise
        <3>2. p[1].kind = "header"
            BY <1>1, <1>2, <1>5, <3>1
        <3>3. PICK i \in DOMAIN inQueue' : inQueue'[i] = p
            BY <1>2, Appended DEF KeysInv, SessionTypes
        <3>4. PICK n \in Nat : n = sentCount + 1
            BY <1>3
        <3>5. Greeted(n)'
            BY <1>2, <1>3, <3>1, <3>2, <3>3, <3>4 DEF Greeted
        <3> QED BY <1>3, <3>4, <3>5
    <2> QED BY <1>3, <2>1, <2>2
<1>6. ASSUME ~coalesced', hellos' > 1 PROVE IsLater(s)'
    <2>1. CASE Hello(s)
        <3>1. hellos > 0 /\ ~coalesced
            BY <1>2, <1>3, <1>6, <2>1 DEF Hello
        <3>2. PICK n \in Nat : n <= sentCount /\ Greeted(n)'
            BY <1>4, <3>1 DEF EarlierInv
        <3>3. /\ transcript'[s] = << <<[kind |-> "header", from |-> s, n |-> sentCount']>> >>
              /\ state'[s] = "hello"
            BY <2>1 DEF Hello, KeysInv, SessionTypes
        <3>4. transcript'[s] # <<>> /\ FirstOf(transcript'[s]) = sentCount + 1
            BY <1>3, <3>3 DEF FirstOf
        <3> QED BY <1>3, <3>2, <3>3, <3>4 DEF IsLater, FirstOf
    <2>2. CASE Auth(s) \/ Task(s) \/ Noise(s)
        <3>1. IsLater(s)
            BY <1>2, <1>6, <2>2 DEF EarlierInv, Auth, Task, Noise
        <3>2. state'[s] # "ready"
            BY <2>2, <3>1 DEF Auth, Task, Noise, client, IsLater, KeysInv, SessionTypes
        <3>3. transcript'[s] # <<>> /\ FirstOf(transcript'[s]) = FirstOf(transcript[s])
            <4>1. CASE Auth(s)
                <5> DEFINE a == <<[kind |-> "auth", from |-> s, n |-> sentCount']>>
                <5>1. transcript'[s] = transcript[s] \o <<Ack, a>> /\ transcript[s] \in Seq(Entries)
                    BY <4>1 DEF Auth, KeysInv, SessionTypes
                <5>2. a \in Entries /\ Ack \in Entries
                    BY <1>3 DEF Entries, PartRecords, Kinds
                <5> HIDE DEF a
                <5>3. <<Ack, a>> \in Seq(Entries)
                    BY <5>2
                <5> QED BY <3>1, <5>1, <5>2, <5>3, FirstStays DEF IsLater
            <4>2. CASE Task(s) \/ Noise(s)
                BY <3>1, <4>2 DEF Task, Noise, client, IsLater
            <4> QED BY <2>2, <4>1, <4>2
        <3> QED BY <1>4, <3>1, <3>2, <3>3 DEF IsLater, FirstOf
    <2> QED BY <2>1, <2>2
<1>7. \A t \in Sockets : t = s
    BY OneClient
<1>8. /\ packetBuffer' # <<>> => FirstOf(packetBuffer') \in Nat
      /\ \A i \in DOMAIN outQueue' : outQueue'[i].kind = "done" =>
            packetBuffer' # <<>> /\ FirstOf(outQueue'[i].key) = FirstOf(packetBuffer')
    BY <1>3 DEF EarlierInv
<1> QED BY <1>5, <1>6, <1>7, <1>8 DEF EarlierInv, FirstOf

LEMMA LaterReads ==
    ASSUME Alone, KeysInv, EarlierInv, NEW s \in Sockets, Read(s) \/ Close(s)
    PROVE  EarlierInv'
<1>1. UNCHANGED <<packetBuffer, inQueue, sentCount, hellos, coalesced>> /\ state[s] # "out"
    BY DEF Read, Close, service
<1>2. \A n : Greeted(n)' = Greeted(n)
    BY <1>1 DEF Greeted, FirstOf
<1>3. outQueue \in Seq(Replies)
    BY DEF KeysInv, SessionTypes
<1>4. \A i \in DOMAIN outQueue' : outQueue'[i].kind = "done" =>
         packetBuffer' # <<>> /\ FirstOf(outQueue'[i].key) = FirstOf(packetBuffer')
    <2>1. CASE outQueue' = outQueue
        BY <1>1, <2>1 DEF EarlierInv
    <2>2. CASE outQueue # <<>> /\ outQueue' = Tail(outQueue)
        <3>1. \A i \in DOMAIN outQueue' : i + 1 \in DOMAIN outQueue /\ outQueue'[i] = outQueue[i + 1]
            BY <1>3, <2>2, Taken
        <3> QED BY <1>1, <3>1 DEF EarlierInv
    <2> QED BY <2>1, <2>2 DEF Read, Close
<1>5. ASSUME ~coalesced, hellos > 1 PROVE state'[s] = "out" \/ IsLater(s)'
    <2>1. IsLater(s)
        BY <1>1, <1>5 DEF EarlierInv
    <2>2. CASE Close(s)
        BY <2>2 DEF Close, KeysInv, SessionTypes
    <2>3. CASE Read(s)
        <3>1. transcript' = transcript
            BY <2>3 DEF Read
        <3>2. state'[s] # "ready"
            <4> SUFFICES ASSUME state'[s] = "ready" PROVE FALSE
                OBVIOUS
            <4>1. /\ outQueue # <<>> /\ Head(outQueue).kind = "done"
                  /\ Head(outQueue).key = transcript[s]
                BY <2>1, <2>3 DEF Read, IsLater, KeysInv, SessionTypes
            <4>2. Head(outQueue) = outQueue[1] /\ 1 \in DOMAIN outQueue
                BY <1>3, <4>1, Taken
            <4>3. packetBuffer # <<>> /\ FirstOf(transcript[s]) = FirstOf(packetBuffer)
                BY <4>1, <4>2 DEF EarlierInv
            <4> QED BY <2>1, <4>3 DEF IsLater, Greeted
        <3> QED BY <1>2, <2>1, <3>1, <3>2 DEF IsLater, FirstOf
    <2> QED BY <2>2, <2>3
<1>6. \A t \in Sockets : t = s
    BY OneClient
<1>7. packetBuffer' # <<>> => FirstOf(packetBuffer') \in Nat
    BY <1>1 DEF EarlierInv
<1> QED BY <1>1, <1>2, <1>4, <1>5, <1>6, <1>7 DEF EarlierInv, FirstOf

LEMMA LaterHandles ==
    ASSUME KeysInv, EarlierInv, Handle
    PROVE  EarlierInv'
<1>1. UNCHANGED <<state, transcript, sentCount, hellos, coalesced>> /\ sentCount \in Nat
    BY FrontIsTaken DEF KeysInv, SessionTypes
<1>2. \A n \in Nat : Greeted(n) => Greeted(n)'
    BY GreetedStays DEF KeysInv
<1>3. inQueue[1][1].n \in Nat
    BY FrontIsTaken, PacketInQueue DEF KeysInv
<1>4. packetBuffer' # <<>> => FirstOf(packetBuffer') \in Nat
    BY <1>3, BufferGrows DEF EarlierInv, KeysInv
<1>5. \A i \in DOMAIN outQueue' : outQueue'[i].kind = "done" =>
         packetBuffer' # <<>> /\ FirstOf(outQueue'[i].key) = FirstOf(packetBuffer')
    <2>1. \A i \in DOMAIN outQueue : outQueue[i].kind = "done" =>
             packetBuffer' # <<>> /\ FirstOf(outQueue[i].key) = FirstOf(packetBuffer')
        BY BufferGrows DEF EarlierInv, KeysInv
    <2>2. outQueue \in Seq(Replies) /\ outQueue' \in Seq(Replies) /\ keys' \in Seq(Entries)
        BY TypesKept DEF KeysInv, SessionTypes, Next
    <2>3. CASE HandleAuth
        <3>1. /\ outQueue' = Append(outQueue, [kind |-> "done", key |-> keys'])
              /\ keys' = packetBuffer' /\ packetBuffer' = Append(packetBuffer, Parts(Head(inQueue)))
            BY <2>3 DEF HandleAuth, SendReply
        <3>2. packetBuffer' # <<>>
            BY <3>1, FrontIsTaken, NumberOfPacket DEF KeysInv, SessionTypes
        <3>3. [kind |-> "done", key |-> keys'] \in Replies
            BY <2>2 DEF Replies
        <3>4. \A i \in DOMAIN outQueue' : \/ i \in DOMAIN outQueue /\ outQueue'[i] = outQueue[i]
                                          \/ outQueue'[i].key = packetBuffer'
            BY <2>2, <3>1, <3>3, Appended
        <3> QED BY <2>1, <3>2, <3>4
    <2>4. CASE HandleZero \/ HandleHeader \/ HandleTask \/ HandleOther
        <3>1. outQueue' = outQueue \/ \E r : r.kind \in {"zero", "ack", "task"} /\ outQueue' = Append(outQueue, r)
            BY <2>4 DEF HandleZero, HandleHeader, HandleTask, HandleOther, SendReply, service
        <3>2. \A i \in DOMAIN outQueue' : outQueue'[i].kind = "done" => i \in DOMAIN outQueue /\ outQueue'[i] = outQueue[i]
            BY <2>2, <3>1
        <3> QED BY <2>1, <3>2
    <2> QED BY <2>3, <2>4 DEF Handle
<1>6. ~coalesced /\ hellos > 0 => \E n \in Nat : n <= sentCount' /\ Greeted(n)'
    BY <1>1, <1>2 DEF EarlierInv
<1>7. ASSUME ~coalesced, hellos > 1, NEW s \in Sockets PROVE state[s] = "out" \/ IsLater(s)'
    BY <1>1, <1>2, <1>7 DEF EarlierInv, IsLater, FirstOf
<1> QED BY <1>1, <1>4, <1>5, <1>6, <1>7 DEF EarlierInv, FirstOf

(* The tasks of the first conversation, while it is served.                   *)
Waiting(s) ==
    asked[s] = {outQueue[i].task : i \in Answers} \cup {inQueue[i][1].n : i \in Requests}

AnswersInOrder ==
    \A i, j \in Answers : i < j => /\ outQueue[i].task < outQueue[j].task
                                   /\ outQueue[i].count < outQueue[j].count

AnswersGoFirst == \A i \in Answers, j \in Requests : outQueue[i].task < inQueue[j][1].n

NoneSkipped ==
    \A i \in Answers : \A c \in outQueue[i].count .. msgCount :
        \E j \in Answers : outQueue[j].count = c

Serving(s) ==
    /\ Waiting(s) /\ AnswersInOrder /\ AnswersGoFirst /\ NoneSkipped
    /\ \A i \in Answers : outQueue[i].task <= sentCount /\ outQueue[i].count <= msgCount
    /\ \A i \in Requests : inQueue[i][1].key = transcript[s]

AskedInv ==
    /\ asked \in [Sockets -> SUBSET Nat]
    /\ \A s \in Sockets :
          /\ state[s] \notin {"ready", "refused"} => asked[s] = {}
          /\ ~coalesced /\ hellos = 1 /\ state[s] = "ready" => Serving(s)

LEMMA NumbersAre ==
    ASSUME SessionTypes
    PROVE  /\ \A i \in Answers : /\ i \in Nat /\ 1 <= i /\ outQueue[i].task \in Nat
                                 /\ outQueue[i].count \in Nat
           /\ \A i \in Requests : inQueue[i][1].n \in Nat
<1>1. ASSUME NEW i \in Answers
      PROVE  /\ i \in Nat /\ 1 <= i /\ outQueue[i].task \in Nat
             /\ outQueue[i].count \in Nat
    <2>1. i \in DOMAIN outQueue /\ outQueue[i].kind = "task" /\ outQueue \in Seq(Replies)
        BY DEF Answers, SessionTypes
    <2>2. outQueue[i] \in Replies /\ i \in Nat /\ 1 <= i
        BY <2>1
    <2> QED BY <2>1, <2>2 DEF Replies
<1>2. \A i \in Requests : inQueue[i][1].n \in Nat
    BY PacketInQueue DEF Requests
<1> QED BY <1>1, <1>2

LEMMA AnswerRead ==
    ASSUME SessionTypes, outQueue # <<>>, outQueue' = Tail(outQueue)
    PROVE  /\ \A i \in Answers' : /\ i + 1 \in Answers /\ i \in Nat /\ 1 < i + 1
                                  /\ outQueue'[i] = outQueue[i + 1]
           /\ \A i \in Answers : i # 1 => i - 1 \in Answers' /\ outQueue'[i - 1] = outQueue[i]
           /\ Head(outQueue) = outQueue[1]
           /\ Head(outQueue).kind = "task" => 1 \in Answers
           /\ Head(outQueue).kind # "task" => 1 \notin Answers
<1>1. /\ outQueue \in Seq(Replies) /\ Head(outQueue) = outQueue[1] /\ 1 \in DOMAIN outQueue
      /\ \A i \in DOMAIN outQueue' : i + 1 \in DOMAIN outQueue /\ i \in Nat /\ outQueue'[i] = outQueue[i + 1]
    BY Taken DEF SessionTypes
<1>2. \A i \in DOMAIN outQueue' : 1 < i + 1
    BY <1>1
<1>3. \A i \in DOMAIN outQueue : i # 1 => i - 1 \in DOMAIN outQueue' /\ outQueue'[i - 1] = outQueue[i]
    BY <1>1
<1> QED BY <1>1, <1>2, <1>3 DEF Answers

LEMMA RequestTaken ==
    ASSUME SessionTypes, Handle
    PROVE  /\ \A i \in Requests' : /\ i + 1 \in Requests /\ i \in Nat /\ 1 < i + 1
                                   /\ inQueue'[i] = inQueue[i + 1]
           /\ \A i \in Requests : i # 1 => i - 1 \in Requests' /\ inQueue'[i - 1] = inQueue[i]
           /\ 1 \in Requests <=> HandleTask
<1>1. /\ Head(inQueue) = inQueue[1] /\ 1 \in DOMAIN inQueue
      /\ \A i \in DOMAIN inQueue' :
            i + 1 \in DOMAIN inQueue /\ i \in Nat /\ 1 < i + 1 /\ inQueue'[i] = inQueue[i + 1]
    BY FrontIsTaken
<1>2. inQueue' = Tail(inQueue) /\ inQueue \in Seq(Packets)
    BY DEF Handle, HandleZero, HandleHeader, HandleAuth, HandleTask, HandleOther, Consume, SessionTypes
<1>3. \A i \in DOMAIN inQueue : i # 1 => i - 1 \in DOMAIN inQueue' /\ inQueue'[i - 1] = inQueue[i]
    BY <1>1, <1>2
<1>4. inQueue[1][1].kind = "task" <=> HandleTask
    BY <1>1 DEF Handle, HandleZero, HandleHeader, HandleAuth, HandleTask, HandleOther, Handles
<1> QED BY <1>1, <1>3, <1>4 DEF Requests

LEMMA AnswerJoins ==
    ASSUME SessionTypes, NEW r \in Replies, SendReply(r)
    PROVE  /\ \A i \in Answers : i \in Answers' /\ outQueue'[i] = outQueue[i] /\ i < Len(outQueue) + 1
           /\ \A i \in Answers' : \/ i \in Answers /\ outQueue'[i] = outQueue[i]
                                  \/ i = Len(outQueue) + 1 /\ outQueue'[i] = r /\ r.kind = "task"
           /\ r.kind = "task" => Len(outQueue) + 1 \in Answers' /\ outQueue'[Len(outQueue) + 1] = r
<1>1. outQueue \in Seq(Replies) /\ outQueue' = Append(outQueue, r)
    BY DEF SendReply, SessionTypes
<1>2. /\ \A i \in DOMAIN outQueue : i \in DOMAIN outQueue' /\ outQueue'[i] = outQueue[i] /\ i < Len(outQueue) + 1
      /\ \A i \in DOMAIN outQueue' : \/ i \in DOMAIN outQueue /\ outQueue'[i] = outQueue[i]
                                     \/ i = Len(outQueue) + 1 /\ outQueue'[i] = r
      /\ Len(outQueue) + 1 \in DOMAIN outQueue' /\ outQueue'[Len(outQueue) + 1] = r
    BY <1>1
<1> QED BY <1>2 DEF Answers

LEMMA AskedSends ==
    ASSUME Alone, KeysInv, FirstInv, AskedInv, NEW s \in Sockets,
           Hello(s) \/ Auth(s) \/ Task(s) \/ Noise(s)
    PROVE  AskedInv'
<1>1. \A t \in Sockets : t = s
    BY OneClient
<1>2. SessionTypes /\ SessionTypes'
    BY TypesKept DEF KeysInv, Next, Client
<1>3. UNCHANGED <<outQueue, msgCount>> /\ Answers' = Answers
    BY DEF Hello, Auth, Task, Noise, service, Answers
<1>4. asked' \in [Sockets -> SUBSET Nat]
    <2>1. sentCount' \in Nat
        BY <1>2 DEF SessionTypes
    <2> QED BY <2>1 DEF Hello, Auth, Task, Noise, client, AskedInv
<1>5. state'[s] \notin {"ready", "refused"} => asked'[s] = {}
    BY DEF Hello, Auth, Task, Noise, client, AskedInv, KeysInv, SessionTypes
<1>6. ASSUME ~coalesced', hellos' = 1, state'[s] = "ready" PROVE Serving(s)'
    <2>1. /\ Task(s) \/ Noise(s)
          /\ state' = state /\ transcript' = transcript /\ hellos' = hellos
        BY <1>6 DEF Hello, Auth, Task, Noise, client, KeysInv, SessionTypes
    <2>2. PICK kind \in {"task", "zero", "short", "unknown"} :
             SendMessage(kind, s) /\ (kind = "task" <=> Task(s))
        BY <2>1 DEF Task, Noise, client, AskedInv
    <2>3. PICK p \in Packets :
             /\ inQueue' = Append(inQueue, p) /\ p[1].n = sentCount + 1
             /\ ~coalesced /\ p[1].kind = kind /\ p[1].key = transcript[s]
        BY <1>2, <1>6, <2>2, SentPacket DEF Kinds
    <2>4. sentCount' = sentCount + 1 /\ sentCount \in Nat
        BY <1>2, <2>2, SentPacket DEF Kinds, SessionTypes
    <2>5. Serving(s)
        BY <1>6, <2>1, <2>3 DEF AskedInv
    <2>6. /\ \A i \in Requests : i \in Requests' /\ inQueue'[i] = inQueue[i]
          /\ \A i \in Requests' : \/ i \in Requests /\ inQueue'[i] = inQueue[i]
                                  \/ inQueue'[i] = p /\ kind = "task"
          /\ kind = "task" => \E i \in Requests' : inQueue'[i] = p
        <3>1. /\ inQueue \in Seq(Packets)
              /\ Len(inQueue) + 1 \in DOMAIN inQueue' /\ inQueue'[Len(inQueue) + 1] = p
            BY <1>2, <2>3 DEF SessionTypes
        <3>2. /\ \A i \in DOMAIN inQueue : i \in DOMAIN inQueue' /\ inQueue'[i] = inQueue[i]
              /\ \A i \in DOMAIN inQueue' : \/ i \in DOMAIN inQueue /\ inQueue'[i] = inQueue[i]
                                            \/ inQueue'[i] = p
            BY <2>3, <3>1
        <3> QED BY <2>3, <3>1, <3>2 DEF Requests
    <2>7. asked'[s] = asked[s] \cup (IF kind = "task" THEN {sentCount + 1} ELSE {})
        BY <2>1, <2>2, <2>4 DEF Task, Noise, client, AskedInv
    <2>8. Waiting(s)'
        <3>1. {inQueue'[i][1].n : i \in Requests'}
                 = {inQueue[i][1].n : i \in Requests} \cup (IF kind = "task" THEN {sentCount + 1} ELSE {})
            <4>1. CASE kind = "task"
                BY <2>3, <2>6, <4>1
            <4>2. CASE kind # "task"
                BY <2>6, <4>2
            <4> QED BY <4>1, <4>2
        <3>2. {outQueue'[i].task : i \in Answers'} = {outQueue[i].task : i \in Answers}
            BY <1>3
        <3> QED BY <2>5, <2>7, <3>1, <3>2 DEF Serving, Waiting
    <2>9. AnswersInOrder' /\ NoneSkipped'
        BY <1>3, <2>5 DEF Serving, AnswersInOrder, NoneSkipped
    <2>10. AnswersGoFirst'
        <3>1. ASSUME NEW i \in Answers, NEW j \in Requests' PROVE outQueue[i].task < inQueue'[j][1].n
            <4>1. outQueue[i].task \in Nat /\ outQueue[i].task <= sentCount
                BY <1>2, <2>5, NumbersAre DEF Serving
            <4>2. CASE j \in Requests /\ inQueue'[j] = inQueue[j]
                BY <2>5, <4>2 DEF Serving, AnswersGoFirst
            <4>3. CASE inQueue'[j] = p
                BY <2>3, <2>4, <4>1, <4>3
            <4> QED BY <2>6, <4>2, <4>3
        <3> QED BY <1>3, <3>1 DEF AnswersGoFirst
    <2>11. \A i \in Answers' : outQueue'[i].task <= sentCount' /\ outQueue'[i].count <= msgCount'
        BY <1>2, <1>3, <2>4, <2>5, NumbersAre DEF Serving
    <2>12. \A i \in Requests' : inQueue'[i][1].key = transcript'[s]
        BY <2>1, <2>3, <2>5, <2>6 DEF Serving
    <2> QED BY <2>8, <2>9, <2>10, <2>11, <2>12 DEF Serving
<1> QED BY <1>1, <1>4, <1>5, <1>6 DEF AskedInv

LEMMA AskedReads ==
    ASSUME Alone, KeysInv, FirstInv, AskedInv, NEW s \in Sockets, Read(s) \/ Close(s)
    PROVE  AskedInv'
<1>1. \A t \in Sockets : t = s
    BY OneClient
<1>2. SessionTypes
    BY DEF KeysInv
<1>3. /\ UNCHANGED <<inQueue, msgCount, sentCount, hellos, coalesced>> /\ Requests' = Requests
      /\ state[s] # "out"
    BY DEF Read, Close, service, Requests
<1>4. asked' \in [Sockets -> SUBSET Nat]
    BY DEF Read, Close, AskedInv
<1>5. state'[s] \notin {"ready", "refused"} => asked'[s] = {}
    BY DEF Read, Close, AskedInv, KeysInv, SessionTypes
<1>6. ASSUME ~coalesced, hellos = 1, state'[s] = "ready" PROVE Serving(s)'
    <2>1. Read(s) /\ outQueue # <<>> /\ outQueue' = Tail(outQueue) /\ transcript' = transcript
        BY <1>2, <1>6 DEF Read, Close, SessionTypes
    <2>2. /\ \A i \in Answers' : /\ i + 1 \in Answers /\ i \in Nat /\ 1 < i + 1
                                 /\ outQueue'[i] = outQueue[i + 1]
          /\ \A i \in Answers : i # 1 => i - 1 \in Answers' /\ outQueue'[i - 1] = outQueue[i]
          /\ Head(outQueue) = outQueue[1]
          /\ Head(outQueue).kind = "task" => 1 \in Answers
          /\ Head(outQueue).kind # "task" => 1 \notin Answers
        BY <1>2, <2>1, AnswerRead
    <2>3. \/ state[s] = "auth" /\ Head(outQueue).kind = "done" /\ asked' = asked
          \/ state[s] = "ready" /\ Head(outQueue).kind = "zero" /\ asked' = asked
          \/ /\ state[s] = "ready" /\ Head(outQueue).kind = "task"
             /\ asked'[s] = asked[s] \ {Head(outQueue).task}
        <3>1. Head(outQueue) \in Replies
            BY <1>2, <2>1, Taken DEF SessionTypes
        <3>2. Head(outQueue).kind \in {"zero", "ack", "done", "task"}
            BY <3>1 DEF Replies
        <3> QED BY <1>2, <1>6, <2>1, <3>2 DEF Read, AskedInv, SessionTypes
    <2>4. CASE state[s] = "auth" /\ Head(outQueue).kind = "done" /\ asked' = asked
        <3>1. Authenticating(s)
            BY <1>3, <1>6, <2>4 DEF FirstInv, Conversing, Greeting, Acknowledged, Served
        <3>2. Requests = {} /\ Answers = {}
            BY <3>1 DEF Authenticating, NoneSent, NoneSaid, Requests, Answers
        <3>3. asked'[s] = {}
            BY <2>4 DEF AskedInv
        <3>4. Requests' = {} /\ Answers' = {}
            BY <1>3, <2>2, <3>2
        <3> QED BY <3>3, <3>4 DEF Serving, Waiting, AnswersInOrder, AnswersGoFirst, NoneSkipped
    <2>5. CASE state[s] = "ready"
        <3>1. Serving(s)
            BY <1>6, <2>5 DEF AskedInv
        <3>2. AnswersInOrder'
            <4>1. ASSUME NEW i \in Answers', NEW j \in Answers', i < j
                  PROVE  outQueue'[i].task < outQueue'[j].task /\ outQueue'[i].count < outQueue'[j].count
                <5>1. i + 1 \in Answers /\ j + 1 \in Answers /\ i + 1 < j + 1
                    BY <2>2, <4>1
                <5> QED BY <2>2, <3>1, <5>1 DEF Serving, AnswersInOrder
            <4> QED BY <4>1 DEF AnswersInOrder
        <3>3. AnswersGoFirst'
            BY <1>3, <2>2, <3>1 DEF Serving, AnswersGoFirst
        <3>4. NoneSkipped'
            <4>1. ASSUME NEW i \in Answers', NEW c \in outQueue'[i].count .. msgCount
                  PROVE  \E j \in Answers' : outQueue'[j].count = c
                <5>1. i + 1 \in Answers /\ outQueue'[i].count = outQueue[i + 1].count
                    BY <2>2
                <5>2. PICK j \in Answers : outQueue[j].count = c
                    BY <3>1, <4>1, <5>1 DEF Serving, NoneSkipped
                <5>3. j # 1
                    <6> SUFFICES ASSUME j = 1 PROVE FALSE
                        OBVIOUS
                    <6>1. outQueue[j].count < outQueue[i + 1].count
                        BY <2>2, <3>1, <5>1 DEF Serving, AnswersInOrder
                    <6>2. outQueue[j].count \in Nat /\ outQueue[i + 1].count \in Nat
                        BY <1>2, <5>1, NumbersAre
                    <6>3. outQueue[i + 1].count <= c
                        BY <4>1, <5>1
                    <6> QED BY <5>2, <6>1, <6>2, <6>3
                <5> QED BY <2>2, <5>2, <5>3
            <4> QED BY <1>3, <4>1 DEF NoneSkipped
        <3>5. \A i \in Answers' : outQueue'[i].task <= sentCount' /\ outQueue'[i].count <= msgCount'
            BY <1>3, <2>2, <3>1 DEF Serving
        <3>6. \A i \in Requests' : inQueue'[i][1].key = transcript'[s]
            BY <1>3, <2>1, <3>1 DEF Serving
        <3>7. Waiting(s)'
            <4>1. CASE Head(outQueue).kind = "task"
                <5>1. 1 \in Answers /\ asked'[s] = asked[s] \ {outQueue[1].task}
                    BY <2>2, <2>3, <2>5, <4>1
                <5>2. /\ \A i \in Answers : i # 1 => outQueue[i].task # outQueue[1].task
                      /\ \A i \in Requests : inQueue[i][1].n # outQueue[1].task
                    <6>1. ASSUME NEW i \in Answers, i # 1 PROVE outQueue[i].task # outQueue[1].task
                        <7>1. 1 < i /\ outQueue[i].task \in Nat /\ outQueue[1].task \in Nat
                            BY <1>2, <5>1, <6>1, NumbersAre
                        <7>2. outQueue[1].task < outQueue[i].task
                            BY <3>1, <5>1, <7>1 DEF Serving, AnswersInOrder
                        <7> QED BY <7>1, <7>2
                    <6>2. ASSUME NEW i \in Requests PROVE inQueue[i][1].n # outQueue[1].task
                        BY <1>2, <3>1, <5>1, NumbersAre DEF Serving, AnswersGoFirst
                    <6> QED BY <6>1, <6>2
                <5>3. {outQueue'[i].task : i \in Answers'} = {outQueue[i].task : i \in Answers} \ {outQueue[1].task}
                    <6>1. \A i \in Answers' : i + 1 # 1
                        BY <2>2
                    <6> QED BY <2>2, <5>2, <6>1
                <5> QED BY <1>3, <3>1, <5>1, <5>2, <5>3 DEF Serving, Waiting
            <4>2. CASE Head(outQueue).kind # "task"
                <5>1. asked' = asked /\ 1 \notin Answers
                    BY <2>2, <2>3, <4>2
                <5>2. {outQueue'[i].task : i \in Answers'} = {outQueue[i].task : i \in Answers}
                    BY <2>2, <5>1
                <5> QED BY <1>3, <3>1, <5>1, <5>2 DEF Serving, Waiting
            <4> QED BY <4>1, <4>2
        <3> QED BY <3>2, <3>3, <3>4, <3>5, <3>6, <3>7 DEF Serving
    <2> QED BY <2>3, <2>4, <2>5
<1> QED BY <1>1, <1>3, <1>4, <1>5, <1>6 DEF AskedInv

LEMMA AskedHandles ==
    ASSUME KeysInv, FirstInv, AskedInv, Handle
    PROVE  AskedInv'
<1>1. UNCHANGED <<state, transcript, asked, sentCount, hellos, coalesced>>
    BY DEF Handle, HandleZero, HandleHeader, HandleAuth, HandleTask, HandleOther, Consume, client
<1>2. SessionTypes /\ msgCount \in Nat
    BY DEF KeysInv, SessionTypes
<1>3. ASSUME NEW s \in Sockets, ~coalesced, hellos = 1, state[s] = "ready" PROVE Serving(s)'
    <2>1. Serving(s) /\ Served(s)
        BY <1>3 DEF AskedInv, FirstInv, Conversing, Greeting, Acknowledged, Authenticating
    <2>2. /\ \A i \in Requests' : /\ i + 1 \in Requests /\ i \in Nat /\ 1 < i + 1
                                  /\ inQueue'[i] = inQueue[i + 1]
          /\ \A i \in Requests : i # 1 => i - 1 \in Requests' /\ inQueue'[i - 1] = inQueue[i]
          /\ 1 \in Requests <=> HandleTask
        BY <1>2, RequestTaken
    <2>3. \A i \in Requests' : inQueue'[i][1].key = transcript'[s]
        BY <1>1, <2>1, <2>2 DEF Serving
    <2>4. CASE HandleTask
        <3>1. Head(inQueue) = inQueue[1] /\ 1 \in Requests /\ 1 \in DOMAIN inQueue
            BY <1>2, <2>2, <2>4, FrontIsTaken DEF Handle
        <3>2. PICK n \in Nat : n = inQueue[1][1].n
            BY <1>2, <3>1, NumbersAre
        <3>3. inQueue[1][1].key = keys /\ keys \in Seq(Entries)
            BY <1>2, <2>1, <3>1 DEF Serving, Served, SessionTypes
        <3>4. msgCount' = msgCount + 1
            BY <2>4 DEF HandleTask
        <3>5. PICK r \in Replies : SendReply(r) /\ r.kind = "task" /\ r.task = n /\ r.count = msgCount + 1
            <4> DEFINE r == [kind |-> "task", key |-> keys, count |-> msgCount + 1, task |-> n]
            <4>1. SendReply(r)
                BY <2>4, <3>1, <3>2, <3>3, <3>4 DEF HandleTask
            <4>2. r \in Replies
                BY <1>2, <3>3 DEF Replies
            <4> QED BY <4>1, <4>2
        <3>6. PICK l \in Nat : l = Len(outQueue) + 1
            BY <1>2 DEF SessionTypes
        <3>7. /\ \A i \in Answers : i \in Answers' /\ outQueue'[i] = outQueue[i] /\ i < l
              /\ \A i \in Answers' : \/ i \in Answers /\ outQueue'[i] = outQueue[i]
                                     \/ i = l /\ outQueue'[i] = r
              /\ l \in Answers' /\ outQueue'[l] = r
            BY <1>2, <3>5, <3>6, AnswerJoins
        <3>8. \A i \in Answers : /\ outQueue[i].task < n /\ outQueue[i].count < r.count
                                 /\ outQueue[i].task \in Nat /\ outQueue[i].count \in Nat /\ i \in Nat
            BY <1>2, <2>1, <3>1, <3>2, <3>5, NumbersAre DEF Serving, AnswersGoFirst
        <3>9. \A i \in Requests' : n < inQueue'[i][1].n
            <4>1. QueueInOrder
                BY DEF KeysInv
            <4>2. \A i \in DOMAIN inQueue : 1 < i => inQueue[1][1].n < inQueue[i][1].n
                BY <3>1, <4>1 DEF QueueInOrder
            <4>3. \A i \in Requests : i \in DOMAIN inQueue
                BY DEF Requests
            <4> QED BY <2>2, <3>2, <4>2, <4>3
        <3>10. Waiting(s)'
            <4>1. {outQueue'[i].task : i \in Answers'} = {outQueue[i].task : i \in Answers} \cup {n}
                <5>1. \A i \in Answers' : outQueue'[i].task = n \/ \E j \in Answers : outQueue[j].task = outQueue'[i].task
                    BY <3>5, <3>7
                <5>2. \A j \in Answers : \E i \in Answers' : outQueue'[i].task = outQueue[j].task
                    BY <3>7
                <5>3. \E i \in Answers' : outQueue'[i].task = n
                    BY <3>5, <3>7
                <5> QED BY <5>1, <5>2, <5>3
            <4>2. {inQueue[i][1].n : i \in Requests} = {inQueue'[i][1].n : i \in Requests'} \cup {n}
                <5>1. \A i \in Requests : inQueue[i][1].n = n \/ \E j \in Requests' : inQueue'[j][1].n = inQueue[i][1].n
                    BY <2>2, <3>2
                <5>2. \A j \in Requests' : \E i \in Requests : inQueue[i][1].n = inQueue'[j][1].n
                    BY <2>2
                <5> QED BY <3>1, <3>2, <5>1, <5>2
            <4> QED BY <1>1, <2>1, <4>1, <4>2 DEF Serving, Waiting
        <3>11. AnswersInOrder'
            <4>1. ASSUME NEW i \in Answers', NEW j \in Answers', i < j
                  PROVE  outQueue'[i].task < outQueue'[j].task /\ outQueue'[i].count < outQueue'[j].count
                <5>1. i \in Answers /\ outQueue'[i] = outQueue[i]
                    <6>1. j \in Nat /\ j <= l
                        BY <3>7, <3>8, <3>6
                    <6> QED BY <3>6, <3>7, <4>1, <6>1
                <5>2. CASE j \in Answers /\ outQueue'[j] = outQueue[j]
                    BY <2>1, <4>1, <5>1, <5>2 DEF Serving, AnswersInOrder
                <5>3. CASE j = l /\ outQueue'[j] = r
                    BY <3>5, <3>8, <5>1, <5>3
                <5> QED BY <3>7, <5>2, <5>3
            <4> QED BY <4>1 DEF AnswersInOrder
        <3>12. AnswersGoFirst'
            BY <1>1, <2>1, <2>2, <3>5, <3>7, <3>9 DEF Serving, AnswersGoFirst
        <3>13. NoneSkipped'
            <4>1. ASSUME NEW i \in Answers', NEW c \in outQueue'[i].count .. msgCount'
                  PROVE  \E j \in Answers' : outQueue'[j].count = c
                <5>0. outQueue'[i].count \in Nat /\ msgCount \in Nat
                    BY <1>2, <3>5, <3>7, <3>8
                <5>1. CASE c = msgCount + 1
                    BY <3>5, <3>7, <5>1
                <5>2. CASE c # msgCount + 1
                    <6>1. c \in Int /\ c < msgCount + 1 /\ outQueue'[i].count <= c
                        BY <3>4, <4>1, <5>0, <5>2
                    <6>2. i \in Answers /\ outQueue'[i] = outQueue[i]
                        <7>1. outQueue'[i] # r
                            BY <3>5, <5>0, <6>1
                        <7> QED BY <3>7, <7>1
                    <6>3. c \in outQueue[i].count .. msgCount
                        BY <1>2, <3>8, <6>1, <6>2
                    <6>4. PICK j \in Answers : outQueue[j].count = c
                        BY <2>1, <6>2, <6>3 DEF Serving, NoneSkipped
                    <6> QED BY <3>7, <6>4
                <5> QED BY <5>1, <5>2
            <4> QED BY <4>1 DEF NoneSkipped
        <3>14. \A i \in Answers' : outQueue'[i].task <= sentCount' /\ outQueue'[i].count <= msgCount'
            <4>1. n <= sentCount
                BY <3>1, <3>2 DEF KeysInv, QueueInOrder
            <4>2. \A i \in Answers : outQueue[i].task <= sentCount /\ outQueue[i].count <= msgCount + 1
                BY <1>2, <2>1, <3>8 DEF Serving
            <4> QED BY <1>1, <1>2, <3>4, <3>5, <3>7, <4>1, <4>2
        <3> QED BY <2>3, <3>10, <3>11, <3>12, <3>13, <3>14 DEF Serving
    <2>5. CASE ~HandleTask
        <3>1. Answers' = Answers /\ (\A i \in Answers : outQueue'[i] = outQueue[i]) /\ msgCount' = msgCount
            <4>1. CASE HandleOther
                BY <4>1 DEF HandleOther, service, Answers
            <4>2. CASE HandleZero
                <5>1. [kind |-> "zero"] \in Replies /\ SendReply([kind |-> "zero"]) /\ msgCount' = msgCount
                    BY <4>2 DEF HandleZero, Replies, service
                <5> QED BY <1>2, <5>1, AnswerJoins
            <4>3. ~HandleHeader /\ ~HandleAuth
                <5>1. Head(inQueue) = inQueue[1] /\ 1 \in DOMAIN inQueue
                    BY <1>2, FrontIsTaken
                <5> QED BY <2>1, <5>1 DEF Served, NoneSent, HandleHeader, HandleAuth, Handles
            <4> QED BY <2>5, <4>1, <4>2, <4>3 DEF Handle
        <3>2. {inQueue'[i][1].n : i \in Requests'} = {inQueue[i][1].n : i \in Requests}
            BY <2>2, <2>5
        <3>3. {outQueue'[i].task : i \in Answers'} = {outQueue[i].task : i \in Answers}
            BY <3>1
        <3>4. Waiting(s)'
            BY <1>1, <2>1, <3>2, <3>3 DEF Serving, Waiting
        <3>5. AnswersInOrder' /\ NoneSkipped'
            BY <2>1, <3>1 DEF Serving, AnswersInOrder, NoneSkipped
        <3>6. AnswersGoFirst'
            BY <2>1, <2>2, <3>1 DEF Serving, AnswersGoFirst
        <3>7. \A i \in Answers' : outQueue'[i].task <= sentCount' /\ outQueue'[i].count <= msgCount'
            BY <1>1, <2>1, <3>1 DEF Serving
        <3> QED BY <2>3, <3>4, <3>5, <3>6, <3>7 DEF Serving
    <2> QED BY <2>4, <2>5
<1> QED BY <1>1, <1>3 DEF AskedInv

(* While every message has a packet of its own, the service answers the tasks *)
(* of the client it has accepted one by one, in the order they were asked,    *)
(* each under a message count one higher than the one before                  *)
(* (lobby_server.cpp:109-165, reply.cpp:44).                                  *)
THEOREM TasksAreAnswered == Spec => []TasksAnsweredInOrder
<1> DEFINE Inv == Alone => KeysInv /\ FirstInv /\ EarlierInv /\ AskedInv
<1>1. Init => Inv
    <2> SUFFICES ASSUME Init PROVE KeysInv /\ FirstInv /\ EarlierInv /\ AskedInv
        OBVIOUS
    <2>1. KeysInv /\ FirstInv
        BY KeysStart DEF Init, FirstInv
    <2> QED BY <2>1 DEF Init, EarlierInv, AskedInv
<1>2. Inv /\ [Next]_vars => Inv'
    <2> SUFFICES ASSUME Alone, KeysInv, FirstInv, EarlierInv, AskedInv, [Next]_vars
                 PROVE  KeysInv' /\ FirstInv' /\ EarlierInv' /\ AskedInv'
        BY DEF Alone
    <2>1. KeysInv'
        BY KeysGoOn
    <2>2. FirstInv'
        BY FirstGoesOn DEF KeysInv
    <2>3. CASE UNCHANGED vars
        <3>1. EarlierInv'
            BY <2>3 DEF vars, service, client, EarlierInv, IsLater, Greeted, FirstOf
        <3>2. AskedInv'
            BY <2>3 DEF vars, service, client, AskedInv, Serving, Waiting, AnswersInOrder, AnswersGoFirst,
                        NoneSkipped, Answers, Requests
        <3> QED BY <2>1, <2>2, <3>1, <3>2
    <2>4. CASE Next
        <3>1. EarlierInv'
            BY <2>4, LaterSends, LaterReads, LaterHandles DEF Next, Client
        <3>2. AskedInv'
            BY <2>4, AskedSends, AskedReads, AskedHandles DEF Next, Client
        <3> QED BY <2>1, <2>2, <3>1, <3>2
    <2> QED BY <2>3, <2>4
<1>3. Inv => TasksAnsweredInOrder
    <2> SUFFICES ASSUME Inv, Alone, ~coalesced, NEW s \in Sockets, state[s] = "ready"
                 PROVE  Serving(s)
        BY DEF TasksAnsweredInOrder, OneMessageEach, Serving, Waiting, AnswersInOrder, AnswersGoFirst,
               NoneSkipped
    <2>1. hellos \in Nat
        BY DEF KeysInv, SessionTypes
    <2>2. hellos # 0
        BY DEF FirstInv
    <2>3. ~(hellos > 1)
        BY DEF EarlierInv, IsLater
    <2> QED BY <2>1, <2>2, <2>3 DEF AskedInv
<1> QED BY <1>1, <1>2, <1>3, PTL DEF Spec

-----------------------------------------------------------------------------
(***************************************************************************)
(* Logger.                                                                 *)
(***************************************************************************)

Places == {"idle", "open", "fallback", "close", "closeTemp", "console", "print", "again"}

(* A thread that writes to a console owns the console's mutex, and whoever    *)
(* owns it writes.                                                            *)
MutexIsKept ==
    /\ \A t \in Threads : pc[t] \in {"print", "again"} <=> mutex[InstanceOf[t]] = t
    /\ \A i \in Instances : mutex[i] # Nobody => mutex[i] \in Threads /\ InstanceOf[mutex[i]] = i

(* What stands on the row when nobody writes, and what a writer remembers of  *)
(* it in between.                                                             *)
InputIsKept(i) ==
    ~disturbed[i] =>
        /\ mutex[i] = Nobody => row[i] = typed[i] /\ column[i] = Len(typed[i])
        /\ mutex[i] # Nobody => seen[mutex[i]] = typed[i]
        /\ mutex[i] # Nobody /\ pc[mutex[i]] = "again" => row[i] = <<>> /\ column[i] = 0

ConsoleTypes ==
    /\ pc \in [Threads -> Places]
    /\ DOMAIN mutex = Instances /\ DOMAIN row = Instances /\ DOMAIN column = Instances
    /\ DOMAIN seen = Threads /\ DOMAIN disturbed = Instances
    /\ typed \in [Instances -> Seq(Nat)]

IInv == ConsoleTypes /\ MutexIsKept /\ \A i \in Instances : InputIsKept(i)

-----------------------------------------------------------------------------
(* Sequences. *)

LEMMA WholeSubSeq ==
    ASSUME NEW S, NEW s \in Seq(S)
    PROVE  SubSeq(s, 1, Len(s)) = s
OBVIOUS

(* A key at the end of the row is the next of the line.                       *)
LEMMA EchoAtTheEnd ==
    ASSUME NEW S, NEW s \in Seq(S), NEW x \in S
    PROVE  SubSeq(s, 1, Len(s)) \o <<x>> \o SubSeq(s, Len(s) + 2, Len(s)) = Append(s, x)
<1>1. SubSeq(s, 1, Len(s)) = s
    BY WholeSubSeq
<1>2. SubSeq(s, Len(s) + 2, Len(s)) = <<>>
    OBVIOUS
<1>3. (s \o <<x>>) \o <<>> = s \o <<x>>
    OBVIOUS
<1>4. s \o <<x>> = Append(s, x)
    BY AppendIsConcat
<1> QED BY ONLY <1>1, <1>2, <1>3, <1>4

-----------------------------------------------------------------------------
(* The steps, each against IInv. *)

LEMMA FileStepKeeps ==
    ASSUME NEW t \in Threads, IInv, Begin(t) \/ Open(t) \/ OpenTemp(t) \/ FputsAndClose(t)
    PROVE  IInv'
<1>1. /\ UNCHANGED consoleVars
      /\ \E from \in {"idle", "open", "fallback", "close", "closeTemp"},
            to \in {"open", "fallback", "close", "closeTemp", "console"} : Goto(t, from, to)
    BY DEF Begin, Open, OpenTemp, FputsAndClose, CloseFile
<1>2. ConsoleTypes'
    BY <1>1 DEF IInv, ConsoleTypes, Places, Goto, consoleVars
<1>3. \A u \in Threads : /\ pc'[u] \in {"print", "again"} <=> pc[u] \in {"print", "again"}
                         /\ pc'[u] = "again" <=> pc[u] = "again"
    BY <1>1 DEF IInv, ConsoleTypes, Goto
<1>4. MutexIsKept'
    BY <1>1, <1>3 DEF IInv, MutexIsKept, consoleVars
<1>5. ASSUME NEW i \in Instances PROVE InputIsKept(i)'
    BY <1>1, <1>3 DEF IInv, MutexIsKept, InputIsKept, consoleVars
<1> QED BY <1>2, <1>4, <1>5 DEF IInv

LEMMA LookKeeps ==
    ASSUME NEW t \in Threads, IInv, Look(t)
    PROVE  IInv'
<1> USE InstanceOfThread, NobodyIsNoThread DEF IInv, Look, TakeRow, Goto
<1>1. ConsoleTypes'
    BY DEF ConsoleTypes, Places
<1>2. MutexIsKept'
    <2>1. /\ pc'[t] = "print" /\ mutex'[InstanceOf[t]] = t
          /\ \A u \in Threads \ {t} : pc'[u] = pc[u]
          /\ \A i \in Instances \ {InstanceOf[t]} : mutex'[i] = mutex[i]
        BY DEF ConsoleTypes
    <2>2. ASSUME NEW u \in Threads
          PROVE  pc'[u] \in {"print", "again"} <=> mutex'[InstanceOf[u]] = u
        BY <2>1 DEF MutexIsKept
    <2>3. ASSUME NEW i \in Instances, mutex'[i] # Nobody
          PROVE  mutex'[i] \in Threads /\ InstanceOf[mutex'[i]] = i
        BY <2>1, <2>3 DEF MutexIsKept
    <2> QED BY <2>2, <2>3 DEF MutexIsKept
<1>3. ASSUME NEW i \in Instances PROVE InputIsKept(i)'
    <2>1. CASE i = InstanceOf[t]
        <3>1. mutex'[i] = t /\ pc'[t] = "print" /\ seen'[t] = SubSeq(row[i], 1, column[i])
            BY <2>1 DEF ConsoleTypes
        <3>2. ~disturbed[i] => SubSeq(row[i], 1, column[i]) = typed[i]
            BY <2>1, WholeSubSeq DEF ConsoleTypes, InputIsKept
        <3> QED BY <2>1, <3>1, <3>2 DEF InputIsKept
    <2>2. CASE i # InstanceOf[t]
        BY <2>2 DEF ConsoleTypes, MutexIsKept, InputIsKept
    <2> QED BY <2>1, <2>2
<1> QED BY <1>1, <1>2, <1>3

LEMMA PrintLineKeeps ==
    ASSUME NEW t \in Threads, IInv, PrintLine(t)
    PROVE  IInv'
<1> USE InstanceOfThread, NobodyIsNoThread DEF IInv, PrintLine, Goto
<1>1. ConsoleTypes'
    BY DEF ConsoleTypes, Places
<1>2. MutexIsKept'
    BY DEF MutexIsKept, ConsoleTypes
<1>3. ASSUME NEW i \in Instances PROVE InputIsKept(i)'
    <2>1. CASE i = InstanceOf[t]
        <3>1. mutex[i] = t
            BY <2>1 DEF MutexIsKept
        <3> QED BY <2>1, <3>1 DEF ConsoleTypes, InputIsKept
    <2>2. CASE i # InstanceOf[t]
        BY <2>2 DEF ConsoleTypes, MutexIsKept, InputIsKept
    <2> QED BY <2>1, <2>2
<1> QED BY <1>1, <1>2, <1>3

LEMMA PrintInputKeeps ==
    ASSUME NEW t \in Threads, IInv, PrintInput(t)
    PROVE  IInv'
<1> USE InstanceOfThread, NobodyIsNoThread DEF IInv, PrintInput, Goto
<1>1. ConsoleTypes'
    BY DEF ConsoleTypes, Places
<1>2. MutexIsKept'
    <2>1. /\ pc'[t] = "idle" /\ mutex'[InstanceOf[t]] = Nobody
          /\ \A u \in Threads \ {t} : pc'[u] = pc[u]
          /\ \A i \in Instances \ {InstanceOf[t]} : mutex'[i] = mutex[i]
        BY DEF ConsoleTypes
    <2>2. mutex[InstanceOf[t]] = t
        BY DEF MutexIsKept
    <2>3. ASSUME NEW u \in Threads
          PROVE  pc'[u] \in {"print", "again"} <=> mutex'[InstanceOf[u]] = u
        <3>1. pc[u] \in {"print", "again"} <=> mutex[InstanceOf[u]] = u
            BY DEF MutexIsKept
        <3> QED BY ONLY <2>1, <2>2, <3>1, InstanceOfThread, NobodyIsNoThread
    <2>4. ASSUME NEW i \in Instances, mutex'[i] # Nobody
          PROVE  mutex'[i] \in Threads /\ InstanceOf[mutex'[i]] = i
        BY <2>1, <2>4 DEF MutexIsKept
    <2> QED BY <2>3, <2>4 DEF MutexIsKept
<1>3. ASSUME NEW i \in Instances PROVE InputIsKept(i)'
    <2>1. CASE i = InstanceOf[t]
        <3>1. mutex[i] = t /\ mutex'[i] = Nobody /\ disturbed'[i] = disturbed[i]
            BY <2>1 DEF MutexIsKept, ConsoleTypes
        <3>2. /\ row'[i] = SubSeq(row[i], 1, column[i]) \o seen[t]
              /\ column'[i] = column[i] + Len(seen[t]) /\ typed'[i] = typed[i]
            BY <2>1 DEF ConsoleTypes
        <3>3. ~disturbed[i] => row'[i] = typed[i] /\ column'[i] = Len(typed[i])
            <4> SUFFICES ASSUME ~disturbed[i]
                         PROVE  row'[i] = typed[i] /\ column'[i] = Len(typed[i])
                OBVIOUS
            <4>1. seen[t] = typed[i] /\ row[i] = <<>> /\ column[i] = 0
                BY <3>1 DEF InputIsKept
            <4>2. typed[i] \in Seq(Nat)
                BY DEF ConsoleTypes
            <4>3. SubSeq(<<>>, 1, 0) \o typed[i] = typed[i] /\ 0 + Len(typed[i]) = Len(typed[i])
                BY <4>2
            <4> QED BY ONLY <3>2, <4>1, <4>3
        <3> QED BY <3>1, <3>2, <3>3 DEF InputIsKept
    <2>2. CASE i # InstanceOf[t]
        BY <2>2 DEF ConsoleTypes, MutexIsKept, InputIsKept
    <2> QED BY <2>1, <2>2
<1> QED BY <1>1, <1>2, <1>3

LEMMA UserKeeps ==
    ASSUME NEW i \in Typists, IInv, Type(i) \/ Enter(i)
    PROVE  IInv'
<1> USE TypistsSitAtInstances, NobodyIsNoThread DEF IInv
<1>1. UNCHANGED <<pc, mutex, seen>>
    BY DEF Type, Enter
<1>2. MutexIsKept'
    BY <1>1 DEF MutexIsKept
<1>3. ConsoleTypes'
    <2>1. <<>> \in Seq(Nat) /\ Append(typed[i], Len(typed[i]) + 1) \in Seq(Nat)
        BY DEF ConsoleTypes
    <2>2. CASE Type(i)
        <3>1. typed' = [typed EXCEPT ![i] = Append(typed[i], Len(typed[i]) + 1)]
            BY <2>2 DEF Type
        <3>2. typed' \in [Instances -> Seq(Nat)]
            BY ONLY <2>1, <3>1, IInv, TypistsSitAtInstances DEF IInv, ConsoleTypes
        <3> QED BY <1>1, <2>2, <3>2 DEF ConsoleTypes, Type
    <2>3. CASE Enter(i)
        BY <1>1, <2>1, <2>3 DEF ConsoleTypes, Enter
    <2> QED BY <2>2, <2>3
<1>4. ~Writing(i) => mutex[i] = Nobody
    BY DEF Writing, MutexIsKept
<1>5. ASSUME NEW j \in Instances PROVE InputIsKept(j)'
    <2>1. CASE j # i
        BY <1>1, <2>1 DEF InputIsKept, ConsoleTypes, Type, Enter
    <2>2. CASE j = i /\ Enter(i)
        BY <1>1, <1>4, <2>2 DEF InputIsKept, ConsoleTypes, Enter
    <2>3. CASE j = i /\ Type(i)
        <3> SUFFICES ASSUME ~disturbed'[i] PROVE InputIsKept(i)'
            BY <2>3 DEF InputIsKept
        <3>1. ~disturbed[i] /\ mutex[i] = Nobody
            BY <1>4, <2>3 DEF Type, ConsoleTypes
        <3>2. row[i] = typed[i] /\ column[i] = Len(typed[i]) /\ typed[i] \in Seq(Nat)
            BY <3>1 DEF InputIsKept, ConsoleTypes
        <3>3. /\ typed'[i] = Append(typed[i], Len(typed[i]) + 1)
              /\ row'[i] = SubSeq(row[i], 1, column[i]) \o <<Len(typed[i]) + 1>>
                             \o SubSeq(row[i], column[i] + 2, Len(row[i]))
              /\ column'[i] = column[i] + 1
            BY <2>3 DEF Type, ConsoleTypes
        <3>4. row'[i] = typed'[i]
            <4>1. Len(typed[i]) + 1 \in Nat
                BY <3>2
            <4> QED BY ONLY <3>2, <3>3, <4>1, EchoAtTheEnd
        <3>5. column'[i] = Len(typed'[i])
            BY <3>2, <3>3
        <3> QED BY <1>1, <3>1, <3>4, <3>5 DEF InputIsKept
    <2> QED BY <2>1, <2>2, <2>3
<1> QED BY <1>2, <1>3, <1>5

(* After a write the row of the cursor shows what the user has typed, unless  *)
(* a key was pressed in the middle of a write, for any number of threads that *)
(* write and games that die (console.cpp:103-113).                            *)
THEOREM InputSurvivesWrites == LogSpec => []RowIsTheInput
<1>1. LogInit => IInv
    <2>1. <<>> \in Seq(Nat) /\ Len(<<>>) = 0
        OBVIOUS
    <2> QED BY <2>1, InstanceOfThread, NobodyIsNoThread
            DEF LogInit, IInv, ConsoleTypes, Places, MutexIsKept, InputIsKept
<1>2. IInv /\ [LogNext]_logVars => IInv'
    <2>1. IInv /\ UNCHANGED <<pc, consoleVars>> => IInv'
        BY DEF IInv, ConsoleTypes, MutexIsKept, InputIsKept, consoleVars
    <2>2. UNCHANGED logVars => UNCHANGED <<pc, consoleVars>>
        BY DEF logVars
    <2>3. ASSUME IInv, NEW t \in Threads, ThreadStep(t) PROVE IInv'
        BY <2>3, FileStepKeeps, LookKeeps, PrintLineKeeps, PrintInputKeeps DEF ThreadStep
    <2>4. ASSUME NEW i \in Instances, Die(i) PROVE UNCHANGED <<pc, consoleVars>>
        BY <2>4 DEF Die
    <2> QED BY <2>1, <2>2, <2>3, <2>4, UserKeeps DEF LogNext
<1>3. IInv => RowIsTheInput
    BY DEF IInv, MutexIsKept, InputIsKept, RowIsTheInput, Writing
<1> QED BY <1>1, <1>2, <1>3, PTL DEF LogSpec

-----------------------------------------------------------------------------
(* The lines in the files. *)

Writers == {"open", "fallback", "close", "closeTemp"}

FileTypes ==
    /\ pc \in [Threads -> Places] /\ line \in [Threads -> Nat]
    /\ DOMAIN holder = Files /\ DOMAIN refused = Threads
    /\ file \in [Files -> Seq(Threads \X Nat)]
    /\ \A t \in Threads : pc[t] \in Writers => line[t] > 0

(* A file that is open is open for a thread that goes on to close it.         *)
HoldersClose ==
    \A f \in Files : holder[f] # Nobody =>
        /\ holder[f] \in Threads
        /\ \/ pc[holder[f]] = "close" /\ f = Home[InstanceOf[holder[f]]]
           \/ pc[holder[f]] = "closeTemp" /\ f = Temp

(* A thread that turns to the temporary file has a reason to.                 *)
FallbackHasReason ==
    \A t \in Threads : pc[t] = "fallback" => refused[t] \/ Home[InstanceOf[t]] \in shut

(* A file holds, and the record of losses names, only lines that are done.    *)
OnlyDoneLines ==
    /\ \A f \in Files : \A k \in DOMAIN file[f] : \A t \in Threads :
          file[f][k][1] = t => file[f][k][2] \in Done(t)
    /\ \A l \in lost : l.by \in Threads /\ l.n \in Done(l.by)

FilesInv == FileTypes /\ HoldersClose /\ FallbackHasReason /\ OnlyDoneLines /\ LossHasReasons

(* One line of a thread is where the property wants it.                       *)
Kept(t, n) ==
    \/ Cardinality(Homes(t, n)) = 1
    \/ /\ Homes(t, n) = {}
       /\ \E l \in lost :
             /\ l.by = t /\ l.n = n
             /\ l.home \/ Home[InstanceOf[t]] \in shut
             /\ l.temp \/ Temp \in shut \/ InstanceOf[t] \in noTemp

LEMMA FileOfThread ==
    ASSUME NEW t \in Threads
    PROVE  Home[InstanceOf[t]] \in Files /\ Temp \in Files
BY InstanceOfThread DEF Files

LEMMA HomesAre ==
    ASSUME NEW t, NEW n, NEW x
    PROVE  x \in Homes(t, n) <=> \E f \in Files : \E k \in InFile(f, t, n) : x = <<f, k>>
BY DEF Homes

(* A step that leaves the files and the shares of the lines alone.            *)
LEMMA NothingFiled ==
    ASSUME FilesInv, UNCHANGED <<surroundings, file, lost>>,
           FileTypes', HoldersClose', FallbackHasReason',
           \A t \in Threads : InstanceOf[t] \in Filing => Done(t)' = Done(t),
           \A t \in Threads : Done(t) \subseteq Done(t)'
    PROVE  FilesInv'
<1> USE DEF surroundings
<1>1. \A f, t, n : InFile(f, t, n)' = InFile(f, t, n)
    BY DEF InFile
<1>2. \A t, n : Homes(t, n)' = Homes(t, n)
    BY <1>1 DEF Homes
<1>3. LossHasReasons'
    BY <1>2 DEF FilesInv, LossHasReasons, Filing
<1>4. OnlyDoneLines'
    <2>1. ASSUME NEW f \in Files, NEW k \in DOMAIN file[f], NEW t \in Threads, file[f][k][1] = t
          PROVE  file[f][k][2] \in Done(t)'
        BY <2>1 DEF FilesInv, OnlyDoneLines
    <2>2. \A l \in lost : l.by \in Threads /\ l.n \in Done(l.by)'
        BY DEF FilesInv, OnlyDoneLines
    <2> QED BY <2>1, <2>2 DEF OnlyDoneLines
<1> QED BY <1>3, <1>4 DEF FilesInv

LEMMA BeginFiles ==
    ASSUME NEW t \in Threads, FilesInv, Begin(t)
    PROVE  FilesInv'
<1> USE DEF FilesInv, surroundings
<1>1. /\ pc[t] = "idle" /\ \A u \in Threads \ {t} : pc'[u] = pc[u] /\ line'[u] = line[u]
      /\ pc'[t] = IF InstanceOf[t] \in Filing THEN "open" ELSE "console"
      /\ line'[t] = line[t] + 1 /\ line[t] \in Nat
    BY DEF Begin, Goto, FileTypes
<1>2. UNCHANGED <<surroundings, holder, file, lost, refused>>
    BY DEF Begin, fileVars
<1>3. FileTypes'
    <2>1. pc' \in [Threads -> Places] /\ line' \in [Threads -> Nat]
        BY DEF Begin, Goto, FileTypes, Places
    <2>2. \A u \in Threads : pc'[u] \in Writers => line'[u] > 0
        BY <1>1 DEF FileTypes
    <2> QED BY <1>2, <2>1, <2>2 DEF FileTypes
<1>4. HoldersClose'
    BY <1>1, <1>2 DEF HoldersClose
<1>5. FallbackHasReason'
    BY <1>1, <1>2 DEF FallbackHasReason
<1>6. ASSUME NEW u \in Threads
      PROVE  /\ Done(u) \subseteq Done(u)'
             /\ InstanceOf[u] \in Filing => Done(u)' = Done(u)
    <2>1. CASE u = t
        <3>1. Done(t) = 1 .. line[t]
            BY <1>1 DEF Done
        <3>2. InstanceOf[t] \in Filing => Done(t)' = 1 .. line[t]
            BY <1>1 DEF Done
        <3>3. 1 .. line[t] \subseteq Done(t)'
            BY <1>1 DEF Done
        <3> QED BY <2>1, <3>1, <3>2, <3>3
    <2>2. CASE u # t
        BY <1>1, <2>2 DEF Done
    <2> QED BY <2>1, <2>2
<1> QED BY <1>2, <1>3, <1>4, <1>5, <1>6, NothingFiled

LEMMA OpenFiles ==
    ASSUME NEW t \in Threads, FilesInv, Open(t)
    PROVE  FilesInv'
<1> USE NobodyIsNoThread DEF FilesInv, surroundings
<1> DEFINE f == Home[InstanceOf[t]]
<1>1. /\ pc[t] = "open" /\ \A u \in Threads \ {t} : pc'[u] = pc[u] /\ refused'[u] = refused[u]
      /\ pc'[t] = IF CanOpen(f) THEN "close" ELSE "fallback"
      /\ refused'[t] = BusyFor(f, t) /\ f \in Files
    BY FileOfThread DEF Open, Goto, FileTypes
<1>2. UNCHANGED <<line, surroundings, file, lost>>
    BY DEF Open
<1>3. FileTypes'
    <2>1. pc' \in [Threads -> Places] /\ DOMAIN holder' = Files /\ DOMAIN refused' = Threads
        BY DEF Open, Goto, FileTypes, Places
    <2>2. \A u \in Threads : pc'[u] \in Writers => line'[u] > 0
        BY <1>1, <1>2 DEF FileTypes, Writers
    <2> QED BY <1>2, <2>1, <2>2 DEF FileTypes
<1>4. \A g \in Files : holder[g] # t
    BY <1>1 DEF HoldersClose
<1>5. HoldersClose'
    <2> SUFFICES ASSUME NEW g \in Files, holder'[g] # Nobody
                 PROVE  /\ holder'[g] \in Threads
                        /\ \/ pc'[holder'[g]] = "close" /\ g = Home[InstanceOf[holder'[g]]]
                           \/ pc'[holder'[g]] = "closeTemp" /\ g = Temp
        BY DEF HoldersClose
    <2>1. CASE CanOpen(f) /\ g = f
        <3>1. holder'[g] = t
            BY <1>1, <2>1 DEF Open, FileTypes
        <3> QED BY <1>1, <2>1, <3>1
    <2>2. CASE ~(CanOpen(f) /\ g = f)
        <3>1. holder'[g] = holder[g]
            BY <2>2 DEF Open, FileTypes
        <3>2. holder[g] \in Threads \ {t}
            BY <1>4, <3>1 DEF HoldersClose
        <3> QED BY <1>1, <3>1, <3>2 DEF HoldersClose
    <2> QED BY <2>1, <2>2
<1>6. FallbackHasReason'
    <2>1. ASSUME ~CanOpen(f) PROVE BusyFor(f, t) \/ f \in shut
        BY <1>1, <1>4, <2>1 DEF CanOpen, BusyFor, HoldersClose
    <2> QED BY <1>1, <1>2, <2>1 DEF FallbackHasReason
<1>7. \A u \in Threads : Done(u)' = Done(u)
    BY <1>1, <1>2 DEF Done
<1> QED BY <1>2, <1>3, <1>5, <1>6, <1>7, NothingFiled

(* The line of a thread that leaves the files for the console is done, and    *)
(* nothing is known of it before.                                             *)
LEMMA LineEnds ==
    ASSUME NEW t \in Threads, FilesInv, pc[t] \in Writers, pc'[t] = "console",
           \A u \in Threads \ {t} : pc'[u] = pc[u], line' = line
    PROVE  /\ Done(t)' = Done(t) \cup {line[t]}
           /\ \A u \in Threads \ {t} : Done(u)' = Done(u)
           /\ \A f \in Files : InFile(f, t, line[t]) = {}
           /\ Homes(t, line[t]) = {}
<1>1. line[t] \in Nat /\ line[t] > 0
    BY DEF FilesInv, FileTypes
<1>2. Done(t) = 1 .. (line[t] - 1) /\ Done(t)' = 1 .. line[t]
    BY <1>1 DEF Done, Writers
<1>3. Done(t)' = Done(t) \cup {line[t]} /\ line[t] \notin Done(t)
    BY <1>1, <1>2
<1>4. \A u \in Threads \ {t} : Done(u)' = Done(u)
    BY DEF Done
<1>5. ASSUME NEW f \in Files, NEW k \in InFile(f, t, line[t]) PROVE FALSE
    <2>1. k \in DOMAIN file[f] /\ file[f][k] = <<t, line[t]>>
        BY DEF InFile
    <2>2. file[f][k][2] \in Done(t)
        BY <2>1 DEF FilesInv, OnlyDoneLines
    <2> QED BY <1>3, <2>1, <2>2
<1>6. Homes(t, line[t]) = {}
    BY <1>5, HomesAre
<1> QED BY <1>3, <1>4, <1>5, <1>6

(* A line that gets no file is recorded with its reasons.                     *)
LEMMA OpenTempFiles ==
    ASSUME NEW t \in Threads, FilesInv, OpenTemp(t)
    PROVE  FilesInv'
<1> USE NobodyIsNoThread DEF FilesInv, surroundings
<1>1. /\ pc[t] = "fallback" /\ \A u \in Threads \ {t} : pc'[u] = pc[u]
      /\ pc'[t] = IF TempOpens(t) THEN "closeTemp" ELSE "console"
      /\ Temp \in Files
    BY FileOfThread DEF OpenTemp, Goto, FileTypes
<1>2. UNCHANGED <<line, surroundings, file, refused>>
    BY DEF OpenTemp
<1>3. FileTypes'
    <2>1. pc' \in [Threads -> Places] /\ DOMAIN holder' = Files
        BY DEF OpenTemp, Goto, FileTypes, Places
    <2>2. \A u \in Threads : pc'[u] \in Writers => line'[u] > 0
        BY <1>1, <1>2 DEF FileTypes, Writers
    <2> QED BY <1>2, <2>1, <2>2 DEF FileTypes
<1>4. \A g \in Files : holder[g] # t
    BY <1>1 DEF HoldersClose
<1>5. HoldersClose'
    <2> SUFFICES ASSUME NEW g \in Files, holder'[g] # Nobody
                 PROVE  /\ holder'[g] \in Threads
                        /\ \/ pc'[holder'[g]] = "close" /\ g = Home[InstanceOf[holder'[g]]]
                           \/ pc'[holder'[g]] = "closeTemp" /\ g = Temp
        BY DEF HoldersClose
    <2>1. CASE TempOpens(t) /\ g = Temp
        <3>1. holder'[g] = t
            BY <1>1, <2>1 DEF OpenTemp, FileTypes
        <3> QED BY <1>1, <2>1, <3>1
    <2>2. CASE ~(TempOpens(t) /\ g = Temp)
        <3>1. holder'[g] = holder[g]
            BY <2>2 DEF OpenTemp, FileTypes
        <3>2. holder[g] \in Threads \ {t}
            BY <1>4, <3>1 DEF HoldersClose
        <3> QED BY <1>1, <3>1, <3>2 DEF HoldersClose
    <2> QED BY <2>1, <2>2
<1>6. FallbackHasReason'
    BY <1>1, <1>2 DEF FallbackHasReason
<1>7. CASE TempOpens(t)
    <2>1. lost' = lost
        BY <1>7 DEF OpenTemp
    <2>2. \A u \in Threads : Done(u)' = Done(u)
        BY <1>1, <1>2, <1>7 DEF Done
    <2> QED BY <1>2, <1>3, <1>5, <1>6, <2>1, <2>2, NothingFiled
<1>8. CASE ~TempOpens(t)
    <2> DEFINE loss == [by |-> t, n |-> line[t], home |-> refused[t], temp |-> BusyFor(Temp, t)]
    <2>1. lost' = lost \cup {loss}
        BY <1>8 DEF OpenTemp
    <2>2. BusyFor(Temp, t) \/ Temp \in shut \/ InstanceOf[t] \in noTemp
        BY <1>1, <1>4, <1>8 DEF TempOpens, CanOpen, BusyFor, HoldersClose, FileTypes
    <2>3. refused[t] \/ Home[InstanceOf[t]] \in shut
        BY <1>1 DEF FallbackHasReason
    <2> DEFINE n == line[t]
    <2>4. /\ Done(t)' = Done(t) \cup {n} /\ \A u \in Threads \ {t} : Done(u)' = Done(u)
          /\ Homes(t, n) = {}
        BY <1>1, <1>2, <1>8, LineEnds DEF Writers
    <2>5. \A u, m : Homes(u, m)' = Homes(u, m)
        BY <1>2 DEF Homes, InFile
    <2>6. ASSUME NEW u \in Threads, InstanceOf[u] \in Filing, NEW m \in Done(u)' PROVE Kept(u, m)'
        <3>1. CASE m \in Done(u)
            BY <1>2, <2>1, <2>5, <2>6, <3>1 DEF LossHasReasons, Kept
        <3>2. CASE m \notin Done(u)
            <4>1. u = t /\ m = n
                BY <2>4, <2>6, <3>2
            <4>2. /\ loss \in lost' /\ loss.by = t /\ loss.n = n
                  /\ loss.home \/ Home[InstanceOf[t]] \in shut'
                  /\ loss.temp \/ Temp \in shut' \/ InstanceOf[t] \in noTemp'
                BY <1>2, <2>1, <2>2, <2>3
            <4>3. Homes(u, m)' = {}
                BY <2>4, <2>5, <4>1
            <4> HIDE DEF loss
            <4> QED BY <4>1, <4>2, <4>3 DEF Kept
        <3> QED BY <3>1, <3>2
    <2>7. LossHasReasons'
        BY <1>2, <2>6 DEF LossHasReasons, Kept, Filing
    <2>8. OnlyDoneLines'
        <3>1. \A u \in Threads : Done(u) \subseteq Done(u)'
            BY <2>4
        <3>2. ASSUME NEW f \in Files, NEW k \in DOMAIN file[f], NEW u \in Threads, file[f][k][1] = u
              PROVE  file[f][k][2] \in Done(u)'
            BY <3>1, <3>2 DEF OnlyDoneLines
        <3>3. ASSUME NEW l \in lost' PROVE l.by \in Threads /\ l.n \in Done(l.by)'
            <4>1. CASE l \in lost
                BY <3>1, <4>1 DEF OnlyDoneLines
            <4>2. CASE l = loss
                BY <2>4, <4>2
            <4> QED BY <2>1, <4>1, <4>2
        <3> QED BY <1>2, <3>2, <3>3 DEF OnlyDoneLines
    <2> QED BY <1>3, <1>5, <1>6, <2>7, <2>8
<1> QED BY <1>7, <1>8

(* A line that is written is in one place.                                    *)
LEMMA CloseFiles ==
    ASSUME NEW t \in Threads, FilesInv, FputsAndClose(t)
    PROVE  FilesInv'
<1> USE NobodyIsNoThread DEF FilesInv, surroundings
<1>a. PICK n : n = line[t]
    OBVIOUS
<1>0. PICK f \in Files :
         /\ \/ pc[t] = "close" /\ f = Home[InstanceOf[t]]
            \/ pc[t] = "closeTemp" /\ f = Temp
         /\ pc' = [pc EXCEPT ![t] = "console"] /\ CloseFile(t, f)
    BY FileOfThread DEF FputsAndClose, Goto
<1>1. /\ pc[t] \in Writers /\ \A u \in Threads \ {t} : pc'[u] = pc[u]
      /\ pc'[t] = "console" /\ pc' \in [Threads -> Places]
    BY <1>0 DEF FileTypes, Writers, Places
<1>2. UNCHANGED <<line, surroundings, lost, refused>>
    BY <1>0 DEF CloseFile
<1>3. n \in Nat /\ file \in [Files -> Seq(Threads \X Nat)]
    BY <1>a DEF FileTypes
<1>4. file' = [file EXCEPT ![f] = Append(file[f], <<t, n>>)]
      /\ holder' = [holder EXCEPT ![f] = Nobody]
    BY <1>a, <1>0 DEF CloseFile
<1>5. FileTypes'
    <2>1. \A u \in Threads : pc'[u] \in Writers => line'[u] > 0
        BY <1>1, <1>2 DEF FileTypes, Writers
    <2>2. Append(file[f], <<t, n>>) \in Seq(Threads \X Nat)
        BY <1>3
    <2>3. file' \in [Files -> Seq(Threads \X Nat)]
        BY <1>3, <1>4, <2>2
    <2>4. DOMAIN holder' = Files
        BY <1>4 DEF FileTypes
    <2> QED BY <1>1, <1>2, <2>1, <2>3, <2>4 DEF FileTypes
<1>6. HoldersClose'
    <2>1. \A g \in Files \ {f} : holder'[g] = holder[g] /\ holder[g] # t
        BY <1>0, <1>4 DEF HoldersClose, FileTypes
    <2>2. holder'[f] = Nobody
        BY <1>4 DEF FileTypes
    <2> QED BY <1>1, <2>1, <2>2 DEF HoldersClose
<1>7. FallbackHasReason'
    BY <1>1, <1>2 DEF FallbackHasReason
<1>8. /\ Done(t)' = Done(t) \cup {n} /\ \A u \in Threads \ {t} : Done(u)' = Done(u)
      /\ \A g \in Files : InFile(g, t, n) = {}
    BY <1>a, <1>1, <1>2, LineEnds
<1> DEFINE k == Len(file[f]) + 1
<1>9. /\ file'[f] = Append(file[f], <<t, n>>) /\ \A g \in Files \ {f} : file'[g] = file[g]
      /\ DOMAIN file'[f] = DOMAIN file[f] \cup {k} /\ k \notin DOMAIN file[f]
      /\ file'[f][k] = <<t, n>> /\ \A i \in DOMAIN file[f] : file'[f][i] = file[f][i]
    <2>1. file[f] \in Seq(Threads \X Nat) /\ <<t, n>> \in Threads \X Nat
        BY <1>3
    <2>2. file'[f] = Append(file[f], <<t, n>>) /\ \A g \in Files \ {f} : file'[g] = file[g]
        BY <1>3, <1>4
    <2>3. Len(Append(file[f], <<t, n>>)) = k /\ Append(file[f], <<t, n>>)[k] = <<t, n>>
          /\ \A i \in 1 .. Len(file[f]) : Append(file[f], <<t, n>>)[i] = file[f][i]
        BY <2>1
    <2>4. DOMAIN file[f] = 1 .. Len(file[f]) /\ Len(file[f]) \in Nat
          /\ DOMAIN Append(file[f], <<t, n>>) = 1 .. k
        BY <2>1, <2>3
    <2> QED BY <2>2, <2>3, <2>4
<1>10. \A g \in Files : \A u, m : (u # t \/ m # n) => InFile(g, u, m)' = InFile(g, u, m)
    BY <1>9 DEF InFile
<1>11. InFile(f, t, n)' = {k} /\ \A g \in Files \ {f} : InFile(g, t, n)' = {}
    <2>1. InFile(f, t, n)' = InFile(f, t, n) \cup {k}
        BY <1>9 DEF InFile
    <2>2. \A g \in Files \ {f} : InFile(g, t, n)' = InFile(g, t, n)
        BY <1>9 DEF InFile
    <2> QED BY <1>8, <2>1, <2>2
<1> HIDE DEF k
<1>12. ASSUME NEW u \in Threads, InstanceOf[u] \in Filing, NEW m \in Done(u)' PROVE Kept(u, m)'
    <2>1. CASE u # t \/ m # n
        <3>1. Homes(u, m)' = Homes(u, m)
            BY <1>10, <2>1 DEF Homes
        <3>2. m \in Done(u)
            BY <1>8, <1>12, <2>1
        <3> QED BY <1>2, <1>12, <3>1, <3>2 DEF LossHasReasons, Kept
    <2>2. CASE u = t /\ m = n
        <3>1. Homes(t, n)' = UNION {{<<g, i>> : i \in InFile(g, t, n)'} : g \in Files}
            BY DEF Homes
        <3>2. Homes(t, n)' = {<<f, k>>}
            BY <1>11, <3>1
        <3>3. Cardinality({<<f, k>>}) = 1
            BY FS_Singleton
        <3> QED BY <2>2, <3>2, <3>3 DEF Kept
    <2> QED BY <2>1, <2>2
<1>13. LossHasReasons'
    BY <1>2, <1>12 DEF LossHasReasons, Kept, Filing
<1>14. OnlyDoneLines'
    <2>1. \A u \in Threads : Done(u) \subseteq Done(u)'
        BY <1>8
    <2>2. ASSUME NEW g \in Files, NEW i \in DOMAIN file'[g], NEW u \in Threads, file'[g][i][1] = u
          PROVE  file'[g][i][2] \in Done(u)'
        <3>1. CASE g = f /\ i = k
            BY <1>8, <1>9, <2>2, <3>1
        <3>2. CASE ~(g = f /\ i = k)
            <4>1. i \in DOMAIN file[g] /\ file'[g][i] = file[g][i]
                BY <1>9, <2>2, <3>2
            <4> QED BY <2>1, <2>2, <4>1 DEF OnlyDoneLines
        <3> QED BY <3>1, <3>2
    <2>3. \A l \in lost' : l.by \in Threads /\ l.n \in Done(l.by)'
        BY <1>2, <2>1 DEF OnlyDoneLines
    <2> QED BY <2>2, <2>3 DEF OnlyDoneLines
<1> QED BY <1>5, <1>6, <1>7, <1>13, <1>14

(* The console and the ends of games file nothing.                            *)
LEMMA ConsoleFiles ==
    ASSUME FilesInv,
           \/ \E t \in Threads : Look(t) \/ PrintLine(t) \/ PrintInput(t)
           \/ \E i \in Typists : Type(i) \/ Enter(i)
           \/ \E i \in Instances : Die(i)
           \/ UNCHANGED logVars
    PROVE  FilesInv'
<1> USE NobodyIsNoThread DEF FilesInv, surroundings
<1>1. UNCHANGED <<line, surroundings, file, lost, refused>>
    BY DEF Look, TakeRow, PrintLine, PrintInput, Type, Enter, Die, logVars, fileVars
<1>2. /\ pc' \in [Threads -> Places]
      /\ \A t \in Threads : pc[t] \in Writers \/ pc'[t] \in Writers => pc'[t] = pc[t]
    <2>1. CASE UNCHANGED pc
        BY <2>1 DEF FileTypes
    <2>2. ASSUME NEW t \in Threads, Look(t) \/ PrintLine(t) \/ PrintInput(t)
          PROVE  /\ pc' \in [Threads -> Places]
                 /\ \A u \in Threads : pc[u] \in Writers \/ pc'[u] \in Writers => pc'[u] = pc[u]
        BY <2>2 DEF Look, TakeRow, PrintLine, PrintInput, Goto, FileTypes, Places, Writers
    <2>3. (\E i \in Typists : Type(i) \/ Enter(i)) \/ (\E i \in Instances : Die(i)) \/ UNCHANGED logVars
             => UNCHANGED pc
        BY DEF Type, Enter, Die, logVars
    <2> QED BY <2>1, <2>2, <2>3
<1>3. /\ DOMAIN holder' = Files
      /\ \A f \in Files : holder'[f] = holder[f] \/ holder'[f] = Nobody
    <2>1. CASE UNCHANGED holder
        BY <2>1 DEF FileTypes
    <2>2. CASE \E i \in Instances : Die(i)
        BY <2>2 DEF Die
    <2> QED BY <2>1, <2>2 DEF Look, TakeRow, PrintLine, PrintInput, Type, Enter, logVars, fileVars
<1>4. FileTypes'
    <2>1. \A t \in Threads : pc'[t] \in Writers => line'[t] > 0
        BY <1>1, <1>2 DEF FileTypes
    <2> QED BY <1>1, <1>2, <1>3, <2>1 DEF FileTypes
<1>5. HoldersClose'
    <2> SUFFICES ASSUME NEW f \in Files, holder'[f] # Nobody
                 PROVE  /\ holder'[f] \in Threads
                        /\ \/ pc'[holder'[f]] = "close" /\ f = Home[InstanceOf[holder'[f]]]
                           \/ pc'[holder'[f]] = "closeTemp" /\ f = Temp
        BY DEF HoldersClose
    <2>1. holder'[f] = holder[f] /\ holder[f] \in Threads /\ pc[holder[f]] \in Writers
        BY <1>3 DEF HoldersClose, Writers
    <2> QED BY <1>2, <2>1 DEF HoldersClose
<1>6. FallbackHasReason'
    BY <1>1, <1>2 DEF FallbackHasReason, Writers
<1>7. \A t \in Threads : Done(t)' = Done(t)
    BY <1>1, <1>2 DEF Done, Writers
<1> QED BY <1>1, <1>4, <1>5, <1>6, <1>7, NothingFiled

(* A line that has a folder to go to is in one file once, or neither file     *)
(* could be opened for a reason that does not lie in its thread: others were  *)
(* writing, nobody can open the file, or there is no temporary folder.  This  *)
(* is for any number of games and threads that log and end in the middle of   *)
(* it (logger.hpp:8-48).                                                      *)
THEOREM LinesAreKept == LogSpec => []LossHasReasons
<1>1. LogInit => FilesInv
    <2> SUFFICES ASSUME LogInit PROVE FilesInv
        OBVIOUS
    <2>1. \A t \in Threads : Done(t) = {}
        BY DEF LogInit, Done
    <2>2. <<>> \in Seq(Threads \X Nat) /\ DOMAIN <<>> = {}
        OBVIOUS
    <2>3. FileTypes
        BY <2>2, TempIsApart DEF LogInit, FileTypes, Places, Writers
    <2>4. OnlyDoneLines
        BY <2>2 DEF LogInit, OnlyDoneLines
    <2> QED BY <2>1, <2>3, <2>4
            DEF LogInit, FilesInv, HoldersClose, FallbackHasReason, LossHasReasons
<1>2. FilesInv /\ [LogNext]_logVars => FilesInv'
    BY BeginFiles, OpenFiles, OpenTempFiles, CloseFiles, ConsoleFiles DEF LogNext, ThreadStep
<1>3. FilesInv => LossHasReasons
    BY DEF FilesInv
<1> QED BY <1>1, <1>2, <1>3, PTL DEF LogSpec

=============================================================================
