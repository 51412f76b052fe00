--------------------------- MODULE UdpServerProofs ---------------------------
(***************************************************************************)
(* Theorems about UdpServer, for any services, sockets and datagrams.      *)
(***************************************************************************)
EXTENDS UdpServer, FiniteSetTheorems, TLAPS

------------------------------------------------------------------------------
(* The inductive invariant: on its way from a service's queue to the game   *)
(* an answer never gets past an older one of the same service and socket.  *)

Elements(q) == {q[i] : i \in 1..Len(q)}
Increasing(q) == \A i, j \in 1..Len(q) : i < j => q[i] < q[j]
Below(r, q) == \A i \in 1..Len(q) : r < q[i]

Of(r, v) == r \in 1..Len(sent) /\ sent[r].server = v
OfSocket(r, v, s) == Of(r, v) /\ sent[r].socket = s

Shape ==
  /\ sent \in Seq(Datagrams)
  /\ inQueue \in [Servers -> Seq(Nat)]
  /\ outQueue \in [Servers -> [Sockets -> Seq(Nat)]]
  /\ pc \in {"start", "frame", "pop", "handle", "sleep", "gone"}
  /\ serverAt \in Nat \ {0}
  /\ pc \in {"pop", "handle"} => serverAt <= Len(Order)
  /\ packet \in Nat /\ (packet # 0 <=> pc = "handle")
  /\ recvAt \in [Sockets -> Nat]
  /\ result \in [Sockets -> Nat]
  /\ found \in [Sockets -> SUBSET Nat]
  /\ received \in [Sockets -> Seq(Nat)]

Requested(v) ==
  /\ Increasing(inQueue[v])
  /\ \A i \in 1..Len(inQueue[v]) : Of(inQueue[v][i], v)

InHand == packet # 0 => /\ Of(packet, Order[serverAt])
                        /\ Below(packet, inQueue[Order[serverAt]])

(* r is before what the service v still has to do.                         *)
BeforeRequests(r, v) ==
  /\ Below(r, inQueue[v])
  /\ packet # 0 /\ Order[serverAt] = v => r < packet

Answered(v, s) ==
  /\ Increasing(outQueue[v][s])
  /\ \A i \in 1..Len(outQueue[v][s]) :
       OfSocket(outQueue[v][s][i], v, s) /\ BeforeRequests(outQueue[v][s][i], v)

(* r is before what v still has for s.                                     *)
BeforeAnswers(r, v, s) == BeforeRequests(r, v) /\ Below(r, outQueue[v][s])

(* What a recvfrom has taken is from services it has visited.             *)
Taken(s) ==
  /\ result[s] # 0 => result[s] \in found[s]
  /\ \A r \in found[s] : \E k \in 1..Len(Order) :
       k < recvAt[s] /\ OfSocket(r, Order[k], s) /\ BeforeAnswers(r, Order[k], s)

Read(s) ==
  /\ \A i \in 1..Len(received[s]) : \E v \in Servers :
       /\ OfSocket(received[s][i], v, s)
       /\ BeforeAnswers(received[s][i], v, s)
       /\ \A r \in found[s] : sent[r].server = v => received[s][i] < r
  /\ \A i, j \in 1..Len(received[s]) :
       i < j /\ sent[received[s][i]].server = sent[received[s][j]].server
         => received[s][i] < received[s][j]

IInv ==
  /\ Shape /\ InHand
  /\ \A v \in Servers : Requested(v)
  /\ \A v \in Servers, s \in Sockets : Answered(v, s)
  /\ \A s \in Sockets : Taken(s) /\ Read(s)

------------------------------------------------------------------------------
(* Sequences and the order of the services. *)

LEMMA OrderOfServers ==
  /\ Len(Order) \in Nat
  /\ \A k \in 1..Len(Order) : Order[k] \in Servers
  /\ \A k, l \in 1..Len(Order) : Order[k] = Order[l] => k = l
BY UdpAssumption DEF IsInjective

LEMMA AppendElements ==
  ASSUME NEW S, NEW q \in Seq(S), NEW x \in S
  PROVE  /\ Append(q, x) \in Seq(S) /\ Len(Append(q, x)) = Len(q) + 1
         /\ \A i \in 1..Len(q) + 1 : Append(q, x)[i] = IF i <= Len(q) THEN q[i] ELSE x
         /\ Len(q) \in Nat
OBVIOUS

LEMMA TailElements ==
  ASSUME NEW S, NEW q \in Seq(S), q # <<>>
  PROVE  /\ Tail(q) \in Seq(S) /\ Len(Tail(q)) = Len(q) - 1
         /\ \A i \in 1..Len(q) - 1 : Tail(q)[i] = q[i + 1] /\ i + 1 \in 1..Len(q)
         /\ Head(q) = q[1] /\ 1 \in 1..Len(q) /\ Head(q) \in S /\ Len(q) \in Nat
OBVIOUS

LEMMA AppendIncreases ==
  ASSUME NEW q \in Seq(Nat), NEW x \in Nat
  PROVE  /\ Increasing(q) /\ (\A i \in 1..Len(q) : q[i] < x) => Increasing(Append(q, x))
         /\ \A r \in Nat : Below(r, q) /\ r < x => Below(r, Append(q, x))
BY AppendElements DEF Increasing, Below

LEMMA TailIncreases ==
  ASSUME NEW q \in Seq(Nat), q # <<>>
  PROVE  /\ Increasing(q) => Increasing(Tail(q)) /\ Below(Head(q), Tail(q))
         /\ \A r \in Nat : Below(r, q) => Below(r, Tail(q)) /\ r < Head(q)
<1>1. Increasing(q) => Increasing(Tail(q)) /\ Below(Head(q), Tail(q))
  BY TailElements DEF Increasing, Below
<1>2. \A r \in Nat : Below(r, q) => Below(r, Tail(q)) /\ r < Head(q)
  BY TailElements DEF Below
<1> QED BY <1>1, <1>2

LEMMA SetOfAppend ==
  ASSUME NEW q \in Seq(Nat), NEW x \in Nat
  PROVE  ToSet(Append(q, x)) = ToSet(q) \cup {x}
<1>1. /\ DOMAIN q = 1..Len(q) /\ DOMAIN Append(q, x) = 1..Len(q) + 1 /\ Len(q) \in Nat
      /\ \A i \in 1..Len(q) + 1 : Append(q, x)[i] = IF i <= Len(q) THEN q[i] ELSE x
  BY AppendElements
<1>2. ToSet(Append(q, x)) \subseteq ToSet(q) \cup {x}
  BY <1>1 DEF ToSet
<1>3. ToSet(q) \subseteq ToSet(Append(q, x))
  BY <1>1 DEF ToSet
<1>4. x \in ToSet(Append(q, x))
  <2>1. Len(q) + 1 \in 1..Len(q) + 1 /\ ~(Len(q) + 1 <= Len(q))
    BY <1>1
  <2> QED BY <1>1, <2>1 DEF ToSet
<1> QED BY <1>2, <1>3, <1>4

------------------------------------------------------------------------------
(* The steps, each against Shape. *)

LEMMA SocketShape ==
  ASSUME NEW s \in Sockets, Shape, Game(s)
  PROVE  Shape'
<1> USE DEF Shape
<1>1. ASSUME NEW v \in Servers, NEW stun \in BOOLEAN, Send(s, v, stun) PROVE Shape'
  <2>1. [socket |-> s, server |-> v, stun |-> stun] \in Datagrams
    BY DEF Datagrams
  <2>2. Len(sent) + 1 \in Nat
    OBVIOUS
  <2>3. sent' \in Seq(Datagrams)
    BY <1>1, <2>1 DEF Send
  <2>4. Append(inQueue[v], Len(sent) + 1) \in Seq(Nat)
    BY <2>2
  <2>5. inQueue' \in [Servers -> Seq(Nat)]
    BY <1>1, <2>4 DEF Send
  <2> QED BY <1>1, <2>3, <2>5 DEF Send, thread, reader
<1>2. CASE Ioctl(s) \/ Close(s)
  BY <1>2 DEF Ioctl, Close, queues, thread
<1>3. CASE RecvFrom(s)
  BY <1>3 DEF RecvFrom, queues, thread
<1>4. CASE RecvVisit(s)
  <2> DEFINE v == Order[recvAt[s]]
             queue == outQueue[v][s]
  <2>1. v \in Servers /\ recvAt' \in [Sockets -> Nat]
    <3>1. recvAt[s] \in 1..Len(Order) /\ recvAt' = [recvAt EXCEPT ![s] = @ + 1]
      BY <1>4 DEF RecvVisit
    <3>2. recvAt' \in [Sockets -> Nat]
      BY <3>1
    <3> QED BY ONLY <3>1, <3>2, OrderOfServers
  <2>2. UNCHANGED <<sent, inQueue, pc, serverAt, packet, received>>
    BY <1>4 DEF RecvVisit, thread
  <2>3. CASE queue = <<>>
    BY <1>4, <2>1, <2>2, <2>3 DEF RecvVisit
  <2>4. CASE queue # <<>>
    <3>1. queue \in Seq(Nat)
      BY <2>1
    <3>2. Tail(queue) \in Seq(Nat) /\ Head(queue) \in Nat
      BY <2>4, <3>1, TailElements
    <3>3. /\ outQueue' = [outQueue EXCEPT ![v][s] = Tail(queue)]
          /\ found' = [found EXCEPT ![s] = found[s] \cup {Head(queue)}]
          /\ \/ result' = [result EXCEPT ![s] = Head(queue)]
             \/ result' = [result EXCEPT ![s] = 0]
      BY <1>4, <2>4 DEF RecvVisit
    <3> HIDE DEF v, queue
    <3>4. outQueue' \in [Servers -> [Sockets -> Seq(Nat)]]
      BY <2>1, <3>2, <3>3
    <3>5. result' \in [Sockets -> Nat]
      <4>1. result \in [Sockets -> Nat] /\ 0 \in Nat
        OBVIOUS
      <4>2. PICK x \in Nat : result' = [result EXCEPT ![s] = x]
        BY <3>2, <3>3, <4>1
      <4> QED BY ONLY <4>1, <4>2
    <3>6. found' \in [Sockets -> SUBSET Nat]
      BY <3>2, <3>3
    <3> QED BY <2>1, <2>2, <3>4, <3>5, <3>6
  <2> QED BY <2>3, <2>4
<1>5. CASE RecvReturns(s)
  <2>1. /\ result' \in [Sockets -> Nat] /\ recvAt' \in [Sockets -> Nat]
        /\ found' \in [Sockets -> SUBSET Nat]
    BY <1>5 DEF RecvReturns
  <2>2. Append(received[s], result[s]) \in Seq(Nat)
    OBVIOUS
  <2>3. received' \in [Sockets -> Seq(Nat)]
    BY <1>5, <2>2 DEF RecvReturns
  <2> QED BY <1>5, <2>1, <2>3 DEF RecvReturns, queues, thread
<1> QED BY <1>1, <1>2, <1>3, <1>4, <1>5 DEF Game

LEMMA ServerShape ==
  ASSUME IInv, ServerMain
  PROVE  Shape'
<1> USE DEF IInv, Shape
<1>1. CASE ServerStarts \/ ServerWakes \/ FrameVisits
  BY <1>1, OrderOfServers DEF ServerStarts, ServerWakes, FrameVisits, queues, reader
<1>2. CASE FramePops
  <2> DEFINE v == Order[serverAt]
  <2>1. v \in Servers
    BY <1>2, OrderOfServers DEF FramePops
  <2>2. CASE inQueue[v] = <<>>
    BY <1>2, <2>2 DEF FramePops, reader
  <2>3. CASE inQueue[v] # <<>>
    <3>1. inQueue[v] \in Seq(Nat) /\ Requested(v)
      BY <2>1
    <3>2. Tail(inQueue[v]) \in Seq(Nat) /\ Head(inQueue[v]) = inQueue[v][1] /\ 1 \in 1..Len(inQueue[v])
      BY <2>3, <3>1, TailElements
    <3>3. Head(inQueue[v]) \in 1..Len(sent)
      BY <3>1, <3>2 DEF Requested, Of
    <3>4. packet' = Head(inQueue[v]) /\ inQueue' = [inQueue EXCEPT ![v] = Tail(inQueue[v])] /\ pc' = "handle"
      BY <1>2, <2>3 DEF FramePops
    <3>5. UNCHANGED <<sent, outQueue, serverAt, recvAt, result, found, received>>
      BY <1>2, <2>3 DEF FramePops, reader
    <3> HIDE DEF v
    <3>6. inQueue' \in [Servers -> Seq(Nat)]
      BY <2>1, <3>2, <3>4
    <3>7. packet' \in Nat /\ packet' # 0
      BY <3>3, <3>4
    <3>8. serverAt <= Len(Order)
      BY <1>2 DEF FramePops
    <3> QED BY <3>4, <3>5, <3>6, <3>7, <3>8
  <2> QED BY <2>2, <2>3
<1>3. CASE FrameHandles
  <2> DEFINE v == Order[serverAt]
             t == sent[packet].socket
  <2>1. v \in Servers /\ packet # 0
    BY <1>3, OrderOfServers DEF FrameHandles
  <2>2. t \in Sockets
    <3>1. sent[packet] \in Datagrams
      BY <2>1 DEF InHand, Of
    <3> QED BY <3>1 DEF Datagrams
  <2>3. Append(outQueue[v][t], packet) \in Seq(Nat)
    BY <2>1, <2>2
  <2>4. outQueue' = outQueue \/ outQueue' = [outQueue EXCEPT ![v][t] = Append(outQueue[v][t], packet)]
    BY <1>3 DEF FrameHandles
  <2> HIDE DEF v, t
  <2>5. outQueue' \in [Servers -> [Sockets -> Seq(Nat)]]
    <3>1. CASE outQueue' = outQueue
      BY <3>1
    <3>2. CASE outQueue' = [outQueue EXCEPT ![v][t] = Append(outQueue[v][t], packet)]
      <4>1. [outQueue[v] EXCEPT ![t] = Append(outQueue[v][t], packet)] \in [Sockets -> Seq(Nat)]
        BY <2>1, <2>2, <2>3
      <4>2. outQueue' = [outQueue EXCEPT ![v] = [outQueue[v] EXCEPT ![t] = Append(outQueue[v][t], packet)]]
        BY <3>2
      <4> QED BY <2>1, <4>1, <4>2
    <3> QED BY <2>4, <3>1, <3>2
  <2> QED BY <1>3, <2>5 DEF FrameHandles, reader
<1> QED BY <1>1, <1>2, <1>3 DEF ServerMain

------------------------------------------------------------------------------
(* The steps, each against the order. *)

(* Steps that take nothing from one place to another.                      *)
LEMMA QuietKeeps ==
  ASSUME IInv, Shape',
         UNCHANGED <<sent, inQueue, outQueue, packet, result, found, received>>,
         packet = 0 \/ UNCHANGED serverAt,
         \A s \in Sockets : found[s] # {} => recvAt[s] <= recvAt'[s]
  PROVE  IInv'
<1> USE DEF IInv
<1>1. InHand'
  BY DEF InHand, Of, Below
<1>2. ASSUME NEW v \in Servers PROVE Requested(v)'
  BY DEF Requested, Of, Increasing
<1>3. \A r, v : /\ BeforeRequests(r, v)' <=> BeforeRequests(r, v)
                /\ Of(r, v)' <=> Of(r, v)
  BY DEF BeforeRequests, Of, Below
<1>4. \A r, v, s : /\ BeforeAnswers(r, v, s)' <=> BeforeAnswers(r, v, s)
                   /\ OfSocket(r, v, s)' <=> OfSocket(r, v, s)
  BY <1>3 DEF BeforeAnswers, OfSocket, Below
<1>5. ASSUME NEW v \in Servers, NEW s \in Sockets PROVE Answered(v, s)'
  BY <1>3, <1>4 DEF Answered, Increasing
<1>6. ASSUME NEW s \in Sockets PROVE Taken(s)'
  <2>1. ASSUME NEW r \in found[s]
        PROVE  \E k \in 1..Len(Order) :
                 k < recvAt'[s] /\ OfSocket(r, Order[k], s)' /\ BeforeAnswers(r, Order[k], s)'
    <3>1. PICK k \in 1..Len(Order) : k < recvAt[s] /\ OfSocket(r, Order[k], s) /\ BeforeAnswers(r, Order[k], s)
      BY <2>1 DEF Taken
    <3>2. k < recvAt'[s]
      <4>1. recvAt[s] \in Nat /\ recvAt'[s] \in Nat
        BY DEF Shape
      <4>2. recvAt[s] <= recvAt'[s]
        BY <2>1
      <4> QED BY ONLY <3>1, <4>1, <4>2, OrderOfServers
    <3>3. OfSocket(r, Order[k], s)' /\ BeforeAnswers(r, Order[k], s)'
      BY <1>4, <3>1
    <3> QED BY <3>2, <3>3
  <2> QED BY <2>1 DEF Taken
<1>7. ASSUME NEW s \in Sockets PROVE Read(s)'
  BY <1>4 DEF Read
<1> QED BY <1>1, <1>2, <1>5, <1>6, <1>7

(* A new datagram is behind everything that is on its way.                 *)
LEMMA SendKeeps ==
  ASSUME NEW s \in Sockets, NEW v \in Servers, NEW stun \in BOOLEAN, IInv, Shape', Send(s, v, stun)
  PROVE  IInv'
<1> USE DEF IInv
<1> DEFINE n == Len(sent) + 1
<1>1. /\ UNCHANGED <<outQueue, pc, serverAt, packet, recvAt, result, found, received>>
      /\ sent' = Append(sent, [socket |-> s, server |-> v, stun |-> stun])
      /\ inQueue' = [inQueue EXCEPT ![v] = Append(inQueue[v], n)]
  BY DEF Send, thread, reader
<1>2. n \in Nat /\ Len(sent') = n /\ Len(sent) \in Nat
      /\ (\A r \in 1..Len(sent) : sent'[r] = sent[r]) /\ sent'[n].server = v
  BY <1>1 DEF Shape
<1> HIDE DEF n
<1>3. \A r, w : Of(r, w) => Of(r, w)' /\ r \in Nat /\ r < n
  BY <1>2 DEF Of, n
<1>4. \A r, w, t : OfSocket(r, w, t) => OfSocket(r, w, t)' /\ r \in Nat /\ r < n
  BY <1>2 DEF OfSocket, Of, n
<1>5. \A w \in Servers : /\ inQueue[w] \in Seq(Nat)
                         /\ inQueue'[w] = IF w = v THEN Append(inQueue[w], n) ELSE inQueue[w]
  BY <1>1 DEF Shape
<1>6. \A w \in Servers, r \in Nat : r < n /\ Below(r, inQueue[w]) => Below(r, inQueue[w])'
  BY <1>2, <1>5, AppendIncreases DEF Below
<1>7. \A w \in Servers, r \in Nat : r < n /\ BeforeRequests(r, w) => BeforeRequests(r, w)'
  BY <1>1, <1>6 DEF BeforeRequests
<1>8. InHand'
  <2> SUFFICES ASSUME packet # 0 PROVE InHand'
    BY <1>1 DEF InHand
  <2>1. Of(packet, Order[serverAt]) /\ Below(packet, inQueue[Order[serverAt]])
    BY DEF InHand
  <2>2. Order[serverAt] \in Servers
    BY OrderOfServers DEF Shape
  <2> QED BY <1>1, <1>3, <1>6, <2>1, <2>2 DEF InHand, Below
<1>9. ASSUME NEW w \in Servers PROVE Requested(w)'
  <2>1. CASE w # v
    BY <1>3, <1>5, <2>1 DEF Requested, Increasing
  <2>2. CASE w = v
    <3> DEFINE q == inQueue[v]
    <3>1. Requested(v) /\ (\A i \in 1..Len(q) : q[i] < n) /\ q \in Seq(Nat)
      BY <1>3, <1>5 DEF Requested
    <3>5. inQueue'[v] = Append(q, n)
      BY <1>5
    <3>6. Increasing(Append(q, n))
      BY <1>2, <3>1, AppendIncreases DEF Requested
    <3>2. Increasing(inQueue[v])'
      BY <3>5, <3>6 DEF Increasing
    <3>7. Len(Append(q, n)) = Len(q) + 1 /\ Len(q) \in Nat
          /\ \A i \in 1..Len(q) + 1 : Append(q, n)[i] = IF i <= Len(q) THEN q[i] ELSE n
      BY <1>2, <3>1, AppendElements
    <3>3. ASSUME NEW i \in 1..Len(inQueue'[v]) PROVE Of(inQueue[v][i], v)'
      <4>1. i \in 1..Len(q) + 1 /\ inQueue'[v][i] = IF i <= Len(q) THEN q[i] ELSE n
        BY <3>5, <3>7
      <4>2. CASE i <= Len(q)
        <5>1. Of(q[i], v)
          BY <3>1, <3>7, <4>1, <4>2 DEF Requested
        <5> QED BY <1>3, <4>1, <4>2, <5>1 DEF Of
      <4>3. CASE ~(i <= Len(q))
        <5>1. inQueue'[v][i] = n /\ n \in 1..Len(sent')
          BY <1>2, <4>1, <4>3 DEF n
        <5> QED BY <1>2, <5>1 DEF Of
      <4> QED BY <4>2, <4>3
    <3> QED BY <2>2, <3>2, <3>3 DEF Requested
  <2> QED BY <2>1, <2>2
<1>10. ASSUME NEW w \in Servers, NEW t \in Sockets PROVE Answered(w, t)'
  BY <1>1, <1>4, <1>7 DEF Answered, Increasing
<1>11. \A r \in Nat, w \in Servers, t \in Sockets :
         r < n /\ BeforeAnswers(r, w, t) => BeforeAnswers(r, w, t)'
  BY <1>1, <1>7 DEF BeforeAnswers, Below
<1>12. ASSUME NEW t \in Sockets PROVE Taken(t)'
  <2>1. ASSUME NEW r \in found[t]
        PROVE  \E k \in 1..Len(Order) :
                 k < recvAt[t] /\ OfSocket(r, Order[k], t)' /\ BeforeAnswers(r, Order[k], t)'
    <3>1. PICK k \in 1..Len(Order) : k < recvAt[t] /\ OfSocket(r, Order[k], t) /\ BeforeAnswers(r, Order[k], t)
      BY <2>1 DEF Taken
    <3>2. OfSocket(r, Order[k], t)' /\ BeforeAnswers(r, Order[k], t)'
      BY <1>4, <1>11, <3>1, OrderOfServers
    <3> QED BY <3>1, <3>2
  <2> QED BY <1>1, <2>1 DEF Taken
<1>13. ASSUME NEW t \in Sockets PROVE Read(t)'
  <2>1. \A i \in 1..Len(received[t]) : received[t][i] \in 1..Len(sent)
    BY DEF Read, OfSocket, Of
  <2>2. \A r \in found[t] : r \in 1..Len(sent)
    BY DEF Taken, OfSocket, Of
  <2>3. ASSUME NEW i \in 1..Len(received[t])
        PROVE  \E w \in Servers :
                 /\ OfSocket(received[t][i], w, t)' /\ BeforeAnswers(received[t][i], w, t)'
                 /\ \A r \in found[t] : sent'[r].server = w => received[t][i] < r
    <3>1. PICK w \in Servers : /\ OfSocket(received[t][i], w, t) /\ BeforeAnswers(received[t][i], w, t)
                               /\ \A r \in found[t] : sent[r].server = w => received[t][i] < r
      BY DEF Read
    <3>2. OfSocket(received[t][i], w, t)' /\ BeforeAnswers(received[t][i], w, t)'
      BY <1>1, <1>4, <1>11, <3>1
    <3>3. \A r \in found[t] : sent'[r] = sent[r]
      BY <1>2, <2>2
    <3> QED BY ONLY <3>1, <3>2, <3>3
  <2>4. ASSUME NEW i \in 1..Len(received[t]), NEW j \in 1..Len(received[t]), i < j,
               sent'[received[t][i]].server = sent'[received[t][j]].server
        PROVE  received[t][i] < received[t][j]
    BY <1>2, <2>1, <2>4 DEF Read
  <2>5. received' = received /\ found' = found
    BY <1>1
  <2> QED BY ONLY <2>3, <2>4, <2>5 DEF Read
<1> QED BY <1>8, <1>9, <1>10, <1>12, <1>13

(* recvfrom takes the oldest answer of the next service.                   *)
LEMMA VisitKeeps ==
  ASSUME NEW s \in Sockets, IInv, Shape', RecvVisit(s)
  PROVE  IInv'
<1> USE DEF IInv
<1>0. PICK k, v, q, a : k = recvAt[s] /\ v = Order[k] /\ q = outQueue[v][s] /\ a = Head(q)
  OBVIOUS
<1>1. /\ k \in 1..Len(Order) /\ recvAt' = [recvAt EXCEPT ![s] = k + 1]
      /\ UNCHANGED <<sent, inQueue, pc, serverAt, packet, received>>
      /\ v \in Servers /\ k \in Nat /\ q \in Seq(Nat)
      /\ recvAt'[s] = k + 1 /\ \A t \in Sockets \ {s} : recvAt'[t] = recvAt[t]
  <2>1. /\ k \in 1..Len(Order) /\ recvAt' = [recvAt EXCEPT ![s] = k + 1]
        /\ UNCHANGED <<sent, inQueue, pc, serverAt, packet, received>>
    BY <1>0 DEF RecvVisit, thread
  <2>2. v \in Servers /\ k \in Nat
    BY <1>0, <2>1, OrderOfServers
  <2>3. q \in Seq(Nat)
    BY <1>0, <2>2 DEF Shape
  <2>4. recvAt'[s] = k + 1 /\ \A t \in Sockets \ {s} : recvAt'[t] = recvAt[t]
    BY <2>1 DEF Shape
  <2> QED BY <2>1, <2>2, <2>3, <2>4
<1>2. CASE q = <<>>
  <2>1. UNCHANGED <<outQueue, result, found>>
    BY <1>0, <1>2 DEF RecvVisit
  <2>2. \A t \in Sockets : recvAt[t] <= recvAt'[t]
    <3>1. recvAt \in [Sockets -> Nat] /\ recvAt'[s] = recvAt[s] + 1
      BY <1>0, <1>1 DEF Shape
    <3> QED BY ONLY <1>1, <3>1
  <2> QED BY <1>1, <2>1, <2>2, QuietKeeps
<1>3. CASE q # <<>>
  <2>1. /\ outQueue' = [outQueue EXCEPT ![v][s] = Tail(q)]
        /\ found' = [found EXCEPT ![s] = found[s] \cup {a}]
        /\ result' = [result EXCEPT ![s] = IF s \in noRoom THEN 0 ELSE a]
    BY <1>0, <1>3 DEF RecvVisit
  <2>2. \A w \in Servers, t \in Sockets :
          outQueue'[w][t] = IF w = v /\ t = s THEN Tail(q) ELSE outQueue[w][t]
    <3>1. outQueue \in [Servers -> [Sockets -> Seq(Nat)]]
      BY DEF Shape
    <3> QED BY <1>1, <2>1, <3>1
  <2>3. /\ \A t \in Sockets : found'[t] = IF t = s THEN found[s] \cup {a} ELSE found[t]
        /\ \A t \in Sockets \ {s} : result'[t] = result[t]
        /\ result'[s] \in {0, a}
    <3>1. found \in [Sockets -> SUBSET Nat] /\ result \in [Sockets -> Nat]
      BY DEF Shape
    <3>2. \A t \in Sockets : found'[t] = IF t = s THEN found[s] \cup {a} ELSE found[t]
      BY ONLY <2>1, <3>1
    <3>3. (\A t \in Sockets \ {s} : result'[t] = result[t]) /\ result'[s] \in {0, a}
      BY ONLY <2>1, <3>1
    <3> QED BY ONLY <3>2, <3>3
  <2>4. a = q[1] /\ 1 \in 1..Len(q) /\ a \in Nat /\ Tail(q) \in Seq(Nat) /\ Len(Tail(q)) = Len(q) - 1
        /\ \A i \in 1..Len(Tail(q)) : Tail(q)[i] = q[i + 1] /\ i + 1 \in 1..Len(q)
    BY <1>0, <1>1, <1>3, TailElements
  <2>5. Answered(v, s)
    BY <1>1
  <2>6. OfSocket(a, v, s) /\ BeforeRequests(a, v)
    BY <1>0, <2>4, <2>5 DEF Answered
  <2>7. Increasing(Tail(q)) /\ Below(a, Tail(q)) /\ \A r \in Nat : Below(r, q) => Below(r, Tail(q)) /\ r < a
    BY <1>0, <1>1, <1>3, <2>5, TailIncreases DEF Answered
  <2>8. \A r, w : /\ BeforeRequests(r, w)' <=> BeforeRequests(r, w)
                  /\ Of(r, w)' <=> Of(r, w)
    BY <1>1 DEF BeforeRequests, Of, Below
  <2>9. \A r, w, t : OfSocket(r, w, t)' <=> OfSocket(r, w, t)
    BY <1>1, <2>8 DEF OfSocket
  <2>10. \A r, w, t : OfSocket(r, w, t) => r \in Nat
    BY DEF OfSocket, Of
  <2>11. \A r \in Nat, w \in Servers, t \in Sockets : BeforeAnswers(r, w, t) => BeforeAnswers(r, w, t)'
    <3> SUFFICES ASSUME NEW r \in Nat, NEW w \in Servers, NEW t \in Sockets, BeforeAnswers(r, w, t)
                 PROVE  BeforeAnswers(r, w, t)'
      OBVIOUS
    <3>1. CASE w = v /\ t = s
      <4>1. Below(r, q)
        BY <1>0, <3>1 DEF BeforeAnswers
      <4>2. Below(r, Tail(q)) /\ outQueue'[w][t] = Tail(q)
        BY <2>2, <2>7, <3>1, <4>1
      <4> QED BY <2>8, <4>2 DEF BeforeAnswers, Below
    <3>2. CASE ~(w = v /\ t = s)
      BY <2>2, <2>8, <3>2 DEF BeforeAnswers, Below
    <3> QED BY <3>1, <3>2
  <2>12. InHand' /\ \A w \in Servers : Requested(w)'
    BY <1>1, <2>8 DEF InHand, Requested, Increasing, Below
  <2>13. ASSUME NEW w \in Servers, NEW t \in Sockets PROVE Answered(w, t)'
    <3>1. CASE w = v /\ t = s
      <4>1. outQueue'[w][t] = Tail(q)
        BY <2>2, <3>1
      <4>2. \A i \in 1..Len(Tail(q)) : OfSocket(Tail(q)[i], v, s) /\ BeforeRequests(Tail(q)[i], v)
        BY <1>0, <2>4, <2>5 DEF Answered
      <4> QED BY <2>7, <2>8, <2>9, <3>1, <4>1, <4>2 DEF Answered, Increasing
    <3>2. CASE ~(w = v /\ t = s)
      BY <2>2, <2>8, <2>9, <3>2 DEF Answered, Increasing
    <3> QED BY <3>1, <3>2
  <2>14. ASSUME NEW t \in Sockets PROVE Taken(t)'
    <3>1. ASSUME NEW r \in found[t]
          PROVE  \E l \in 1..Len(Order) :
                   l < recvAt'[t] /\ OfSocket(r, Order[l], t)' /\ BeforeAnswers(r, Order[l], t)'
      <4>1. PICK l \in 1..Len(Order) : l < recvAt[t] /\ OfSocket(r, Order[l], t) /\ BeforeAnswers(r, Order[l], t)
        BY <3>1 DEF Taken
      <4>2. OfSocket(r, Order[l], t)' /\ BeforeAnswers(r, Order[l], t)'
        BY <2>9, <2>10, <2>11, <4>1, OrderOfServers
      <4>3. l < recvAt'[t]
        BY <1>0, <1>1, <4>1
      <4> QED BY <4>2, <4>3
    <3>2. k \in 1..Len(Order) /\ k < recvAt'[s] /\ OfSocket(a, Order[k], s)' /\ BeforeAnswers(a, Order[k], s)'
      <4>1. BeforeAnswers(a, v, s)'
        BY <1>1, <2>2, <2>6, <2>7, <2>8 DEF BeforeAnswers, Below
      <4> QED BY <1>0, <1>1, <2>6, <2>9, <4>1
    <3>3. result'[t] # 0 => result'[t] \in found'[t]
      BY <2>3 DEF Taken
    <3>4. \A r \in found'[t] : r \in found[t] \/ (r = a /\ t = s)
      BY <2>3
    <3> QED BY <3>1, <3>2, <3>3, <3>4 DEF Taken
  <2>15. ASSUME NEW t \in Sockets PROVE Read(t)'
    <3>1. ASSUME NEW i \in 1..Len(received[t])
          PROVE  \E w \in Servers :
                   /\ OfSocket(received[t][i], w, t)' /\ BeforeAnswers(received[t][i], w, t)'
                   /\ \A r \in found'[t] : sent[r].server = w => received[t][i] < r
      <4>1. PICK w \in Servers : /\ OfSocket(received[t][i], w, t) /\ BeforeAnswers(received[t][i], w, t)
                                 /\ \A r \in found[t] : sent[r].server = w => received[t][i] < r
        BY DEF Read
      <4>2. OfSocket(received[t][i], w, t)' /\ BeforeAnswers(received[t][i], w, t)'
        BY <1>1, <2>9, <2>10, <2>11, <4>1
      <4>3. ASSUME t = s, sent[a].server = w PROVE received[t][i] < a
        <5>1. w = v
          BY <2>6, <4>3 DEF OfSocket, Of
        <5> QED BY <1>0, <2>7, <2>10, <4>1, <4>3, <5>1 DEF BeforeAnswers
      <4> QED BY <2>3, <4>1, <4>2, <4>3
    <3> QED BY <1>1, <3>1 DEF Read
  <2> QED BY <2>12, <2>13, <2>14, <2>15
<1> QED BY <1>2, <1>3

(* recvfrom returns: what it gives is behind what it gave before.          *)
LEMMA ReturnKeeps ==
  ASSUME NEW s \in Sockets, IInv, Shape', RecvReturns(s)
  PROVE  IInv'
<1> USE DEF IInv
<1>0. PICK a, q : a = result[s] /\ q = received[s]
  OBVIOUS
<1>1. /\ UNCHANGED <<sent, inQueue, outQueue, pc, serverAt, packet>>
      /\ \A t \in Sockets : result'[t] = IF t = s THEN 0 ELSE result[t]
      /\ \A t \in Sockets : found'[t] = IF t = s THEN {} ELSE found[t]
      /\ \A t \in Sockets \ {s} : recvAt'[t] = recvAt[t]
      /\ a \in Nat /\ q \in Seq(Nat)
      /\ \A t \in Sockets : received'[t] = IF t = s /\ a # 0 THEN Append(q, a) ELSE received[t]
  BY <1>0 DEF RecvReturns, queues, thread, Shape
<1>2. \A r, w, t : /\ OfSocket(r, w, t)' <=> OfSocket(r, w, t)
                   /\ BeforeAnswers(r, w, t)' <=> BeforeAnswers(r, w, t)
  BY <1>1 DEF OfSocket, Of, BeforeAnswers, BeforeRequests, Below
<1>3. InHand' /\ (\A w \in Servers : Requested(w)') /\ \A w \in Servers, t \in Sockets : Answered(w, t)'
  BY <1>1 DEF InHand, Requested, Answered, OfSocket, Of, BeforeRequests, Increasing, Below
<1>4. ASSUME NEW t \in Sockets PROVE Taken(t)'
  <2>1. CASE t = s
    BY <1>1, <2>1 DEF Taken
  <2>2. CASE t # s
    BY <1>1, <1>2, <2>2 DEF Taken
  <2> QED BY <2>1, <2>2
<1>5. ASSUME NEW t \in Sockets, t # s PROVE Read(t)'
  BY <1>1, <1>2, <1>5 DEF Read
<1>6. Read(s)'
  <2>1. CASE a = 0
    <3>1. received'[s] = received[s] /\ found'[s] = {} /\ sent' = sent
      BY <1>1, <2>1
    <3> QED BY <1>2, <3>1 DEF Read
  <2>2. CASE a # 0
    <3> DEFINE p == Append(q, a)
    <3>1. Len(p) = Len(q) + 1 /\ Len(q) \in Nat
          /\ \A i \in 1..Len(q) + 1 : p[i] = IF i <= Len(q) THEN q[i] ELSE a
      BY <1>1, AppendElements
    <3>2. a \in found[s]
      BY <1>0, <2>2 DEF Taken
    <3>3. PICK k \in 1..Len(Order) : OfSocket(a, Order[k], s) /\ BeforeAnswers(a, Order[k], s)
      BY <3>2 DEF Taken
    <3>4. Order[k] \in Servers /\ sent[a].server = Order[k]
      BY <3>3, OrderOfServers DEF OfSocket, Of
    <3>5. Read(s) /\ \A i \in 1..Len(q) : \E w \in Servers :
            OfSocket(q[i], w, s) /\ BeforeAnswers(q[i], w, s) /\ (sent[a].server = w => q[i] < a)
      BY <1>0, <3>2 DEF Read
    <3>6. ASSUME NEW i \in 1..Len(p)
          PROVE  \E w \in Servers : OfSocket(p[i], w, s) /\ BeforeAnswers(p[i], w, s)
      <4>1. CASE i <= Len(q)
        <5>1. i \in 1..Len(q) /\ p[i] = q[i]
          BY <3>1, <4>1
        <5> QED BY <3>5, <5>1
      <4>2. CASE ~(i <= Len(q))
        BY <3>1, <3>3, <3>4, <4>2
      <4> QED BY <4>1, <4>2
    <3>7. ASSUME NEW i \in 1..Len(p), NEW j \in 1..Len(p), i < j, sent[p[i]].server = sent[p[j]].server
          PROVE  p[i] < p[j]
      <4>1. i \in 1..Len(q) /\ p[i] = q[i]
        BY <3>1, <3>7
      <4>2. CASE j <= Len(q)
        <5>1. j \in 1..Len(q) /\ p[j] = q[j]
          BY <3>1, <4>2
        <5> QED BY <1>0, <3>5, <3>7, <4>1, <5>1 DEF Read
      <4>3. CASE ~(j <= Len(q))
        <5>1. p[j] = a
          BY <3>1, <4>3
        <5>2. PICK w \in Servers : OfSocket(q[i], w, s) /\ (sent[a].server = w => q[i] < a)
          BY <3>5, <4>1
        <5> QED BY <3>7, <4>1, <5>1, <5>2 DEF OfSocket, Of
      <4> QED BY <4>2, <4>3
    <3>8. received'[s] = p /\ found'[s] = {} /\ sent' = sent
      BY <1>1, <2>2
    <3> HIDE DEF p
    <3> QED BY <1>2, <3>6, <3>7, <3>8 DEF Read
  <2> QED BY <2>1, <2>2
<1> QED BY <1>3, <1>4, <1>5, <1>6

(* The service takes the oldest request into its hands.                    *)
LEMMA PopKeeps ==
  ASSUME IInv, Shape', FramePops
  PROVE  IInv'
<1> USE DEF IInv
<1>0. PICK v, q, a : v = Order[serverAt] /\ q = inQueue[v] /\ a = Head(q)
  OBVIOUS
<1>1. /\ packet = 0 /\ v \in Servers /\ q \in Seq(Nat)
      /\ UNCHANGED <<sent, outQueue, recvAt, result, found, received>>
  BY <1>0, OrderOfServers DEF FramePops, reader, Shape
<1>2. CASE q = <<>>
  <2>1. UNCHANGED <<inQueue, packet>>
    BY <1>0, <1>2 DEF FramePops
  <2>2. \A t \in Sockets : recvAt[t] <= recvAt'[t]
    BY <1>1 DEF Shape
  <2> QED BY <1>1, <2>1, <2>2, QuietKeeps
<1>3. CASE q # <<>>
  <2>1. packet' = a /\ inQueue' = [inQueue EXCEPT ![v] = Tail(q)] /\ serverAt' = serverAt
    BY <1>0, <1>3 DEF FramePops
  <2>2. \A w \in Servers : inQueue'[w] = IF w = v THEN Tail(q) ELSE inQueue[w]
    BY <1>1, <2>1 DEF Shape
  <2>3. a = q[1] /\ 1 \in 1..Len(q) /\ a \in Nat
        /\ \A i \in 1..Len(Tail(q)) : Tail(q)[i] = q[i + 1] /\ i + 1 \in 1..Len(q)
    BY <1>0, <1>1, <1>3, TailElements
  <2>4. Requested(v) /\ Of(a, v)
    BY <1>0, <1>1, <2>3 DEF Requested
  <2>5. Increasing(Tail(q)) /\ Below(a, Tail(q)) /\ \A r \in Nat : Below(r, q) => Below(r, Tail(q)) /\ r < a
    BY <1>0, <1>1, <1>3, <2>4, TailIncreases DEF Requested
  <2>6. Order[serverAt'] = v
    BY <1>0, <2>1
  <2>7. \A i \in 1..Len(Tail(q)) : Of(Tail(q)[i], v)
    BY <1>0, <2>3, <2>4 DEF Requested
  <2>9. \A r, w, t : /\ Of(r, w)' <=> Of(r, w)
                     /\ OfSocket(r, w, t)' <=> OfSocket(r, w, t)
                     /\ OfSocket(r, w, t) => r \in Nat
    BY <1>1 DEF OfSocket, Of
  <2>10. \A r \in Nat, w \in Servers : BeforeRequests(r, w) => BeforeRequests(r, w)'
    <3> SUFFICES ASSUME NEW r \in Nat, NEW w \in Servers, BeforeRequests(r, w)
                 PROVE  BeforeRequests(r, w)'
      OBVIOUS
    <3>1. CASE w = v
      <4>1. Below(r, Tail(q)) /\ r < a
        BY <1>0, <2>5, <3>1 DEF BeforeRequests
      <4>2. inQueue'[w] = Tail(q)
        BY <2>2, <3>1
      <4> QED BY <2>1, <4>1, <4>2 DEF BeforeRequests, Below
    <3>2. CASE w # v
      BY <2>2, <2>6, <3>2 DEF BeforeRequests, Below
    <3> QED BY <3>1, <3>2
  <2>11. InHand'
    <3>1. Of(a, v)' /\ Below(a, inQueue[v])' /\ packet' = a
      BY <1>1, <2>1, <2>2, <2>4, <2>5, <2>9 DEF Below
    <3> QED BY <2>6, <3>1 DEF InHand, Of, Below
  <2>12. ASSUME NEW w \in Servers PROVE Requested(w)'
    <3>1. CASE w = v
      BY <2>2, <2>5, <2>7, <2>9, <3>1 DEF Requested, Increasing
    <3>2. CASE w # v
      BY <2>2, <2>9, <3>2 DEF Requested, Increasing
    <3> QED BY <3>1, <3>2
  <2>13. ASSUME NEW w \in Servers, NEW t \in Sockets PROVE Answered(w, t)'
    BY <1>1, <2>9, <2>10 DEF Answered, Increasing
  <2>14. \A r \in Nat, w \in Servers, t \in Sockets : BeforeAnswers(r, w, t) => BeforeAnswers(r, w, t)'
    BY <1>1, <2>10 DEF BeforeAnswers, Below
  <2>15. ASSUME NEW t \in Sockets PROVE Taken(t)'
    BY <1>1, <2>9, <2>14, OrderOfServers DEF Taken
  <2>16. ASSUME NEW t \in Sockets PROVE Read(t)'
    <3>1. received' = received /\ found' = found /\ sent' = sent /\ Read(t)
      BY <1>1
    <3>2. ASSUME NEW i \in 1..Len(received[t])
          PROVE  \E w \in Servers :
                   /\ OfSocket(received[t][i], w, t)' /\ BeforeAnswers(received[t][i], w, t)'
                   /\ \A r \in found[t] : sent[r].server = w => received[t][i] < r
      <4>1. PICK w \in Servers : /\ OfSocket(received[t][i], w, t) /\ BeforeAnswers(received[t][i], w, t)
                                 /\ \A r \in found[t] : sent[r].server = w => received[t][i] < r
        BY <3>1 DEF Read
      <4>2. OfSocket(received[t][i], w, t)' /\ BeforeAnswers(received[t][i], w, t)'
        BY <2>9, <2>14, <3>1, <4>1
      <4> QED BY ONLY <4>1, <4>2
    <3> QED BY ONLY <3>1, <3>2 DEF Read
  <2> QED BY <2>11, <2>12, <2>13, <2>15, <2>16
<1> QED BY <1>2, <1>3

(* The answer goes behind the answers to older requests.                   *)
LEMMA HandleKeeps ==
  ASSUME IInv, Shape', FrameHandles
  PROVE  IInv'
<1> USE DEF IInv
<1>0. PICK p, v, u, q : /\ p = packet /\ v = Order[serverAt]
                        /\ u = sent[p].socket /\ q = outQueue[v][u]
  OBVIOUS
<1>1. /\ p # 0 /\ packet = p /\ packet' = 0 /\ v \in Servers /\ p \in Nat
      /\ UNCHANGED <<sent, inQueue, serverAt, recvAt, result, found, received>>
      /\ Of(p, v) /\ Below(p, inQueue[v])
  BY <1>0, OrderOfServers DEF FrameHandles, reader, Shape, InHand
<1>2. u \in Sockets
  <2>1. sent[p] \in Datagrams
    BY <1>1 DEF Of, Shape
  <2> QED BY <1>0, <2>1 DEF Datagrams
<1>3. q \in Seq(Nat)
  BY <1>0, <1>1, <1>2 DEF Shape
<1>4. OfSocket(p, v, u)
  BY <1>0, <1>1 DEF OfSocket
<1>5. \/ \A w \in Servers, t \in Sockets : outQueue'[w][t] = outQueue[w][t]
      \/ \A w \in Servers, t \in Sockets :
           outQueue'[w][t] = IF w = v /\ t = u THEN Append(q, p) ELSE outQueue[w][t]
  BY <1>0, <1>1, <1>2 DEF FrameHandles, Shape
<1>6. \A r, w : BeforeRequests(r, w) => BeforeRequests(r, w)' /\ (w = v => r < p)
  BY <1>0, <1>1 DEF BeforeRequests, Below
<1>7. BeforeRequests(p, v)'
  BY <1>0, <1>1 DEF BeforeRequests, Below
<1>8. Answered(v, u)
  BY <1>1, <1>2
<1>9. \A i \in 1..Len(q) : q[i] < p
  BY <1>0, <1>6, <1>8 DEF Answered
<1>10. Increasing(Append(q, p)) /\ \A r \in Nat : Below(r, q) /\ r < p => Below(r, Append(q, p))
  BY <1>1, <1>3, <1>0, <1>8, <1>9, AppendIncreases DEF Answered
<1>11. Len(Append(q, p)) = Len(q) + 1 /\ Len(q) \in Nat
       /\ \A i \in 1..Len(q) + 1 : Append(q, p)[i] = IF i <= Len(q) THEN q[i] ELSE p
  BY <1>1, <1>3, AppendElements
<1>12. \A i \in 1..Len(Append(q, p)) :
         OfSocket(Append(q, p)[i], v, u) /\ BeforeRequests(Append(q, p)[i], v)'
  <2> SUFFICES ASSUME NEW i \in 1..Len(Append(q, p))
               PROVE  OfSocket(Append(q, p)[i], v, u) /\ BeforeRequests(Append(q, p)[i], v)'
    OBVIOUS
  <2>1. CASE i <= Len(q)
    <3>1. i \in 1..Len(q) /\ Append(q, p)[i] = q[i]
      BY <1>11, <2>1
    <3>2. OfSocket(q[i], v, u) /\ BeforeRequests(q[i], v)
      BY <1>0, <1>8, <3>1 DEF Answered
    <3> QED BY <1>6, <3>1, <3>2
  <2>2. CASE ~(i <= Len(q))
    BY <1>4, <1>7, <1>11, <2>2
  <2> QED BY <2>1, <2>2
<1>13. \A r, w, t : /\ Of(r, w)' <=> Of(r, w)
                    /\ OfSocket(r, w, t)' <=> OfSocket(r, w, t)
                    /\ OfSocket(r, w, t) => r \in Nat
  BY <1>1 DEF OfSocket, Of
<1>14. InHand' /\ \A w \in Servers : Requested(w)'
  BY <1>1, <1>13 DEF InHand, Requested, Increasing
<1>15. ASSUME NEW w \in Servers, NEW t \in Sockets PROVE Answered(w, t)'
  <2>1. CASE outQueue'[w][t] = outQueue[w][t]
    BY <1>6, <1>13, <2>1 DEF Answered, Increasing
  <2>2. CASE w = v /\ t = u /\ outQueue'[w][t] = Append(q, p)
    BY <1>10, <1>12, <1>13, <2>2 DEF Answered, Increasing
  <2> QED BY <1>5, <2>1, <2>2
<1>16. \A r \in Nat, w \in Servers, t \in Sockets : BeforeAnswers(r, w, t) => BeforeAnswers(r, w, t)'
  <2> SUFFICES ASSUME NEW r \in Nat, NEW w \in Servers, NEW t \in Sockets, BeforeAnswers(r, w, t)
               PROVE  BeforeAnswers(r, w, t)'
    OBVIOUS
  <2>1. BeforeRequests(r, w)' /\ (w = v => r < p) /\ Below(r, outQueue[w][t])
    BY <1>6 DEF BeforeAnswers
  <2>2. CASE outQueue'[w][t] = outQueue[w][t]
    BY <2>1, <2>2 DEF BeforeAnswers, Below
  <2>3. CASE w = v /\ t = u /\ outQueue'[w][t] = Append(q, p)
    <3>1. Below(r, Append(q, p))
      BY <1>0, <1>10, <2>1, <2>3
    <3> QED BY <2>1, <2>3, <3>1 DEF BeforeAnswers, Below
  <2> QED BY <1>5, <2>2, <2>3
<1>17. ASSUME NEW t \in Sockets PROVE Taken(t)'
  <2>1. ASSUME NEW r \in found[t]
        PROVE  \E k \in 1..Len(Order) :
                 k < recvAt[t] /\ OfSocket(r, Order[k], t)' /\ BeforeAnswers(r, Order[k], t)'
    <3>1. PICK k \in 1..Len(Order) : k < recvAt[t] /\ OfSocket(r, Order[k], t) /\ BeforeAnswers(r, Order[k], t)
      BY <2>1 DEF Taken
    <3>2. OfSocket(r, Order[k], t)' /\ BeforeAnswers(r, Order[k], t)'
      BY <1>13, <1>16, <3>1, OrderOfServers
    <3> QED BY <3>1, <3>2
  <2> QED BY <1>1, <2>1 DEF Taken
<1>18. ASSUME NEW t \in Sockets PROVE Read(t)'
  <2>1. received' = received /\ found' = found /\ sent' = sent /\ Read(t)
    BY <1>1
  <2>2. ASSUME NEW i \in 1..Len(received[t])
        PROVE  \E w \in Servers :
                 /\ OfSocket(received[t][i], w, t)' /\ BeforeAnswers(received[t][i], w, t)'
                 /\ \A r \in found[t] : sent[r].server = w => received[t][i] < r
    <3>1. PICK w \in Servers : /\ OfSocket(received[t][i], w, t) /\ BeforeAnswers(received[t][i], w, t)
                               /\ \A r \in found[t] : sent[r].server = w => received[t][i] < r
      BY <2>1 DEF Read
    <3>2. OfSocket(received[t][i], w, t)' /\ BeforeAnswers(received[t][i], w, t)'
      BY <1>13, <1>16, <2>1, <3>1
    <3> QED BY ONLY <3>1, <3>2
  <2> QED BY ONLY <2>1, <2>2 DEF Read
<1> QED BY <1>14, <1>15, <1>17, <1>18

------------------------------------------------------------------------------
LEMMA InitHolds == Init => IInv
<1> SUFFICES ASSUME Init PROVE IInv
  OBVIOUS
<1>1. Shape
  BY OrderOfServers DEF Init, Shape
<1>2. InHand /\ (\A v \in Servers : Requested(v)) /\ \A v \in Servers, s \in Sockets : Answered(v, s)
  BY DEF Init, InHand, Requested, Answered, Increasing
<1>3. \A s \in Sockets : Taken(s) /\ Read(s)
  BY DEF Init, Taken, Read
<1> QED BY <1>1, <1>2, <1>3 DEF IInv

LEMMA NextKeeps == IInv /\ [Next]_vars => IInv'
<1> SUFFICES ASSUME IInv, [Next]_vars PROVE IInv'
  OBVIOUS
<1>1. ASSUME NEW s \in Sockets, Game(s) PROVE IInv'
  <2>1. Shape'
    BY <1>1, SocketShape DEF IInv
  <2>2. ASSUME NEW v \in Servers, NEW stun \in BOOLEAN, Send(s, v, stun) PROVE IInv'
    BY <2>1, <2>2, SendKeeps
  <2>3. CASE Ioctl(s) \/ Close(s)
    <3>1. UNCHANGED <<sent, inQueue, outQueue, packet, result, found, received, serverAt, recvAt>>
      BY <2>3 DEF Ioctl, Close, queues, thread
    <3>2. \A t \in Sockets : recvAt[t] <= recvAt'[t]
      BY <3>1 DEF IInv, Shape
    <3> QED BY <2>1, <3>1, <3>2, QuietKeeps
  <2>4. CASE RecvFrom(s)
    <3>1. UNCHANGED <<sent, inQueue, outQueue, packet, result, found, received, serverAt>>
      BY <2>4 DEF RecvFrom, queues, thread
    <3>2. \A t \in Sockets : recvAt[t] <= recvAt'[t]
      BY <2>4 DEF RecvFrom, IInv, Shape
    <3> QED BY <2>1, <3>1, <3>2, QuietKeeps
  <2> QED BY <1>1, <2>1, <2>2, <2>3, <2>4, VisitKeeps, ReturnKeeps DEF Game
<1>2. CASE ServerMain
  <2>1. Shape'
    BY <1>2, ServerShape
  <2>2. CASE ServerStarts \/ ServerWakes \/ FrameVisits
    <3>1. UNCHANGED <<sent, inQueue, outQueue, packet, result, found, received, recvAt>> /\ packet = 0
      BY <2>2 DEF ServerStarts, ServerWakes, FrameVisits, queues, reader, IInv, Shape
    <3>2. \A t \in Sockets : recvAt[t] <= recvAt'[t]
      BY <3>1 DEF IInv, Shape
    <3> QED BY <2>1, <3>1, <3>2, QuietKeeps
  <2> QED BY <1>2, <2>1, <2>2, PopKeeps, HandleKeeps DEF ServerMain
<1>3. CASE PreDestroy \/ Unhook \/ UNCHANGED vars
  <2>1. UNCHANGED <<queues, thread, reader>>
    BY <1>3 DEF PreDestroy, Unhook, vars
  <2>2. Shape' /\ \A t \in Sockets : recvAt[t] <= recvAt'[t]
    BY <2>1 DEF IInv, Shape, queues, thread, reader
  <2> QED BY <2>1, <2>2, QuietKeeps DEF queues, thread, reader
<1> QED BY <1>1, <1>2, <1>3 DEF Next

LEMMA ReadIsInOrder == IInv => AnswersInOrder
<1> SUFFICES ASSUME IInv, NEW s \in Sockets, NEW i \in DOMAIN received[s], NEW j \in DOMAIN received[s]
             PROVE  /\ sent[received[s][i]].socket = s
                    /\ (i < j /\ sent[received[s][i]].server = sent[received[s][j]].server)
                         => received[s][i] < received[s][j]
  BY DEF AnswersInOrder
<1>1. received[s] \in Seq(Nat) /\ Read(s)
  BY DEF IInv, Shape
<1>2. DOMAIN received[s] = 1..Len(received[s])
  BY <1>1
<1> QED BY <1>1, <1>2 DEF Read, OfSocket

(* Whatever the services, sockets and readers do at the same time, a socket *)
(* reads only answers to its own requests, and those of one service in the *)
(* order in which it asked: stun_server::handle pops and pushes in order,  *)
(* and recvfrom empties its buffer before it visits the services again.    *)
THEOREM AnswersAreInOrder == Spec => []AnswersInOrder
<1> QED BY InitHolds, NextKeeps, ReadIsInOrder, PTL DEF Spec

------------------------------------------------------------------------------
(* What recvfrom loses.  It takes one answer from each service, and what it *)
(* took stays somewhere.                                                    *)

Kept == Received \cup InCall \cup Lost

OneOfEach(s) ==
  /\ \A a, b \in found[s] : sent[a].server = sent[b].server => a = b
  /\ found[s] # {} /\ s \notin noRoom => result[s] # 0

LEMMA KeptStays ==
  ASSUME IInv, [Next]_vars, NEW q \in Kept
  PROVE  q \in Kept'
<1> USE DEF IInv, Kept
<1>1. \A s \in Sockets : result[s] \in Nat /\ received[s] \in Seq(Nat) /\ Len(received[s]) \in Nat
  BY DEF Shape
<1>2. ASSUME NEW s \in Sockets, RecvVisit(s) PROVE q \in Kept'
  <2>1. lost' = lost /\ received' = received
    BY <1>2 DEF RecvVisit
  <2>2. \A t \in Sockets : found[t] \subseteq found'[t]
    <3>1. found' = found \/ \E a : found' = [found EXCEPT ![s] = found[s] \cup {a}]
      BY <1>2 DEF RecvVisit
    <3>2. found \in [Sockets -> SUBSET Nat]
      BY DEF Shape
    <3> QED BY ONLY <3>1, <3>2
  <2> QED BY <2>1, <2>2 DEF InCall, Received, Lost
<1>3. ASSUME NEW s \in Sockets, RecvReturns(s) PROVE q \in Kept'
  <2> DEFINE p == Append(received[s], result[s])
             Loss(r) == [answer |-> r, returned |-> result[s], room |-> s \notin noRoom]
  <2>1. /\ \A t \in Sockets \ {s} : received'[t] = received[t] /\ found'[t] = found[t]
        /\ received'[s] = IF result[s] = 0 THEN received[s] ELSE p
    BY <1>3 DEF RecvReturns, Shape
  <2>2. ToSet(p) = ToSet(received[s]) \cup {result[s]}
    BY <1>1, SetOfAppend
  <2> HIDE DEF p
  <2>3. \A t \in Sockets : ToSet(received[t]) \subseteq ToSet(received'[t])
    BY <2>1, <2>2
  <2>4. lost' = lost \cup { Loss(r) : r \in found[s] \ {result[s]} }
    BY <1>3 DEF RecvReturns
  <2>5. ASSUME NEW r \in found[s], r # result[s] PROVE r \in Lost'
    <3>1. Loss(r) \in lost' /\ Loss(r).answer = r
      BY <2>4, <2>5
    <3> QED BY <3>1 DEF Lost
  <2>6. ASSUME NEW r \in found[s], r = result[s] PROVE r \in Received'
    <3>1. r # 0
      <4>1. PICK k \in 1..Len(Order) : OfSocket(r, Order[k], s)
        BY <2>6 DEF Taken
      <4> QED BY <4>1 DEF OfSocket, Of
    <3>2. r \in ToSet(received'[s])
      BY <2>1, <2>2, <2>6, <3>1
    <3> QED BY <3>2 DEF Received
  <2>7. CASE q \in Received
    BY <2>3, <2>7 DEF Received
  <2>8. CASE q \in Lost
    BY <2>4, <2>8 DEF Lost
  <2>9. ASSUME NEW t \in Sockets, q \in found[t] PROVE q \in Kept'
    <3>1. CASE t = s
      BY <2>5, <2>6, <2>9, <3>1
    <3>2. CASE t # s
      BY <2>1, <2>9, <3>2 DEF InCall
    <3> QED BY <3>1, <3>2
  <2>10. q \in InCall => \E t \in Sockets : q \in found[t]
    BY DEF InCall
  <2> QED BY <2>7, <2>8, <2>9, <2>10
<1>4. CASE UNCHANGED <<found, received, lost>>
  BY <1>4 DEF Received, InCall, Lost
<1>5. ASSUME NEW s \in Sockets, Game(s) PROVE q \in Kept'
  BY <1>2, <1>3, <1>4, <1>5 DEF Game, Send, Ioctl, Close, RecvFrom, reader
<1>6. CASE ServerMain \/ PreDestroy \/ Unhook \/ UNCHANGED vars
  BY <1>4, <1>6 DEF ServerMain, ServerStarts, ServerWakes, FrameVisits, FramePops, FrameHandles,
                    PreDestroy, Unhook, vars, reader
<1> QED BY <1>5, <1>6 DEF Next

LEMMA SentStays ==
  ASSUME IInv, [Next]_vars
  PROVE  \A r \in Sent : r \in Sent' /\ sent'[r] = sent[r]
<1> USE DEF IInv, Sent
<1>1. ASSUME NEW s \in Sockets, NEW v \in Servers, NEW stun \in BOOLEAN, Send(s, v, stun)
      PROVE  \A r \in Sent : r \in Sent' /\ sent'[r] = sent[r]
  <2>1. sent' = Append(sent, [socket |-> s, server |-> v, stun |-> stun])
    BY <1>1 DEF Send
  <2> QED BY <2>1 DEF Shape
<1>2. ASSUME NEW s \in Sockets, Game(s) PROVE \A r \in Sent : r \in Sent' /\ sent'[r] = sent[r]
  BY <1>1, <1>2 DEF Game, Ioctl, Close, RecvFrom, RecvVisit, RecvReturns, queues
<1> QED BY <1>2 DEF Next, ServerMain, ServerStarts, ServerWakes, FrameVisits, FramePops, FrameHandles,
                    PreDestroy, Unhook, vars, queues

LEMMA TakenIsSent ==
  ASSUME IInv, NEW s \in Sockets, NEW r \in found[s]
  PROVE  /\ r \in Sent /\ r # 0 /\ sent[r].socket = s
         /\ BeforeAnswers(r, sent[r].server, s)
         /\ \E k \in 1..Len(Order) : k < recvAt[s] /\ sent[r].server = Order[k]
<1>1. PICK k \in 1..Len(Order) : k < recvAt[s] /\ OfSocket(r, Order[k], s) /\ BeforeAnswers(r, Order[k], s)
  BY DEF IInv, Taken
<1>2. sent \in Seq(Datagrams)
  BY DEF IInv, Shape
<1> QED BY <1>1, <1>2 DEF OfSocket, Of, Sent

(* recvfrom visits every service once.                                     *)
LEMMA OneOfEachKeeps ==
  ASSUME IInv, \A s \in Sockets : OneOfEach(s), [Next]_vars
  PROVE  \A s \in Sockets : OneOfEach(s)'
<1> USE DEF IInv
<1> SUFFICES ASSUME NEW s \in Sockets PROVE OneOfEach(s)'
  OBVIOUS
<1>1. \A r \in found[s] : sent'[r] = sent[r]
  BY SentStays, TakenIsSent
<1>2. CASE UNCHANGED <<found, result>> /\ (found[s] # {} => noRoom \subseteq noRoom')
  BY <1>1, <1>2 DEF OneOfEach
<1>3. ASSUME NEW t \in Sockets, RecvVisit(t) PROVE OneOfEach(s)'
  <2>1. PICK k, v, q, a : k = recvAt[t] /\ v = Order[k] /\ q = outQueue[v][t] /\ a = Head(q)
    OBVIOUS
  <2>2. k \in 1..Len(Order) /\ v \in Servers /\ sent' = sent /\ noRoom' = noRoom
    BY <1>3, <2>1, OrderOfServers DEF RecvVisit
  <2>3. CASE q = <<>> \/ t # s
    <3>1. found'[s] = found[s] /\ result'[s] = result[s]
      BY <1>3, <2>1, <2>3 DEF RecvVisit, Shape
    <3> QED BY <2>2, <3>1 DEF OneOfEach
  <2>4. CASE q # <<>> /\ t = s
    <3>1. found'[s] = found[s] \cup {a} /\ result'[s] = IF s \in noRoom THEN 0 ELSE a
      BY <1>3, <2>1, <2>4 DEF RecvVisit, Shape
    <3>2. q \in Seq(Nat) /\ Answered(v, s)
      BY <2>1, <2>2, <2>4 DEF Shape
    <3>3. OfSocket(a, v, s)
      BY <2>1, <2>4, <3>2, TailElements DEF Answered
    <3>4. sent[a].server = v /\ a # 0
      BY <3>3 DEF OfSocket, Of
    <3>5. \A r \in found[s] : sent[r].server # v
      BY <2>1, <2>2, <2>4, TakenIsSent, OrderOfServers
    <3> QED BY <2>2, <3>1, <3>4, <3>5 DEF OneOfEach
  <2> QED BY <2>3, <2>4
<1>4. ASSUME NEW t \in Sockets, RecvReturns(t) PROVE OneOfEach(s)'
  <2>1. CASE t = s
    <3>1. found'[s] = {}
      BY <1>4, <2>1 DEF RecvReturns, Shape
    <3> QED BY <3>1 DEF OneOfEach
  <2>2. CASE t # s
    <3>1. found'[s] = found[s] /\ result'[s] = result[s] /\ (s \in noRoom' <=> s \in noRoom)
      BY <1>4, <2>2 DEF RecvReturns, Shape
    <3> QED BY <1>1, <3>1 DEF OneOfEach
  <2> QED BY <2>1, <2>2
<1>5. ASSUME NEW t \in Sockets, RecvFrom(t) PROVE OneOfEach(s)'
  BY <1>2, <1>5 DEF RecvFrom
<1>6. ASSUME NEW t \in Sockets, Game(t) PROVE OneOfEach(s)'
  BY <1>2, <1>3, <1>4, <1>5, <1>6 DEF Game, Send, Ioctl, Close, reader
<1>7. CASE ServerMain \/ PreDestroy \/ Unhook \/ UNCHANGED vars
  BY <1>2, <1>7 DEF ServerMain, ServerStarts, ServerWakes, FrameVisits, FramePops, FrameHandles,
                    PreDestroy, Unhook, vars, reader
<1> QED BY <1>6, <1>7 DEF Next

(* What a call loses it has taken from another service than what it returns. *)
LEMMA LossKeeps ==
  ASSUME IInv, \A s \in Sockets : OneOfEach(s),
         \A l \in lost : l.answer \in Sent, LossOnlyByOverlap, [Next]_vars
  PROVE  (\A l \in lost : l.answer \in Sent)' /\ LossOnlyByOverlap'
<1> USE DEF IInv
<1> DEFINE Excused(l) == l.room => /\ l.returned \in Sent'
                                   /\ sent'[l.returned].socket = sent'[l.answer].socket
                                   /\ sent'[l.returned].server # sent'[l.answer].server
<1>1. ASSUME NEW l \in lost PROVE l.answer \in Sent' /\ Excused(l)
  BY SentStays DEF LossOnlyByOverlap
<1>2. ASSUME NEW s \in Sockets, RecvReturns(s), NEW l \in lost', l \notin lost
      PROVE  l.answer \in Sent' /\ Excused(l)
  <2>1. PICK r \in found[s] \ {result[s]} :
          l = [answer |-> r, returned |-> result[s], room |-> s \notin noRoom]
    BY <1>2 DEF RecvReturns
  <2>2. l.answer = r /\ l.returned = result[s] /\ (l.room <=> s \notin noRoom)
    BY <2>1
  <2>3. r \in Sent' /\ sent'[r] = sent[r]
    BY TakenIsSent, SentStays
  <2>4. ASSUME s \notin noRoom PROVE Excused(l)
    <3>1. result[s] \in found[s]
      BY <2>4 DEF OneOfEach, Taken
    <3>2. /\ result[s] \in Sent' /\ sent'[result[s]] = sent[result[s]]
          /\ sent[result[s]].socket = s /\ sent[r].socket = s
      BY <3>1, TakenIsSent, SentStays
    <3>3. sent[result[s]].server # sent[r].server
      BY <3>1 DEF OneOfEach
    <3> QED BY <2>2, <2>3, <3>2, <3>3
  <2> QED BY <2>2, <2>3, <2>4
<1>3. CASE lost' = lost
  BY <1>1, <1>3 DEF LossOnlyByOverlap
<1>4. CASE lost' # lost
  <2>1. PICK s \in Sockets : RecvReturns(s)
    BY <1>4 DEF Next, Game, Send, Ioctl, Close, RecvFrom, RecvVisit, ServerMain, ServerStarts,
                ServerWakes, FrameVisits, FramePops, FrameHandles, PreDestroy, Unhook, vars, reader
  <2>2. \A l \in lost' : l.answer \in Sent' /\ Excused(l)
    BY <1>1, <1>2, <2>1
  <2> QED BY <2>2 DEF LossOnlyByOverlap
<1> QED BY <1>3, <1>4

(* A recvfrom with room for an answer that loses one has itself returned    *)
(* the answer of another service to the same socket: it visits each once,  *)
(* its buffer is empty when it starts, and all that it finds goes through  *)
(* that buffer (component/demonware.cpp:261-279).                          *)
THEOREM LossIsByOverlap == Spec => []LossOnlyByOverlap
<1> DEFINE All == /\ IInv /\ (\A s \in Sockets : OneOfEach(s))
                  /\ (\A l \in lost : l.answer \in Sent) /\ LossOnlyByOverlap
<1>1. Init => All
  <2> SUFFICES ASSUME Init PROVE All
    OBVIOUS
  <2>1. lost = {} /\ \A s \in Sockets : found[s] = {}
    BY DEF Init
  <2> QED BY <2>1, InitHolds DEF OneOfEach, LossOnlyByOverlap
<1>2. All /\ [Next]_vars => All'
  BY NextKeeps, OneOfEachKeeps, LossKeeps
<1>3. All => LossOnlyByOverlap
  OBVIOUS
<1> HIDE DEF All
<1> QED BY <1>1, <1>2, <1>3, PTL DEF Spec

------------------------------------------------------------------------------
(* Where a request is.  By the order, the places of the way exclude each    *)
(* other: what is behind a request tells where it stands.                   *)

LEMMA QueuedIsBehind ==
  ASSUME IInv, NEW r \in Queued
  PROVE  r \in Sent /\ ~BeforeRequests(r, sent[r].server)
<1> USE DEF IInv
<1>1. CASE r \in {packet} \ {0}
  <2>1. r = packet /\ packet # 0 /\ sent \in Seq(Datagrams) /\ packet \in Nat
    BY <1>1 DEF Shape
  <2>2. Of(packet, Order[serverAt])
    BY <2>1 DEF InHand
  <2> QED BY <2>1, <2>2 DEF Of, Sent, BeforeRequests
<1>2. ASSUME NEW v \in Servers, r \in ToSet(inQueue[v])
      PROVE  r \in Sent /\ ~BeforeRequests(r, sent[r].server)
  <2>1. inQueue[v] \in Seq(Nat) /\ sent \in Seq(Datagrams) /\ Requested(v)
    BY DEF Shape
  <2>2. PICK i \in 1..Len(inQueue[v]) : r = inQueue[v][i]
    BY <1>2, <2>1 DEF ToSet
  <2>3. Of(r, v) /\ r \in Nat
    BY <2>1, <2>2 DEF Requested
  <2>4. ~Below(r, inQueue[v])
    BY <2>2, <2>3 DEF Below
  <2> QED BY <2>1, <2>3, <2>4 DEF Of, Sent, BeforeRequests
<1> QED BY <1>1, <1>2 DEF Queued

LEMMA WaitingIsBehind ==
  ASSUME IInv, NEW r \in Waiting
  PROVE  /\ r \in Sent /\ BeforeRequests(r, sent[r].server)
         /\ ~BeforeAnswers(r, sent[r].server, sent[r].socket)
<1> USE DEF IInv
<1>1. PICK v \in Servers, s \in Sockets : r \in ToSet(outQueue[v][s])
  BY DEF Waiting
<1>2. outQueue[v][s] \in Seq(Nat) /\ sent \in Seq(Datagrams) /\ Answered(v, s)
  BY DEF Shape
<1>3. PICK i \in 1..Len(outQueue[v][s]) : r = outQueue[v][s][i]
  BY <1>1, <1>2 DEF ToSet
<1>4. OfSocket(r, v, s) /\ BeforeRequests(r, v) /\ r \in Nat
  BY <1>2, <1>3 DEF Answered
<1>5. ~Below(r, outQueue[v][s])
  BY <1>3, <1>4 DEF Below
<1> QED BY <1>2, <1>4, <1>5 DEF OfSocket, Of, Sent, BeforeAnswers

LEMMA ReceivedIsBefore ==
  ASSUME IInv, NEW r \in Received
  PROVE  /\ r \in Sent /\ BeforeAnswers(r, sent[r].server, sent[r].socket)
         /\ r \notin found[sent[r].socket]
<1> USE DEF IInv
<1>1. PICK s \in Sockets : r \in ToSet(received[s])
  BY DEF Received
<1>2. received[s] \in Seq(Nat) /\ sent \in Seq(Datagrams) /\ Read(s)
  BY DEF Shape
<1>3. PICK i \in 1..Len(received[s]) : r = received[s][i]
  BY <1>1, <1>2 DEF ToSet
<1>4. PICK v \in Servers : /\ OfSocket(r, v, s) /\ BeforeAnswers(r, v, s)
                           /\ \A b \in found[s] : sent[b].server = v => r < b
  BY <1>2, <1>3 DEF Read
<1>5. r \in Nat \ {0} /\ r \in Sent /\ sent[r].server = v /\ sent[r].socket = s
  BY <1>2, <1>4 DEF OfSocket, Of, Sent
<1>6. r \notin found[s]
  BY <1>4, <1>5
<1> QED BY <1>4, <1>5, <1>6

LEMMA PlacesExclude ==
  ASSUME IInv
  PROVE  /\ Queued \cap (Waiting \cup InCall \cup Received) = {}
         /\ Waiting \cap (InCall \cup Received) = {}
         /\ InCall \cap Received = {}
<1>1. \A r \in InCall : /\ r \in Sent /\ BeforeAnswers(r, sent[r].server, sent[r].socket)
                          /\ r \in found[sent[r].socket]
  BY TakenIsSent DEF InCall
<1>2. \A r, v, s : BeforeAnswers(r, v, s) => BeforeRequests(r, v)
  BY DEF BeforeAnswers
<1> QED BY <1>1, <1>2, QueuedIsBehind, WaitingIsBehind, ReceivedIsBefore
------------------------------------------------------------------------------
(* How a request gets from one place to the next.                           *)

LEMMA SetOfTail ==
  ASSUME NEW q \in Seq(Nat), q # <<>>
  PROVE  ToSet(q) = {Head(q)} \cup ToSet(Tail(q))
<1>1. /\ DOMAIN q = 1..Len(q) /\ DOMAIN Tail(q) = 1..Len(q) - 1 /\ Len(q) \in Nat
      /\ Head(q) = q[1] /\ 1 \in 1..Len(q)
      /\ \A i \in 1..Len(q) - 1 : Tail(q)[i] = q[i + 1] /\ i + 1 \in 1..Len(q)
  BY TailElements
<1>2. {Head(q)} \cup ToSet(Tail(q)) \subseteq ToSet(q)
  BY <1>1 DEF ToSet
<1>3. ASSUME NEW k \in 1..Len(q) PROVE q[k] \in {Head(q)} \cup ToSet(Tail(q))
  <2>1. CASE k = 1
    BY <1>1, <2>1
  <2>2. CASE k # 1
    <3>1. k - 1 \in 1..Len(q) - 1 /\ (k - 1) + 1 = k
      BY <1>1, <2>2
    <3>2. q[k] = Tail(q)[k - 1]
      BY <1>1, <3>1
    <3> QED BY <1>1, <3>1, <3>2 DEF ToSet
  <2> QED BY <2>1, <2>2
<1> QED BY <1>1, <1>2, <1>3 DEF ToSet

(* Each place takes only from the one before, and loses only to the next.   *)
Moves ==
  /\ Queued' \subseteq Queued \cup (Sent' \ Sent)
  /\ Waiting' \subseteq Waiting \cup Queued
  /\ InCall' \subseteq InCall \cup Waiting
  /\ Received' \subseteq Received \cup InCall
  /\ Sent' \subseteq Sent \cup Queued'
  /\ \A r \in Queued : r \in Queued' \cup Waiting' \/ ~sent[r].stun
  /\ Waiting \subseteq Waiting' \cup InCall'

LEMMA SendMoves ==
  ASSUME IInv, NEW s \in Sockets, NEW v \in Servers, NEW stun \in BOOLEAN, Send(s, v, stun)
  PROVE  Moves
<1> DEFINE n == Len(sent) + 1
<1>1. /\ UNCHANGED <<outQueue, packet, result, found, received>>
      /\ sent' = Append(sent, [socket |-> s, server |-> v, stun |-> stun])
      /\ inQueue' = [inQueue EXCEPT ![v] = Append(inQueue[v], n)]
  BY DEF Send, thread, reader
<1>2. sent \in Seq(Datagrams) /\ inQueue \in [Servers -> Seq(Nat)] /\ Len(sent) \in Nat
  BY DEF IInv, Shape
<1>3. Sent' = Sent \cup {n} /\ n \notin Sent /\ n \in Nat
  <2>1. [socket |-> s, server |-> v, stun |-> stun] \in Datagrams
    BY DEF Datagrams
  <2>2. Sent = 1..Len(sent) /\ Sent' = 1..Len(sent) + 1
    BY <1>1, <1>2, <2>1, AppendElements DEF Sent
  <2> QED BY <1>2, <2>2
<1> HIDE DEF n
<1>4. /\ ToSet(inQueue'[v]) = ToSet(inQueue[v]) \cup {n}
      /\ \A w \in Servers \ {v} : inQueue'[w] = inQueue[w]
  BY <1>1, <1>2, <1>3, SetOfAppend
<1>5. Queued' = Queued \cup {n}
  BY <1>1, <1>4 DEF Queued
<1>6. Waiting' = Waiting /\ InCall' = InCall /\ Received' = Received
  BY <1>1 DEF Waiting, InCall, Received
<1> QED BY <1>3, <1>5, <1>6 DEF Moves

LEMMA VisitMoves ==
  ASSUME IInv, NEW s \in Sockets, RecvVisit(s)
  PROVE  Moves
<1>0. PICK v, q, a : v = Order[recvAt[s]] /\ q = outQueue[v][s] /\ a = Head(q)
  OBVIOUS
<1>1. UNCHANGED <<sent, inQueue, packet, received>> /\ v \in Servers
  BY <1>0, OrderOfServers DEF RecvVisit, thread
<1>2. Queued' = Queued /\ Received' = Received /\ Sent' = Sent
  BY <1>1 DEF Queued, Received, Sent
<1>3. CASE q = <<>>
  <2>1. UNCHANGED <<outQueue, result, found>>
    BY <1>0, <1>3 DEF RecvVisit
  <2>2. Waiting' = Waiting /\ InCall' = InCall
    BY <2>1 DEF Waiting, InCall
  <2> QED BY <1>2, <2>2 DEF Moves
<1>4. CASE q # <<>>
  <2>1. /\ outQueue' = [outQueue EXCEPT ![v][s] = Tail(q)]
        /\ found' = [found EXCEPT ![s] = found[s] \cup {a}]
    BY <1>0, <1>4 DEF RecvVisit
  <2>2. outQueue \in [Servers -> [Sockets -> Seq(Nat)]] /\ found \in [Sockets -> SUBSET Nat]
    BY DEF IInv, Shape
  <2>3. ToSet(q) = {a} \cup ToSet(Tail(q)) /\ a \in ToSet(q)
    BY <1>0, <1>1, <1>4, <2>2, SetOfTail
  <2>4. \A w \in Servers, t \in Sockets :
          outQueue'[w][t] = IF w = v /\ t = s THEN Tail(q) ELSE outQueue[w][t]
    BY <1>1, <2>1, <2>2
  <2>5. a \in Waiting
    <3>1. v \in Servers /\ s \in Sockets /\ a \in ToSet(outQueue[v][s])
      BY <1>0, <1>1, <2>3
    <3> QED BY ONLY <3>1 DEF Waiting
  <2>7. Waiting = Waiting' \cup {a}
    <3>1. ASSUME NEW w \in Servers, NEW t \in Sockets
          PROVE  /\ ToSet(outQueue'[w][t]) \subseteq ToSet(outQueue[w][t])
                 /\ ToSet(outQueue[w][t]) \subseteq ToSet(outQueue'[w][t]) \cup {a}
      <4>1. CASE w = v /\ t = s
        BY <1>0, <2>3, <2>4, <4>1
      <4>2. CASE ~(w = v /\ t = s)
        BY <2>4, <4>2
      <4> QED BY <4>1, <4>2
    <3>2. Waiting' \subseteq Waiting
      BY <3>1 DEF Waiting
    <3>3. Waiting \subseteq Waiting' \cup {a}
      BY <3>1 DEF Waiting
    <3> QED BY <2>5, <3>2, <3>3
  <2>8. a \in InCall' /\ InCall' \subseteq InCall \cup {a}
    BY <2>1, <2>2 DEF InCall
  <2> QED BY <1>2, <2>5, <2>7, <2>8 DEF Moves
<1> QED BY <1>3, <1>4

LEMMA ReturnMoves ==
  ASSUME IInv, NEW s \in Sockets, RecvReturns(s)
  PROVE  Moves
<1>1. /\ UNCHANGED <<sent, inQueue, outQueue, packet>>
      /\ found' = [found EXCEPT ![s] = {}]
      /\ received' = IF result[s] = 0 THEN received
                     ELSE [received EXCEPT ![s] = Append(received[s], result[s])]
  BY DEF RecvReturns, queues, thread
<1>2. result \in [Sockets -> Nat] /\ found \in [Sockets -> SUBSET Nat] /\ received \in [Sockets -> Seq(Nat)]
  BY DEF IInv, Shape
<1>3. Queued' = Queued /\ Waiting' = Waiting /\ Sent' = Sent
  BY <1>1 DEF Queued, Waiting, Sent
<1>4. InCall' \subseteq InCall
  BY <1>1, <1>2 DEF InCall
<1>5. Received' \subseteq Received \cup InCall
  <2>1. CASE result[s] = 0
    BY <1>1, <2>1 DEF Received
  <2>2. CASE result[s] # 0
    <3>1. /\ ToSet(received'[s]) = ToSet(received[s]) \cup {result[s]}
          /\ \A t \in Sockets \ {s} : received'[t] = received[t]
      BY <1>1, <1>2, <2>2, SetOfAppend
    <3>2. result[s] \in InCall
      BY <2>2 DEF InCall, IInv, Taken
    <3> QED BY <3>1, <3>2 DEF Received
  <2> QED BY <2>1, <2>2
<1> QED BY <1>3, <1>4, <1>5 DEF Moves

LEMMA PopMoves ==
  ASSUME IInv, FramePops
  PROVE  Moves
<1>0. PICK v, q, a : v = Order[serverAt] /\ q = inQueue[v] /\ a = Head(q)
  OBVIOUS
<1>1. /\ packet = 0 /\ v \in Servers /\ q \in Seq(Nat)
      /\ UNCHANGED <<sent, outQueue, result, found, received>>
  BY <1>0, OrderOfServers DEF FramePops, reader, IInv, Shape
<1>2. Waiting' = Waiting /\ Received' = Received /\ InCall' = InCall /\ Sent' = Sent
  BY <1>1 DEF Waiting, Received, InCall, Sent
<1>3. CASE q = <<>>
  <2>1. Queued' = Queued
    BY <1>0, <1>3 DEF FramePops, Queued
  <2> QED BY <1>2, <2>1 DEF Moves
<1>4. CASE q # <<>>
  <2>1. packet' = a /\ inQueue' = [inQueue EXCEPT ![v] = Tail(q)]
    BY <1>0, <1>4 DEF FramePops
  <2>2. inQueue \in [Servers -> Seq(Nat)]
    BY DEF IInv, Shape
  <2>3. ToSet(q) = {a} \cup ToSet(Tail(q))
    BY <1>0, <1>1, <1>4, SetOfTail
  <2>4. inQueue'[v] = Tail(q) /\ \A w \in Servers \ {v} : inQueue'[w] = inQueue[w]
    BY <1>1, <2>1, <2>2
  <2>5. a \in Queued
    BY <1>0, <1>1, <2>3 DEF Queued
  <2>6. a # 0
    <3>1. a \in Sent /\ sent \in Seq(Datagrams)
      BY <2>5, QueuedIsBehind DEF IInv, Shape
    <3> QED BY <3>1 DEF Sent
  <2>7. Queued' = Queued
    <3>1. a \in Queued'
      BY <2>1, <2>6 DEF Queued
    <3>2. \A w \in Servers : ToSet(inQueue'[w]) \subseteq ToSet(inQueue[w])
      BY <1>0, <2>3, <2>4
    <3>3. \A w \in Servers : ToSet(inQueue[w]) \subseteq ToSet(inQueue'[w]) \cup {a}
      BY <1>0, <2>3, <2>4
    <3>4. Queued' \subseteq Queued
      BY <2>1, <2>5, <3>2 DEF Queued
    <3>5. Queued \subseteq Queued'
      BY <1>1, <3>1, <3>3 DEF Queued
    <3> QED BY <3>4, <3>5
  <2> QED BY <1>2, <2>7 DEF Moves
<1> QED BY <1>3, <1>4

LEMMA HandleMoves ==
  ASSUME IInv, FrameHandles
  PROVE  Moves
<1>0. PICK p, v, u : p = packet /\ v = Order[serverAt] /\ u = sent[p].socket
  OBVIOUS
<1>1. /\ p # 0 /\ p \in Nat /\ packet' = 0 /\ v \in Servers /\ Of(p, v)
      /\ UNCHANGED <<sent, inQueue, result, found, received>>
  BY <1>0, OrderOfServers DEF FrameHandles, reader, IInv, Shape, InHand
<1>2. u \in Sockets
  <2>1. sent[p] \in Datagrams
    BY <1>1 DEF Of, IInv, Shape
  <2> QED BY <1>0, <2>1 DEF Datagrams
<1>3. Received' = Received /\ InCall' = InCall /\ Sent' = Sent
  BY <1>1 DEF Received, InCall, Sent
<1>4. Queued' \subseteq Queued /\ Queued \subseteq Queued' \cup {p} /\ p \in Queued
  BY <1>0, <1>1 DEF Queued
<1>5. CASE sent[p].stun
  <2>1. outQueue' = [outQueue EXCEPT ![v][u] = Append(outQueue[v][u], p)]
    BY <1>0, <1>5 DEF FrameHandles
  <2>2. outQueue \in [Servers -> [Sockets -> Seq(Nat)]]
    BY DEF IInv, Shape
  <2>3. \A w \in Servers, t \in Sockets :
          ToSet(outQueue'[w][t]) = ToSet(outQueue[w][t]) \cup (IF w = v /\ t = u THEN {p} ELSE {})
    <3>1. ToSet(Append(outQueue[v][u], p)) = ToSet(outQueue[v][u]) \cup {p}
      BY <1>1, <1>2, <2>2, SetOfAppend
    <3>2. \A w \in Servers, t \in Sockets :
            outQueue'[w][t] = IF w = v /\ t = u THEN Append(outQueue[v][u], p) ELSE outQueue[w][t]
      BY <1>1, <1>2, <2>1, <2>2
    <3> TAKE w \in Servers, t \in Sockets
    <3>3. CASE w = v /\ t = u
      BY <3>1, <3>2, <3>3
    <3>4. CASE ~(w = v /\ t = u)
      BY <3>2, <3>4
    <3> QED BY <3>3, <3>4
  <2>4. ASSUME NEW r \in Waiting' PROVE r \in Waiting \cup {p}
    <3>1. PICK w \in Servers, t \in Sockets : r \in ToSet(outQueue'[w][t])
      BY <2>4 DEF Waiting
    <3>2. r \in ToSet(outQueue[w][t]) \cup {p}
      BY <2>3, <3>1
    <3> QED BY <3>2 DEF Waiting
  <2>5. ASSUME NEW r \in Waiting PROVE r \in Waiting'
    <3>1. PICK w \in Servers, t \in Sockets : r \in ToSet(outQueue[w][t])
      BY <2>5 DEF Waiting
    <3>2. r \in ToSet(outQueue'[w][t])
      BY <2>3, <3>1
    <3> QED BY <3>2 DEF Waiting
  <2>6. p \in Waiting'
    <3>1. p \in ToSet(outQueue'[v][u])
      BY <1>1, <1>2, <2>3
    <3> QED BY <1>1, <1>2, <3>1 DEF Waiting
  <2>7. Waiting' = Waiting \cup {p}
    BY <2>4, <2>5, <2>6
  <2> QED BY <1>3, <1>4, <2>7 DEF Moves
<1>6. CASE ~sent[p].stun
  <2>1. Waiting' = Waiting
    BY <1>0, <1>6 DEF FrameHandles, Waiting
  <2> QED BY <1>3, <1>4, <1>6, <2>1 DEF Moves
<1> QED BY <1>5, <1>6

LEMMA StepMoves == IInv /\ [Next]_vars => Moves
<1> SUFFICES ASSUME IInv, [Next]_vars PROVE Moves
  OBVIOUS
<1>1. CASE UNCHANGED <<sent, inQueue, outQueue, packet, result, found, received>>
  BY <1>1 DEF Moves, Queued, Waiting, InCall, Received, Sent
<1>2. ASSUME NEW s \in Sockets, Game(s) PROVE Moves
  BY <1>1, <1>2, SendMoves, VisitMoves, ReturnMoves DEF Game, Ioctl, Close, RecvFrom, queues, thread
<1>3. CASE ServerMain
  <2>1. CASE ServerStarts \/ ServerWakes \/ FrameVisits
    BY <1>1, <2>1 DEF ServerStarts, ServerWakes, FrameVisits, queues, reader, IInv, Shape
  <2> QED BY <1>3, <2>1, PopMoves, HandleMoves DEF ServerMain
<1>4. CASE PreDestroy \/ Unhook \/ UNCHANGED vars
  BY <1>1, <1>4 DEF PreDestroy, Unhook, vars, queues, thread, reader
<1> QED BY <1>2, <1>3, <1>4 DEF Next

------------------------------------------------------------------------------
(* The fate of a discovery.                                                 *)

LostIsApart == Lost \subseteq Sent /\ Lost \cap (Queued \cup Waiting \cup InCall \cup Received) = {}
EachSomewhere == \A r \in Sent : sent[r].stun => r \in Queued \cup Waiting \cup Kept

(* What a call loses is nowhere else.                                       *)
LEMMA DroppedIsApart ==
  ASSUME IInv, [Next]_vars, NEW r \in Lost', r \notin Lost
  PROVE  r \in Sent /\ r \notin (Queued \cup Waiting \cup InCall \cup Received)'
<1> USE DEF IInv
<1>1. PICK s \in Sockets : RecvReturns(s)
  <2>1. lost' # lost
    BY DEF Lost
  <2> QED BY <2>1 DEF Next, Game, Send, Ioctl, Close, RecvFrom, RecvVisit, ServerMain, ServerStarts,
         ServerWakes, FrameVisits, FramePops, FrameHandles, PreDestroy, Unhook, vars, reader
<1>2. r \in found[s] /\ r # result[s]
  <2>1. PICK l \in lost' : r = l.answer /\ l \notin lost
    BY DEF Lost
  <2>2. PICK x \in found[s] \ {result[s]} :
          l = [answer |-> x, returned |-> result[s], room |-> s \notin noRoom]
    BY <1>1, <2>1 DEF RecvReturns
  <2> QED BY <2>1, <2>2
<1>3. r \in Sent /\ r # 0 /\ sent[r].socket = s /\ r \in InCall
  BY <1>2, TakenIsSent DEF InCall
<1>4. /\ UNCHANGED <<sent, inQueue, outQueue, packet>>
      /\ \A t \in Sockets : found'[t] = IF t = s THEN {} ELSE found[t]
      /\ \A t \in Sockets \ {s} : received'[t] = received[t]
      /\ received'[s] = IF result[s] = 0 THEN received[s] ELSE Append(received[s], result[s])
      /\ received[s] \in Seq(Nat) /\ result[s] \in Nat
  BY <1>1 DEF RecvReturns, queues, thread, Shape
<1>5. r \notin Queued' /\ r \notin Waiting'
  BY <1>3, <1>4, PlacesExclude DEF Queued, Waiting
<1>6. r \notin InCall'
  <2>1. ASSUME NEW t \in Sockets, r \in found'[t] PROVE FALSE
    BY <1>3, <1>4, <2>1, TakenIsSent
  <2> QED BY <2>1 DEF InCall
<1>7. r \notin Received'
  <2>1. \A t \in Sockets : r \notin ToSet(received[t])
    BY <1>3, PlacesExclude DEF Received
  <2>2. ToSet(received'[s]) \subseteq ToSet(received[s]) \cup {result[s]}
    BY <1>4, SetOfAppend
  <2>3. \A t \in Sockets : r \notin ToSet(received'[t])
    BY <1>2, <1>4, <2>1, <2>2
  <2> QED BY <2>3 DEF Received
<1> QED BY <1>3, <1>5, <1>6, <1>7

LEMMA FateKeeps ==
  ASSUME IInv, LostIsApart, EachSomewhere, [Next]_vars
  PROVE  LostIsApart' /\ EachSomewhere'
<1>1. Moves
  BY StepMoves
<1>2. \A r \in Sent : r \in Sent' /\ sent'[r] = sent[r]
  BY SentStays
<1>3. Queued \cup Waiting \cup InCall \cup Received \subseteq Sent
  BY QueuedIsBehind, WaitingIsBehind, TakenIsSent, ReceivedIsBefore DEF InCall
<1>4. (Queued \cup Waiting \cup InCall \cup Received)'
        \subseteq (Queued \cup Waiting \cup InCall \cup Received) \cup (Sent' \ Sent)
  BY <1>1 DEF Moves
<1>5. LostIsApart'
  <2>1. ASSUME NEW r \in Lost'
        PROVE  r \in Sent /\ r \notin (Queued \cup Waiting \cup InCall \cup Received)'
    <3>1. CASE r \in Lost
      BY <1>4, <3>1 DEF LostIsApart
    <3>2. CASE r \notin Lost
      BY <3>2, DroppedIsApart
    <3> QED BY <3>1, <3>2
  <2> QED BY <1>2, <2>1 DEF LostIsApart
<1>6. Kept \subseteq Kept'
  BY KeptStays
<1>7. InCall' \subseteq Kept'
  BY DEF Kept
<1>8. EachSomewhere'
  <2> SUFFICES ASSUME NEW r \in Sent', sent'[r].stun
               PROVE  r \in Queued' \cup Waiting' \cup Kept'
    BY DEF EachSomewhere
  <2>1. CASE r \in Sent
    <3>1. sent[r].stun
      BY <1>2, <2>1
    <3>2. r \in Queued \cup Waiting \cup Kept
      BY <2>1, <3>1 DEF EachSomewhere
    <3> QED BY <1>1, <1>6, <1>7, <3>1, <3>2 DEF Moves
  <2>2. CASE r \notin Sent
    BY <1>1, <2>2 DEF Moves
  <2> QED BY <2>1, <2>2
<1> QED BY <1>5, <1>8

LEMMA OnePlaceOnly ==
  ASSUME IInv, LostIsApart, EachSomewhere
  PROVE  EveryDiscoveryHasOneFate
<1> DEFINE Place(fate) == CASE fate = "queued"   -> Queued
                            [] fate = "waiting"  -> Waiting
                            [] fate = "call"     -> InCall
                            [] fate = "received" -> Received
                            [] OTHER             -> Lost
           Fates == {"queued", "waiting", "call", "received", "lost"}
<1> SUFFICES ASSUME NEW r \in Sent, sent[r].stun
             PROVE  Cardinality({fate \in Fates : r \in Place(fate)}) = 1
  BY Zenon DEF EveryDiscoveryHasOneFate
<1>1. /\ Place("queued") = Queued /\ Place("waiting") = Waiting /\ Place("call") = InCall
      /\ Place("received") = Received /\ Place("lost") = Lost
  OBVIOUS
<1> HIDE DEF Place
<1>2. r \in Queued \cup Waiting \cup InCall \cup Received \cup Lost
  BY DEF EachSomewhere, Kept
<1>3. PICK f \in Fates : \A fate \in Fates : r \in Place(fate) <=> fate = f
  <2>1. /\ Queued \cap (Waiting \cup InCall \cup Received) = {}
        /\ Waiting \cap (InCall \cup Received) = {}
        /\ InCall \cap Received = {}
        /\ Lost \cap (Queued \cup Waiting \cup InCall \cup Received) = {}
    BY PlacesExclude DEF LostIsApart
  <2>2. CASE r \in Queued
    BY <1>1, <2>1, <2>2
  <2>3. CASE r \in Waiting
    BY <1>1, <2>1, <2>3
  <2>4. CASE r \in InCall
    BY <1>1, <2>1, <2>4
  <2>5. CASE r \in Received
    BY <1>1, <2>1, <2>5
  <2>6. CASE r \in Lost
    BY <1>1, <2>1, <2>6
  <2> QED BY <1>2, <2>2, <2>3, <2>4, <2>5, <2>6
<1>4. {fate \in Fates : r \in Place(fate)} = {f}
  BY <1>3
<1> QED BY <1>4, FS_Singleton

(* A request for an address is at one place of its way and never dropped    *)
(* but by recvfrom itself, whatever services and readers do at the same     *)
(* time, for any number of them (udp_server.cpp, demonware.cpp:261-279).    *)
THEOREM DiscoveriesHaveOneFate == Spec => []EveryDiscoveryHasOneFate
<1>1. Init => IInv /\ LostIsApart /\ EachSomewhere
  BY InitHolds DEF Init, LostIsApart, EachSomewhere, Sent, Lost
<1>2. IInv /\ LostIsApart /\ EachSomewhere /\ [Next]_vars => (IInv /\ LostIsApart /\ EachSomewhere)'
  BY NextKeeps, FateKeeps
<1> QED BY <1>1, <1>2, OnePlaceOnly, PTL DEF Spec

==============================================================================
