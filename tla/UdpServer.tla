------------------------------ MODULE UdpServer ------------------------------
(***************************************************************************)
(* The emulated UDP services (demonware/servers/udp_server.cpp and         *)
(* stun_server.cpp), the hooked datagram functions of the game, and the    *)
(* thread that serves, from its start to the unloading of the component    *)
(* (component/demonware.cpp).  A service keeps one queue of requests and,  *)
(* for every SOCKET that ever asked, a queue of answers.  recvfrom visits  *)
(* the services one by one, and takes an answer from each that has one.    *)
(***************************************************************************)
EXTENDS Naturals, Sequences, SequencesExt, FiniteSets

CONSTANTS
  Sockets,      (* sockets of the game, each used by one thread of it        *)
  Servers,      (* the services of udp_servers                               *)
  Order,        (* the order in which unordered_map enumerates them          *)
  MaxSends      (* bound: how many datagrams the game sends                  *)

ASSUME UdpAssumption ==
  /\ Order \in Seq(Servers) /\ ToSet(Order) = Servers /\ IsInjective(Order)
  /\ MaxSends \in Nat

VARIABLES
  sent,         (* history: the datagrams sent, in that order                *)
  inQueue,      (* server -> in_queue_, the numbers of the datagrams         *)
  outQueue,     (* server -> socket -> its queue in out_queue_               *)
  pc,           (* server_main: "start", "frame", "pop", "handle", "sleep", "gone" *)
  serverAt,     (* the position of frame in udp_servers                      *)
  packet,       (* the datagram popped and not handled, 0 for none           *)
  recvAt,       (* socket -> the position of recvfrom in udp_servers, or 0   *)
  noRoom,       (* the sockets whose recvfrom has been given len 0           *)
  result,       (* socket -> the answer whose length recvfrom holds in its
                   result, or 0                                             *)
  found,        (* history: socket -> the answers its recvfrom has taken     *)
  blocking,     (* blocking_sockets: the sockets noted as blocking           *)
  received,     (* history: socket -> the answers given to the game          *)
  lost,         (* history: answers that a recvfrom took and did not return,
                   with what it returned and whether it had room for any    *)
  exitServer,   (* exit_server                                               *)
  phase         (* "loaded", "destroying", "unhooked"                        *)

queues == <<sent, inQueue, outQueue>>
thread == <<pc, serverAt, packet>>
reader == <<recvAt, noRoom, result, found, blocking, received, lost>>
vars == <<queues, thread, reader, exitServer, phase>>

Datagrams == [socket : Sockets, server : Servers, stun : BOOLEAN]
Sent == DOMAIN sent
Losses == [answer : Sent, returned : Sent \cup {0}, room : BOOLEAN]

TypeOK ==
  /\ sent \in Seq(Datagrams) /\ Len(sent) <= MaxSends
  /\ inQueue \in [Servers -> Seq(Sent)]
  /\ outQueue \in [Servers -> [Sockets -> Seq(Sent)]]
  /\ pc \in {"start", "frame", "pop", "handle", "sleep", "gone"}
  /\ serverAt \in 1..Len(Order) + 1
  /\ pc \in {"pop", "handle"} => serverAt <= Len(Order)
  /\ packet \in Sent \cup {0} /\ (packet # 0 <=> pc = "handle")
  /\ recvAt \in [Sockets -> 0..Len(Order) + 1]
  /\ noRoom \subseteq Sockets
  /\ result \in [Sockets -> Sent \cup {0}]
  /\ found \in [Sockets -> SUBSET Sent]
  /\ blocking \subseteq Sockets
  /\ received \in [Sockets -> Seq(Sent)]
  /\ lost \subseteq Losses
  /\ exitServer \in BOOLEAN
  /\ phase \in {"loaded", "destroying", "unhooked"}

\* post_load has set the hooks and created the thread.
Init ==
  /\ sent = <<>>
  /\ inQueue = [v \in Servers |-> <<>>]
  /\ outQueue = [v \in Servers |-> [s \in Sockets |-> <<>>]]
  /\ pc = "start" /\ serverAt = 1 /\ packet = 0
  /\ recvAt = [s \in Sockets |-> 0]
  /\ result = [s \in Sockets |-> 0]
  /\ found = [s \in Sockets |-> {}]
  /\ blocking = {} /\ noRoom = {} /\ lost = {}
  /\ received = [s \in Sockets |-> <<>>]
  /\ exitServer = FALSE /\ phase = "loaded"

------------------------------------------------------------------------------
(* The hooked socket functions. *)

\* sendto an address of a service, while the hooks are in place; stun says that
\* the datagram is one of the two kinds that are answered.
Send(s, v, stun) ==
  /\ phase # "unhooked" /\ recvAt[s] = 0
  /\ Len(sent) < MaxSends
  /\ sent' = Append(sent, [socket |-> s, server |-> v, stun |-> stun])
  /\ inQueue' = [inQueue EXCEPT ![v] = Append(@, Len(sent) + 1)]
  /\ UNCHANGED <<outQueue, thread, reader, exitServer, phase>>

\* ioctlsocket(FIONBIO): the mode is noted for the socket.
Ioctl(s) ==
  /\ phase # "unhooked" /\ recvAt[s] = 0
  /\ \/ s \notin blocking /\ blocking' = blocking \cup {s}
     \/ s \in blocking /\ blocking' = blocking \ {s}
  /\ UNCHANGED <<queues, thread, recvAt, noRoom, result, found, received, lost, exitServer, phase>>

\* closesocket: the mode is forgotten, the answers to the socket are not.
Close(s) ==
  /\ phase # "unhooked" /\ recvAt[s] = 0
  /\ blocking' = blocking \ {s}
  /\ UNCHANGED <<queues, thread, recvAt, noRoom, result, found, received, lost, exitServer, phase>>

\* recvfrom, with any len, on a socket not noted as blocking starts to visit
\* the services.
RecvFrom(s) ==
  /\ phase # "unhooked" /\ recvAt[s] = 0
  /\ s \notin blocking
  /\ recvAt' = [recvAt EXCEPT ![s] = 1]
  /\ noRoom' = noRoom \/ noRoom' = noRoom \cup {s}
  /\ UNCHANGED <<queues, thread, result, found, blocking, received, lost, exitServer, phase>>

\* Mutant of RecvVisit: the answer is copied and stays at the front.
RecvVisitWithoutPop(s) ==
  /\ recvAt[s] \in 1..Len(Order)
  /\ recvAt' = [recvAt EXCEPT ![s] = @ + 1]
  /\ LET queue == outQueue[Order[recvAt[s]]][s] IN
     IF queue = <<>>
     THEN UNCHANGED <<result, found>>
     ELSE /\ found' = [found EXCEPT ![s] = @ \cup {Head(queue)}]
          /\ result' = [result EXCEPT ![s] = IF s \in noRoom THEN 0 ELSE Head(queue)]
  /\ UNCHANGED <<queues, thread, noRoom, blocking, received, lost, exitServer, phase>>

\* Mutant of RecvVisit: one service is drained into the buffer.
RecvVisitDrains(s) ==
  /\ recvAt[s] \in 1..Len(Order)
  /\ LET v == Order[recvAt[s]]
         queue == outQueue[v][s]
     IN IF queue = <<>>
        THEN recvAt' = [recvAt EXCEPT ![s] = @ + 1] /\ UNCHANGED <<outQueue, result, found>>
        ELSE /\ outQueue' = [outQueue EXCEPT ![v][s] = Tail(@)]
             /\ found' = [found EXCEPT ![s] = @ \cup {Head(queue)}]
             /\ result' = [result EXCEPT ![s] = IF s \in noRoom THEN 0 ELSE Head(queue)]
             /\ UNCHANGED recvAt
  /\ UNCHANGED <<sent, inQueue, thread, noRoom, blocking, received, lost, exitServer, phase>>

\* pending_data and handle_output of one service.  The socket's own thread is
\* the only one that takes from this queue, so that an answer seen is taken; as
\* much of it is copied as there is room for, which is the result: an answer
\* taken with len 0 counts for none, and one that an earlier service has put
\* into the buffer is overwritten.
RecvVisit(s) ==
  /\ recvAt[s] \in 1..Len(Order)
  /\ recvAt' = [recvAt EXCEPT ![s] = @ + 1]
  /\ LET v == Order[recvAt[s]]
         queue == outQueue[v][s]
     IN IF queue = <<>>
        THEN UNCHANGED <<outQueue, result, found>>
        ELSE /\ outQueue' = [outQueue EXCEPT ![v][s] = Tail(@)]
             /\ found' = [found EXCEPT ![s] = @ \cup {Head(queue)}]
             /\ result' = [result EXCEPT ![s] = IF s \in noRoom THEN 0 ELSE Head(queue)]
  /\ UNCHANGED <<sent, inQueue, thread, noRoom, blocking, received, lost, exitServer, phase>>

\* The answer in the buffer is returned; without one the real recvfrom is asked.
RecvReturns(s) ==
  /\ recvAt[s] = Len(Order) + 1
  /\ recvAt' = [recvAt EXCEPT ![s] = 0]
  /\ noRoom' = noRoom \ {s}
  /\ result' = [result EXCEPT ![s] = 0]
  /\ found' = [found EXCEPT ![s] = {}]
  /\ received' = IF result[s] = 0 THEN received
                 ELSE [received EXCEPT ![s] = Append(@, result[s])]
  /\ lost' = lost \cup { [answer |-> r, returned |-> result[s], room |-> s \notin noRoom] :
                         r \in found[s] \ {result[s]} }
  /\ UNCHANGED <<queues, thread, blocking, exitServer, phase>>

------------------------------------------------------------------------------
(* server_main and the services. *)

\* exit_server = false, the first statement of the thread.
ServerStarts ==
  /\ pc = "start"
  /\ exitServer' = FALSE
  /\ pc' = "sleep"
  /\ UNCHANGED <<queues, serverAt, packet, reader, phase>>

\* Mutant of ServerWakes: while (true).
ServerWakesDeaf ==
  /\ pc = "sleep"
  /\ pc' = "frame"
  /\ serverAt' = 1
  /\ UNCHANGED <<queues, packet, reader, exitServer, phase>>

\* After the sleep (and before the first frame) exit_server is tested.
ServerWakes ==
  /\ pc = "sleep"
  /\ pc' = IF exitServer THEN "gone" ELSE "frame"
  /\ serverAt' = 1
  /\ UNCHANGED <<queues, packet, reader, exitServer, phase>>

\* Mutant of FrameVisits: return for continue: an idle service ends the round.
FrameVisitsAndReturns ==
  /\ pc = "frame"
  /\ IF serverAt > Len(Order) THEN pc' = "sleep" /\ UNCHANGED serverAt
     ELSE IF inQueue[Order[serverAt]] = <<>> THEN pc' = "sleep" /\ UNCHANGED serverAt
     ELSE pc' = "pop" /\ UNCHANGED serverAt
  /\ UNCHANGED <<queues, packet, reader, exitServer, phase>>

\* The next service: frame returns at once when its in_queue_ is empty.
FrameVisits ==
  /\ pc = "frame"
  /\ IF serverAt > Len(Order) THEN pc' = "sleep" /\ UNCHANGED serverAt
     ELSE IF inQueue[Order[serverAt]] = <<>> THEN serverAt' = serverAt + 1 /\ UNCHANGED pc
     ELSE pc' = "pop" /\ UNCHANGED serverAt
  /\ UNCHANGED <<queues, packet, reader, exitServer, phase>>

FramePops ==
  /\ pc = "pop"
  /\ LET v == Order[serverAt] IN
     IF inQueue[v] = <<>>
     THEN /\ pc' = "frame" /\ serverAt' = serverAt + 1
          /\ UNCHANGED <<inQueue, packet>>
     ELSE /\ pc' = "handle" /\ packet' = Head(inQueue[v])
          /\ inQueue' = [inQueue EXCEPT ![v] = Tail(@)]
          /\ UNCHANGED serverAt
  /\ UNCHANGED <<sent, outQueue, reader, exitServer, phase>>

\* Mutant of FrameHandles: answers go to the socket that sent last.
FrameHandlesLastSender ==
  /\ pc = "handle"
  /\ pc' = "pop"
  /\ packet' = 0
  /\ outQueue' = IF sent[packet].stun
                 THEN [outQueue EXCEPT ![Order[serverAt]][Last(sent).socket] = Append(@, packet)]
                 ELSE outQueue
  /\ UNCHANGED <<sent, inQueue, serverAt, reader, exitServer, phase>>

\* stun_server::handle answers discoveries to the socket they came from.
FrameHandles ==
  /\ pc = "handle"
  /\ pc' = "pop"
  /\ packet' = 0
  /\ outQueue' = IF sent[packet].stun
                 THEN [outQueue EXCEPT ![Order[serverAt]][sent[packet].socket] = Append(@, packet)]
                 ELSE outQueue
  /\ UNCHANGED <<sent, inQueue, serverAt, reader, exitServer, phase>>

PreDestroy ==
  /\ phase = "loaded"
  /\ phase' = "destroying"
  /\ exitServer' = TRUE
  /\ UNCHANGED <<queues, thread, reader>>

\* The join, then the imports of the game get their old values.
Unhook ==
  /\ phase = "destroying"
  /\ pc = "gone"
  /\ phase' = "unhooked"
  /\ UNCHANGED <<queues, thread, reader, exitServer>>

Game(s) ==
  \/ \E v \in Servers, stun \in BOOLEAN : Send(s, v, stun)
  \/ Ioctl(s) \/ Close(s) \/ RecvFrom(s) \/ RecvVisit(s) \/ RecvReturns(s)

ServerMain == ServerStarts \/ ServerWakes \/ FrameVisits \/ FramePops \/ FrameHandles

Next ==
  \/ \E s \in Sockets : Game(s)
  \/ ServerMain
  \/ PreDestroy \/ Unhook

Spec == Init /\ [][Next]_vars

\* The service thread runs, recvfrom returns, and a pre_destroy that waits in
\* join goes on when the thread has ended.
Fairness ==
  /\ WF_vars(ServerMain)
  /\ \A s \in Sockets : WF_vars(RecvVisit(s)) /\ WF_vars(RecvReturns(s))
  /\ WF_vars(Unhook)

FairSpec == Spec /\ Fairness

------------------------------------------------------------------------------
(* Properties. *)

Queued == (UNION { ToSet(inQueue[v]) : v \in Servers }) \cup ({packet} \ {0})
Waiting == UNION { ToSet(outQueue[v][s]) : v \in Servers, s \in Sockets }
Received == UNION { ToSet(received[s]) : s \in Sockets }
InCall == UNION { found[s] : s \in Sockets }
Lost == { l.answer : l \in lost }

\* An answer is at one place of the way from the request to the game, and a
\* discovery is never dropped but by recvfrom: whatever the services, sockets
\* and readers do at the same time, it waits, is with a recvfrom that has not
\* returned, was given to the game, or was lost by that call.
EveryDiscoveryHasOneFate ==
  \A r \in Sent : sent[r].stun =>
    Cardinality({ fate \in {"queued", "waiting", "call", "received", "lost"} :
      r \in CASE fate = "queued"   -> Queued
              [] fate = "waiting"  -> Waiting
              [] fate = "call"     -> InCall
              [] fate = "received" -> Received
              [] OTHER             -> Lost }) = 1

\* A socket only ever gets answers to its own requests, and the answers of one
\* service in the order of the requests: none twice, none overtaken.
AnswersInOrder ==
  \A s \in Sockets : \A i, j \in DOMAIN received[s] :
    LET a == received[s][i]
        b == received[s][j]
    IN /\ sent[a].socket = s
       /\ (i < j /\ sent[a].server = sent[b].server) => a < b

\* A recvfrom with room in its buffer loses an answer only when it returns the
\* answer of another service instead, to the same socket: a game that talks to
\* one service at a time loses nothing.
LossOnlyByOverlap ==
  \A l \in lost : l.room =>
    /\ l.returned \in Sent
    /\ sent[l.returned].socket = sent[l.answer].socket
    /\ sent[l.returned].server # sent[l.answer].server

\* Every datagram is handled, unless the component is unloaded first.
EveryDatagramIsHandled ==
  \A r \in 1..MaxSends : r \in Sent ~> (r \notin Queued \/ phase # "loaded")

\* Unloading comes to its end once the service thread has passed its first
\* statement; before it, the statement would overwrite the request to exit.
UnloadFinishes == (phase = "destroying" /\ exitServer /\ pc # "start") ~> phase = "unhooked"

==============================================================================
