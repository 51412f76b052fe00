----------------------------- MODULE LobbySession -----------------------------
(***************************************************************************)
(* The lobby service (demonware/servers/lobby_server.cpp) with the keys of *)
(* keys.cpp and the replies of reply.cpp, and the bdLobby client of the    *)
(* game, which is external and known from the messages the code expects.   *)
(* Packets and replies travel as TcpServer shows: whole packets in the     *)
(* order of the sends, replies in the order of the packets, read once.     *)
(* Keys, session key, packet_buffer and the counters are globals of the    *)
(* process: they survive every connection.                                 *)
(***************************************************************************)
EXTENDS Naturals, Sequences, SequencesExt, FiniteSets

CONSTANTS
  Sockets,       (* connections of the game to the service                   *)
  MaxMessages    (* bound: how many messages the game sends                  *)

ASSUME LobbyAssumption == MaxMessages \in Nat /\ IsFiniteSet(Sockets)

VARIABLES
  packetBuffer,  (* packet_buffer: what derive_keys_s1 hashes                *)
  keys,          (* data: the packet_buffer the keys were derived from       *)
  msgCount,      (* msg_count, and the id of service_reply, one ahead of 0   *)
  inQueue,       (* the packets sent and not handled                         *)
  outQueue,      (* the replies sent and not read                            *)
  state,         (* socket -> "out", "hello", "acked", "auth", "ready", "refused" *)
  transcript,    (* socket -> what the client of it has hashed               *)
  asked,         (* socket -> the numbers of its tasks without an answer     *)
  sentCount,     (* how many messages have been sent                         *)
  hellos,        (* history: how many conversations have been started        *)
  coalesced      (* history: a send has carried two messages                 *)

service == <<packetBuffer, keys, msgCount>>
client == <<state, transcript, asked>>
vars == <<service, inQueue, outQueue, client, sentCount, hellos, coalesced>>

\* The messages the handler tells apart; n makes them distinct.  "short" says it
\* is longer than it is, "unknown" is none of the types, "task" is encrypted.
Message(kind, s, n) == [kind |-> kind, from |-> s, n |-> n, key |-> transcript[s]]

Part(m) == [kind |-> m.kind, from |-> m.from, n |-> m.n]
Parts(packet) == [i \in DOMAIN packet |-> Part(packet[i])]
Ack == <<"server_header_ack">>

TypeOK ==
  /\ msgCount \in 0..MaxMessages
  /\ sentCount \in 0..MaxMessages /\ hellos \in 0..sentCount
  /\ state \in [Sockets -> {"out", "hello", "acked", "auth", "ready", "refused"}]
  /\ \A i \in DOMAIN inQueue : Len(inQueue[i]) \in {1, 2}
  /\ coalesced \in BOOLEAN
  /\ \A i \in DOMAIN outQueue :
       outQueue[i].kind \in {"zero", "ack", "done", "task"}
  /\ keys = <<>> \/ (Len(keys) <= Len(packetBuffer) /\ IsPrefix(keys, packetBuffer))
  /\ asked \in [Sockets -> SUBSET (1..MaxMessages)]

Init ==
  /\ packetBuffer = <<>> /\ keys = <<>> /\ msgCount = 0
  /\ inQueue = <<>> /\ outQueue = <<>>
  /\ state = [s \in Sockets |-> "out"]
  /\ transcript = [s \in Sockets |-> <<>>]
  /\ asked = [s \in Sockets |-> {}]
  /\ sentCount = 0 /\ hellos = 0 /\ coalesced = FALSE

------------------------------------------------------------------------------
(* The client in the game. *)

\* A message goes out alone, or next to a keep-alive in the same send.
SendMessage(kind, s) ==
  LET m == Message(kind, s, sentCount + 1)
      keepAlive == Message("zero", s, sentCount + 1)
  IN /\ sentCount < MaxMessages
     /\ sentCount' = sentCount + 1
     /\ \E packet \in {<<m>>, <<keepAlive, m>>, <<m, keepAlive>>} :
          /\ inQueue' = Append(inQueue, packet)
          /\ coalesced' = (coalesced \/ Len(packet) = 2)

Hello(s) ==
  /\ state[s] = "out"
  /\ SendMessage("header", s)
  /\ state' = [state EXCEPT ![s] = "hello"]
  /\ transcript' = [transcript EXCEPT ![s] =
       << <<[kind |-> "header", from |-> s, n |-> sentCount']>> >>]
  /\ UNCHANGED <<service, outQueue, asked>>
  /\ hellos' = hellos + 1

Auth(s) ==
  /\ state[s] = "acked"
  /\ SendMessage("auth", s)
  /\ state' = [state EXCEPT ![s] = "auth"]
  /\ transcript' = [transcript EXCEPT ![s] =
       @ \o << Ack, <<[kind |-> "auth", from |-> s, n |-> sentCount']>> >>]
  /\ UNCHANGED <<service, outQueue, asked, hellos>>

Task(s) ==
  /\ state[s] = "ready"
  /\ SendMessage("task", s)
  /\ asked' = [asked EXCEPT ![s] = @ \cup {sentCount'}]
  /\ UNCHANGED <<service, outQueue, state, transcript, hellos>>

\* Keep-alives, messages cut short and messages of other types.
Noise(s) ==
  /\ state[s] # "out"
  /\ \E kind \in {"zero", "short", "unknown"} : SendMessage(kind, s)
  /\ UNCHANGED <<service, outQueue, client, hellos>>

\* The next reply of the stream, read by whoever reads next.
Read(s) ==
  /\ state[s] # "out"
  /\ outQueue # <<>>
  /\ outQueue' = Tail(outQueue)
  /\ LET reply == Head(outQueue) IN
     CASE reply.kind = "zero" -> UNCHANGED <<state, asked>>
       [] reply.kind = "ack" ->
            /\ state' = [state EXCEPT ![s] = IF @ = "hello" THEN "acked" ELSE "refused"]
            /\ UNCHANGED asked
       [] reply.kind = "done" ->
            /\ state' = [state EXCEPT ![s] =
                 IF @ = "auth" /\ reply.key = transcript[s] THEN "ready" ELSE "refused"]
            /\ UNCHANGED asked
       [] OTHER ->
            IF state[s] = "ready" /\ reply.key = transcript[s]
            THEN /\ asked' = [asked EXCEPT ![s] = @ \ {reply.task}]
                 /\ UNCHANGED state
            ELSE state' = [state EXCEPT ![s] = "refused"] /\ UNCHANGED asked
  /\ UNCHANGED <<service, inQueue, transcript, sentCount, hellos, coalesced>>

\* closesocket: the queues, the keys and packet_buffer stay.
Close(s) ==
  /\ state[s] # "out"
  /\ state' = [state EXCEPT ![s] = "out"]
  /\ transcript' = [transcript EXCEPT ![s] = <<>>]
  /\ asked' = [asked EXCEPT ![s] = {}]
  /\ UNCHANGED <<service, inQueue, outQueue, sentCount, hellos, coalesced>>

------------------------------------------------------------------------------
(* lobby_server::handle: the first message of the packet decides, and every  *)
(* branch returns.                                                           *)

Handles(kind) == inQueue # <<>> /\ Head(inQueue)[1].kind = kind
Consume == inQueue' = Tail(inQueue) /\ UNCHANGED <<client, sentCount, hellos, coalesced>>
SendReply(reply) == outQueue' = Append(outQueue, reply)

\* size <= 0.
HandleZero ==
  /\ Handles("zero")
  /\ Consume
  /\ SendReply([kind |-> "zero"])
  /\ UNCHANGED service

\* Mutant of HandleHeader: the acknowledgement is sent and not hashed.
HandleHeaderWithoutAck ==
  /\ Handles("header")
  /\ Consume
  /\ packetBuffer' = Append(packetBuffer, Parts(Head(inQueue)))
  /\ SendReply([kind |-> "ack"])
  /\ UNCHANGED <<keys, msgCount>>

\* Mutant of HandleHeader: returns after queueing the packet to hash.
HandleHeaderSilently ==
  /\ Handles("header")
  /\ Consume
  /\ packetBuffer' = packetBuffer \o <<Parts(Head(inQueue)), Ack>>
  /\ UNCHANGED <<keys, msgCount, outQueue>>

\* size = 0xC8: the rest of the packet and the acknowledgement are hashed.
HandleHeader ==
  /\ Handles("header")
  /\ Consume
  /\ packetBuffer' = packetBuffer \o <<Parts(Head(inQueue)), Ack>>
  /\ SendReply([kind |-> "ack"])
  /\ UNCHANGED <<keys, msgCount>>

\* Mutant of HandleAuth: the response is new, the keys are those of before.
HandleAuthKeepsKeys ==
  /\ Handles("auth")
  /\ Consume
  /\ packetBuffer' = Append(packetBuffer, Parts(Head(inQueue)))
  /\ SendReply([kind |-> "done", key |-> packetBuffer'])
  /\ UNCHANGED <<keys, msgCount>>

\* 0xAB 0x82: the packet is hashed and the keys are derived from all of it.
HandleAuth ==
  /\ Handles("auth")
  /\ Consume
  /\ packetBuffer' = Append(packetBuffer, Parts(Head(inQueue)))
  /\ keys' = packetBuffer'
  /\ SendReply([kind |-> "done", key |-> keys'])
  /\ UNCHANGED msgCount

\* Mutant of HandleTask: a missing service is not answered.
HandleTaskSilently ==
  /\ Handles("task")
  /\ Consume
  /\ msgCount' = msgCount + 1
  /\ UNCHANGED <<packetBuffer, keys, outQueue>>

\* 0xAB 0x85: decrypted under the service's keys, and call_service, which has no
\* service and answers "no error".  The task is read from the decrypted bytes:
\* 0 stands for what is read under other keys.
HandleTask ==
  /\ Handles("task")
  /\ Consume
  /\ msgCount' = msgCount + 1
  /\ LET m == Head(inQueue)[1] IN
     SendReply([kind |-> "task", key |-> keys, count |-> msgCount',
                task |-> IF m.key = keys THEN m.n ELSE 0])
  /\ UNCHANGED <<packetBuffer, keys>>

\* A size beyond the packet, or an unknown type: no reply.
HandleOther ==
  /\ Handles("short") \/ Handles("unknown")
  /\ Consume
  /\ UNCHANGED <<service, outQueue>>

Handle == HandleZero \/ HandleHeader \/ HandleAuth \/ HandleTask \/ HandleOther

Client(s) == Hello(s) \/ Auth(s) \/ Task(s) \/ Noise(s) \/ Read(s) \/ Close(s)

Next == (\E s \in Sockets : Client(s)) \/ Handle

Spec == Init /\ [][Next]_vars

\* The service thread handles every packet; a client reads what is readable.
Fairness == WF_vars(Handle) /\ \A s \in Sockets : WF_vars(Read(s))

FairSpec == Spec /\ Fairness

------------------------------------------------------------------------------
(* Properties. *)

Alone == Cardinality(Sockets) = 1
OneMessageEach == ~coalesced

\* A client that takes the service for its own talks to it under equal keys, as
\* long as it is the only one: response, decryption and encryption agree.
ReadyMeansEqualKeys ==
  Alone => \A s \in Sockets : state[s] = "ready" => keys = transcript[s]

\* The first conversation of the process is never refused.  A later one always
\* is: packet_buffer still holds the first, see the README.
FirstConversationIsAccepted ==
  (Alone /\ OneMessageEach) =>
    \A s \in Sockets : state[s] = "refused" => hellos > 1

Answers == {i \in DOMAIN outQueue : outQueue[i].kind = "task"}
Requests == {i \in DOMAIN inQueue : inQueue[i][1].kind = "task"}

\* The tasks a ready client waits for are the answers on their way to it and
\* then the tasks on their way to the service: none lost, none for another, all
\* in the order they were asked, and the answers carry consecutive message
\* counts up to the last one given.
TasksAnsweredInOrder ==
  (Alone /\ OneMessageEach) =>
    \A s \in Sockets : state[s] = "ready" =>
      /\ asked[s] = {outQueue[i].task : i \in Answers} \cup {inQueue[i][1].n : i \in Requests}
      /\ \A i, j \in Answers : i < j => /\ outQueue[i].task < outQueue[j].task
                                      /\ outQueue[i].count < outQueue[j].count
      /\ \A i \in Answers, j \in Requests : outQueue[i].task < inQueue[j][1].n
      /\ \A i \in Answers : \A c \in outQueue[i].count..msgCount :
           \E j \in Answers : outQueue[j].count = c

\* A client that waits for the acknowledgement or for its authentication does
\* not wait for ever, as long as every message has come in a send of its own.
HandshakeMakesProgress ==
  \A s \in Sockets :
    state[s] \in {"hello", "auth"} ~> (state[s] \notin {"hello", "auth"} \/ coalesced)
==============================================================================
