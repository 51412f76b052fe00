------------------------------ MODULE TcpServer ------------------------------
(***************************************************************************)
(* One emulated TCP service (demonware/servers/tcp_server.cpp), the socket *)
(* functions of the game that the hooks replace (component/demonware.cpp)  *)
(* and the thread that serves, from its start to the unloading of the      *)
(* component.  in_queue_ holds whole packets, out_queue_ single bytes,     *)
(* each behind a mutex; but emptiness is read without it, so that recv and *)
(* select look first and take or report later.  There is one out_queue_    *)
(* per service, shared by every socket that is linked to it.               *)
(***************************************************************************)
EXTENDS Naturals, Sequences, SequencesExt

CONSTANTS
  Sockets,      (* sockets of the game, each used by one thread of it        *)
  MaxRequests,  (* bound: how many packets the game sends                    *)
  ReplyLen,     (* request -> the number of bytes handle answers with        *)
  BufferSizes   (* the len arguments recv is called with                     *)

ASSUME TcpAssumption ==
  /\ MaxRequests \in Nat
  /\ ReplyLen \in [1..MaxRequests -> Nat]
  /\ BufferSizes \subseteq Nat \ {0}

VARIABLES
  linked,       (* socket_map: the sockets linked to this service            *)
  inQueue,      (* in_queue_                                                *)
  outQueue,     (* out_queue_, bytes named <<request, position>>            *)
  sentCount,    (* how many packets have been sent                          *)
  serving,      (* server_main: "start", "sleep", "frame", "pop", "handle",
                   "gone"                                                   *)
  packet,       (* the packet popped and not handled, 0 for none            *)
  call,         (* socket -> "out", "recv": in recv, bytes seen; "found" or
                   "nothing": in select, with what it saw                   *)
  raced,        (* history: sockets in a call that another socket's take has
                   come between                                             *)
  readable,     (* history: sockets that select has reported and no socket
                   has taken since the look of that select                  *)
  ended,        (* history: the sockets a recv returned 0 for, unraced      *)
  exitServer,   (* exit_server                                              *)
  phase         (* "loaded", "destroying", "unhooked"                       *)

queues == <<inQueue, outQueue, sentCount>>
thread == <<serving, packet>>
calls == <<call, raced, readable, ended>>
unload == <<exitServer, phase>>
vars == <<linked, queues, thread, calls, unload>>

Requests == 1..MaxRequests
Reply(r) == [i \in 1..ReplyLen[r] |-> <<r, i>>]
Bytes == UNION { ToSet(Reply(r)) : r \in Requests }

TypeOK ==
  /\ linked \subseteq Sockets
  /\ inQueue \in Seq(Requests)
  /\ outQueue \in Seq(Bytes)
  /\ sentCount \in 0..MaxRequests
  /\ serving \in {"start", "sleep", "frame", "pop", "handle", "gone"}
  /\ packet \in Requests \cup {0}
  /\ serving = "handle" <=> packet # 0
  /\ call \in [Sockets -> {"out", "recv", "found", "nothing"}]
  /\ raced \subseteq Sockets /\ readable \subseteq Sockets /\ ended \subseteq Sockets
  /\ exitServer \in BOOLEAN
  /\ phase \in {"loaded", "destroying", "unhooked"}

\* post_load has set the hooks and created the thread.
Init ==
  /\ linked = {}
  /\ inQueue = <<>> /\ outQueue = <<>> /\ sentCount = 0
  /\ serving = "start" /\ packet = 0
  /\ call = [s \in Sockets |-> "out"]
  /\ raced = {} /\ readable = {} /\ ended = {}
  /\ exitServer = FALSE /\ phase = "loaded"

------------------------------------------------------------------------------
(* The hooked socket functions. *)

\* The thread of s can call one of them.
Calls(s) == phase # "unhooked" /\ call[s] = "out"

\* connect to the address of the service: socket_link.
Connect(s) ==
  /\ Calls(s)
  /\ s \notin linked
  /\ linked' = linked \cup {s}
  /\ UNCHANGED <<queues, thread, calls, unload>>

\* closesocket: socket_unlink, and nothing of the two queues is dropped.
Close(s) ==
  /\ Calls(s)
  /\ s \in linked
  /\ linked' = linked \ {s}
  /\ readable' = readable \ {s}
  /\ UNCHANGED <<queues, thread, call, raced, ended, unload>>

\* send: handle_input queues the whole packet.
Send(s) ==
  /\ Calls(s)
  /\ s \in linked
  /\ sentCount < MaxRequests
  /\ sentCount' = sentCount + 1
  /\ inQueue' = Append(inQueue, sentCount + 1)
  /\ UNCHANGED <<linked, outQueue, thread, calls, unload>>

\* Mutant of SelectLooks: every linked socket asked about is noted.
SelectWithoutPendingData(s) ==
  /\ Calls(s)
  /\ s \in linked
  /\ call' = [call EXCEPT ![s] = IF exitServer THEN "nothing" ELSE "found"]
  /\ UNCHANGED <<linked, queues, thread, raced, readable, ended, unload>>

\* select with s in readfds, under the mutex of socket_map: a linked socket is
\* noted when the out_queue_ of its service is not empty.  Once the component
\* is being unloaded only the real select is asked.
SelectLooks(s) ==
  /\ Calls(s)
  /\ s \in linked
  /\ call' = [call EXCEPT ![s] = IF ~exitServer /\ outQueue # <<>> THEN "found" ELSE "nothing"]
  /\ UNCHANGED <<linked, queues, thread, raced, readable, ended, unload>>

\* The real select has returned, which may have waited, and the sockets noted
\* are reported: what others have read meanwhile is not asked again.
SelectReports(s) ==
  /\ call[s] \in {"found", "nothing"}
  /\ call' = [call EXCEPT ![s] = "out"]
  /\ readable' = IF call[s] = "found" /\ s \notin raced THEN readable \cup {s} ELSE readable \ {s}
  /\ raced' = raced \ {s}
  /\ UNCHANGED <<linked, queues, thread, ended, unload>>

\* Mutant of RecvLooks: pending_data is not asked.
RecvWithoutPendingData(s) ==
  /\ Calls(s)
  /\ s \in linked
  /\ call' = [call EXCEPT ![s] = "recv"]
  /\ UNCHANGED <<linked, queues, thread, raced, readable, ended, unload>>

\* recv, pending_data: an empty queue is WSAEWOULDBLOCK and the call is over.
RecvLooks(s) ==
  /\ Calls(s)
  /\ s \in linked
  /\ outQueue # <<>>
  /\ call' = [call EXCEPT ![s] = "recv"]
  /\ UNCHANGED <<linked, queues, thread, raced, readable, ended, unload>>

\* recv, handle_output: as many bytes as there are, at most len; the queue may
\* have been emptied since the look, and then recv returns 0.
RecvTakes(s) ==
  /\ call[s] = "recv"
  /\ call' = [call EXCEPT ![s] = "out"]
  /\ raced' = { t \in Sockets \ {s} : call[t] # "out" }
  /\ readable' = {}
  /\ \E len \in BufferSizes :
       LET n == IF len < Len(outQueue) THEN len ELSE Len(outQueue) IN
       /\ outQueue' = SubSeq(outQueue, n + 1, Len(outQueue))
       /\ ended' = IF n = 0 /\ s \notin raced THEN ended \cup {s} ELSE ended
  /\ UNCHANGED <<linked, inQueue, sentCount, thread, unload>>

------------------------------------------------------------------------------
(* server_main and frame. *)

\* exit_server = false, the first statement of the thread.
ServerStarts ==
  /\ serving = "start"
  /\ exitServer' = FALSE
  /\ serving' = "sleep"
  /\ UNCHANGED <<linked, queues, packet, calls, phase>>

\* After the sleep of 50ms (and before the first frame) exit_server is tested.
ServerWakes ==
  /\ serving = "sleep"
  /\ serving' = IF exitServer THEN "gone" ELSE "frame"
  /\ UNCHANGED <<linked, queues, packet, calls, unload>>

\* in_queue_.get_raw().empty() sends the thread back to sleep.
FrameBegins ==
  /\ serving = "frame"
  /\ serving' = IF inQueue = <<>> THEN "sleep" ELSE "pop"
  /\ UNCHANGED <<linked, queues, packet, calls, unload>>

\* Mutant of FramePops: pops from the other end.
FramePopsNewest ==
  /\ serving = "pop"
  /\ IF inQueue = <<>>
     THEN serving' = "sleep" /\ UNCHANGED <<inQueue, packet>>
     ELSE /\ serving' = "handle"
          /\ packet' = Last(inQueue)
          /\ inQueue' = Front(inQueue)
  /\ UNCHANGED <<linked, outQueue, sentCount, calls, unload>>

\* Mutant of FramePops: a frame serves a single waiting packet only.
FramePopsOnlyTheFirst ==
  /\ serving = "pop"
  /\ IF Len(inQueue) # 1
     THEN serving' = "sleep" /\ UNCHANGED <<inQueue, packet>>
     ELSE /\ serving' = "handle"
          /\ packet' = Head(inQueue)
          /\ inQueue' = Tail(inQueue)
  /\ UNCHANGED <<linked, outQueue, sentCount, calls, unload>>

\* Under the mutex: the front packet, or the end of the frame.
FramePops ==
  /\ serving = "pop"
  /\ IF inQueue = <<>>
     THEN serving' = "sleep" /\ UNCHANGED <<inQueue, packet>>
     ELSE /\ serving' = "handle"
          /\ packet' = Head(inQueue)
          /\ inQueue' = Tail(inQueue)
  /\ UNCHANGED <<linked, outQueue, sentCount, calls, unload>>

\* handle, outside the mutex, and the send of the whole reply under the other.
FrameHandles ==
  /\ serving = "handle"
  /\ serving' = "pop"
  /\ packet' = 0
  /\ outQueue' = outQueue \o Reply(packet)
  /\ UNCHANGED <<linked, inQueue, sentCount, calls, unload>>

PreDestroy ==
  /\ phase = "loaded"
  /\ phase' = "destroying"
  /\ exitServer' = TRUE
  /\ UNCHANGED <<linked, queues, thread, calls>>

\* The join, then the imports of the game get their old values.
Unhook ==
  /\ phase = "destroying"
  /\ serving = "gone"
  /\ phase' = "unhooked"
  /\ UNCHANGED <<linked, queues, thread, calls, exitServer>>

Game(s) ==
  \/ Connect(s) \/ Close(s) \/ Send(s)
  \/ SelectLooks(s) \/ SelectReports(s)
  \/ RecvLooks(s) \/ RecvTakes(s)

ServerMain == ServerStarts \/ ServerWakes \/ FrameBegins \/ FramePops \/ FrameHandles

Next ==
  \/ \E s \in Sockets : Game(s)
  \/ ServerMain
  \/ PreDestroy \/ Unhook

Spec == Init /\ [][Next]_vars

\* The service thread runs until it sees exit_server, and handle returns.
Fairness == WF_vars(ServerMain)

FairSpec == Spec /\ Fairness

------------------------------------------------------------------------------
(* Properties. *)

\* The two queues and the packet in the thread's hand keep the promise of
\* ReplyStream: no request is skipped or answered before an older one, and no
\* byte is lost, doubled or read out of order, whoever reads.
Promise == INSTANCE ReplyStream WITH
  asked <- (IF packet = 0 THEN <<>> ELSE <<packet>>) \o inQueue,
  stream <- outQueue

KeepsPromise == Promise!Spec

\* The requests handled so far.
AnsweredCount ==
  sentCount - Len(inQueue) - (IF packet = 0 THEN 0 ELSE 1)

\* A recv that returns 0 says that the peer closed the connection. It does so
\* only if another socket of the same service has taken the bytes between the
\* look and the take, never by what one socket does alone.
NoFalseEnd == ended = {}

\* What select reports readable stays readable until somebody reads, from its
\* look on: the recv after it neither blocks nor ends the connection, however
\* long the real select has waited, unless another socket of the service has
\* taken bytes since the look.
ReadableStaysReadable == readable # {} => outQueue # <<>>

\* Every packet the game has sent is handled, whatever it sends meanwhile, as
\* long as the service thread is there.
EveryRequestIsHandled ==
  \A r \in Requests : r <= sentCount ~> (r <= AnsweredCount \/ serving = "gone")

=============================================================================
