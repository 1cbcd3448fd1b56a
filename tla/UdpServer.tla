----------------------------- MODULE UdpServer -----------------------------
(***************************************************************************)
(* The receiving side of pgw_server (src/src/udp_server.{h,cpp}) in front   *)
(* of the EventDispatcher: the kernel's receive buffer, the edge-triggered  *)
(* epoll registration of the socket, and the io thread, which is the        *)
(* queue's only producer.  A request of EventDispatcher is here a datagram  *)
(* of a client; workers and io thread answer it with send_response.        *)
(***************************************************************************)
EXTENDS EventDispatcher

CONSTANT SocketCapacity  \* datagrams the receive buffer holds; the kernel drops others

ASSUME UdpAssumption == SocketCapacity \in Nat \ {0}

VARIABLES
  socket,   \* the receive buffer of server_fd_
  edge,     \* epoll has an EPOLLIN edge to report for server_fd_
  iopc,     \* io_thread_: control
  received  \* udp_event, before it is enqueued

ioVars == <<socket, edge, iopc, received>>
udpVars == <<vars, ioVars>>

UdpTypeOK ==
  /\ TypeOK
  /\ socket \in Seq(Requests)
  /\ edge \in BOOLEAN
  /\ iopc \in {"off", "wait", "recv", "enqueue", "ended"}
  /\ received \in Requests \cup {NoRequest}

UdpInit ==
  /\ Init
  /\ socket = <<>>
  /\ edge = FALSE
  /\ iopc = "off"
  /\ received = NoRequest

-----------------------------------------------------------------------------
(* The network: a client that awaits no answer sends a datagram, which      *)
(* raises an edge whether or not the buffer was empty.                     *)
arrive(r) ==
  /\ answer[r] # "pending"
  /\ Len(socket) < SocketCapacity
  /\ socket' = Append(socket, r)
  /\ edge' = TRUE
  /\ answer' = [answer EXCEPT ![r] = "pending"]
  /\ UNCHANGED <<queue, flagVars, holder, workerVars, ppc, dpc, faults, terminated,
                 iopc, received>>

start ==
  /\ iopc = "off"
  /\ iopc' = "wait"
  /\ UNCHANGED <<vars, socket, edge, received>>

(* epoll_wait reports an edge once; EINTR tries again. *)
epoll_loop ==
  /\ iopc = "wait"
  /\ edge
  /\ edge' = FALSE
  /\ iopc' = "recv"
  /\ UNCHANGED <<vars, socket, received>>

(* Any other error is logged and ends the thread; the server goes on        *)
(* without it.                                                             *)
epoll_error ==
  /\ "epoll_wait" \in faults
  /\ iopc = "wait"
  /\ iopc' = "ended"
  /\ UNCHANGED <<vars, socket, edge, received>>

(* One recvfrom of process_incoming_packets, once the callback of the       *)
(* previous datagram has returned.  EAGAIN leads back to epoll_wait; EINTR  *)
(* tries again.                                                            *)
recvfrom ==
  /\ iopc = "recv"
  /\ ppc = "idle"
  /\ \/ /\ socket # <<>>
        /\ received' = Head(socket)
        /\ socket' = Tail(socket)
        /\ iopc' = "enqueue"
     \/ /\ socket = <<>>
        /\ iopc' = "wait"
        /\ UNCHANGED <<socket, received>>
  /\ UNCHANGED <<vars, edge>>

(* Any other errno: a vector of length -1 is built, and nothing catches the *)
(* exception.                                                              *)
recv_error ==
  /\ "recvfrom" \in faults
  /\ iopc = "recv"
  /\ ppc = "idle"
  /\ terminated' = TRUE
  /\ UNCHANGED <<queue, flagVars, holder, workerVars, ppc, dpc, answer, faults, ioVars>>

(* Variant: a full queue drops the packet without a reply. *)
reject_silently(r) == UNCHANGED answer
reject(r) == send_response(r, "rejected")

(* Variant: one packet for each edge. *)
AfterPacket_wait == "wait"
AfterPacket == "recv"

(* A full queue is answered by the io thread itself; otherwise the io       *)
(* thread goes through notify_event_available before the next recvfrom.     *)
enqueue_event ==
  /\ iopc = "enqueue"
  /\ \/ try_enqueue(received) /\ UNCHANGED answer
     \/ Len(queue) >= Capacity /\ reject(received) /\ UNCHANGED <<queue, ppc>>
  /\ received' = NoRequest
  /\ iopc' = AfterPacket
  /\ UNCHANGED <<flagVars, holder, workerVars, dpc, faults, terminated,
                 socket, edge>>

process_incoming_packets == recvfrom \/ recv_error \/ enqueue_event

-----------------------------------------------------------------------------
UdpNext ==
  \/ /\ ~terminated
     /\ \/ \E r \in Requests : arrive(r)
        \/ start \/ epoll_loop \/ epoll_error \/ process_incoming_packets
  \/ DispatcherStep /\ UNCHANGED ioVars

UdpSpec == UdpInit /\ [][UdpNext]_udpVars

(* Threads are scheduled: the io thread, whose callback is                  *)
(* notify_event_available, and each worker.  System calls are not obliged   *)
(* to fail, and nothing is asked of the destructor.                         *)
IoThread ==
  \/ start \/ epoll_loop \/ recvfrom \/ enqueue_event
  \/ notify_event_available /\ UNCHANGED ioVars

UdpFairness ==
  /\ WF_udpVars(~terminated /\ IoThread)
  /\ \A w \in Workers : WF_udpVars(~terminated /\ WorkerStep(w) /\ UNCHANGED ioVars)

UdpFairSpec == UdpSpec /\ UdpFairness

-----------------------------------------------------------------------------
(* An edge is reported once only, so the io thread may go back to           *)
(* epoll_wait only with an empty buffer: whatever is in the buffer has an   *)
(* edge of its own or is being drained, also if epoll_wait has failed.      *)
NoDatagramStuck == socket # <<>> => edge \/ iopc \in {"recv", "enqueue"}

(* The inductive invariant: a datagram is in hand exactly while it is being *)
(* enqueued.                                                               *)
UdpInv ==
  /\ UdpTypeOK
  /\ WaitInv
  /\ iopc = "enqueue" <=> received # NoRequest
  /\ NoDatagramStuck

(* Every datagram received and not yet answered is in exactly one place:    *)
(* the receive buffer, the io thread, the queue or the hand of one worker.  *)
(* An answered one is in none, on the path through a full queue as well:    *)
(* nobody is answered twice and no datagram gets lost between the threads.  *)
InSocket(r) == {k \in 1 .. Len(socket) : socket[k] = r}
EachDatagramOnce ==
  /\ NoEventTwice
  /\ \A j, k \in 1 .. Len(socket) : socket[j] = socket[k] => j = k
  /\ \A r \in Requests :
       /\ received = r => InSocket(r) = {}
       /\ Missing(r) <=> InSocket(r) # {} \/ received = r

(* What the clients see of buffer, queue and threads is RequestService: no  *)
(* answer without a request, none given twice, none to the wrong client, an *)
(* overload reported only under load, an answer lost only where sendto may  *)
(* fail, and an abort only by a datagram that cannot be decoded or where    *)
(* recvfrom may fail.                                                       *)
Service == INSTANCE RequestService WITH
  Refused <- Blacklisted, Fatal <- Undecodable, down <- terminated
ImplementsService == Service!Spec

(* Every decodable datagram that reached the receive buffer is answered     *)
(* (with two workers or more: see EveryRequestAnswered), unless the process *)
(* is terminated or the io thread ended, after an error of epoll_wait,      *)
(* before it took the datagram out of the buffer: what is in the queue by   *)
(* then is still answered.                                                 *)
EveryDatagramAnswered ==
  \A r \in Requests \ Undecodable :
    answer[r] = "pending" ~>
      \/ answer[r] # "pending" \/ terminated
      \/ iopc = "ended" /\ InSocket(r) # {}
=============================================================================
